--------------------------- MODULE ChannelMessages ---------------------------
(***************************************************************************)
(* What the ten adapters make of a platform's event (normalize...) and of  *)
(* an agent's message (send and build...), and the reply that buildReply   *)
(* makes of an inbound message.                                            *)
(*                                                                         *)
(* An event is [user, group, own]: who wrote it, the group, or NoGroup, it *)
(* was written in, and whether it is an echo of a bot's own message.       *)
(* Abstracted: the contents, of which only the parts are kept, and the     *)
(* platform's ids of messages.                                             *)
(***************************************************************************)

CONSTANTS
  NoGroup,         (* written to the bot alone                                *)
  Session          (* an id of the adapter's own for a conversation           *)

(***************************************************************************)
(* What is written: the user and the conversation an inbound message names.*)
(***************************************************************************)
Message(sender, conversation) ==
  [sender |-> sender, conversation |-> conversation]

Dropped == Message(NoGroup, NoGroup)

\* source.groupId ?? source.roomId ?? source.userId, chat.id, event.channel,
\* channel_id: where the platform shows the conversation.
Place(e) == IF e.group = NoGroup THEN e.user ELSE e.group

LineInbound(e) == Message(e.user, Place(e))

FacebookInbound(e) == IF e.own THEN Dropped ELSE Message(e.user, e.user)

InstagramInbound(e) == IF e.own THEN Dropped ELSE Message(e.user, e.user)

TikTokInbound(e) == Message(e.user, Session)

WhatsAppInbound(e) == Message(e.user, e.user)

TelegramInbound(e) == IF e.own THEN Dropped ELSE Message(e.user, Place(e))

SlackInbound(e) == IF e.own THEN Dropped ELSE Message(e.user, Place(e))

DiscordInbound(e) == IF e.own THEN Dropped ELSE Message(e.user, Place(e))

EmailInbound(e) == Message(e.user, e.user)

WebChatInbound(e) == Message(e.user, Session)

Inbound(kind, e) ==
  CASE kind = "line"      -> LineInbound(e)
    [] kind = "facebook"  -> FacebookInbound(e)
    [] kind = "instagram" -> InstagramInbound(e)
    [] kind = "tiktok"    -> TikTokInbound(e)
    [] kind = "whatsapp"  -> WhatsAppInbound(e)
    [] kind = "telegram"  -> TelegramInbound(e)
    [] kind = "slack"     -> SlackInbound(e)
    [] kind = "discord"   -> DiscordInbound(e)
    [] kind = "email"     -> EmailInbound(e)
    [] kind = "webchat"   -> WebChatInbound(e)

\* Only these platforms have groups, and only these adapters meet echoes.
Grouped == {"line", "telegram", "slack", "discord"}

Echoing == {"facebook", "instagram", "telegram", "slack", "discord"}

(***************************************************************************)
(* What is posted.  An outbound message has parts of {"text", "image",     *)
(* "choices"} (quick replies), and quotes when its replyToId is set, which *)
(* buildReply sets to an id of UniCore's and not of the platform's.        *)
(***************************************************************************)
Outbound(m, quotes, parts) ==
  [recipientId |-> m.sender, conversationId |-> m.conversation,
   quotes |-> quotes, parts |-> parts]

BuildReply(m) == Outbound(m, TRUE, {"text"})

\* A message an agent writes itself, answering nothing.
Plain(m, parts) == Outbound(m, FALSE, parts)

Post(to, parts) == [to |-> to, parts |-> parts]

\* The platform refuses the message, or the adapter cannot send it.
Refused == {}

\* What has an image is an image alone.
ImageFirst(parts) == IF "image" \in parts THEN {"image"} ELSE parts

\* A reply goes by its token, which an id of UniCore's is not.
LineSend(out) ==
  IF out.quotes THEN Refused ELSE {Post(out.recipientId, ImageFirst(out.parts))}

FacebookSend(out) ==
  {Post(out.recipientId,
        IF "choices" \in out.parts THEN out.parts \ {"image"}
        ELSE ImageFirst(out.parts))}

InstagramSend(out) == {Post(out.recipientId, out.parts \cap {"text"})}

TikTokSend(out) == {Post(out.recipientId, out.parts \cap {"text"})}

WhatsAppSend(out) == {Post(out.recipientId, ImageFirst(out.parts))}

\* Mutant: the user is written to, wherever he wrote.
TelegramSend_Recipient(out) == {Post(out.recipientId, out.parts)}

\* parseInt of the quoted id may be no number, and is then left out; an image
\* has its caption and no choices.
TelegramSend(out) ==
  {Post(out.conversationId,
        IF "image" \in out.parts THEN out.parts \ {"choices"} ELSE out.parts)}

\* thread_ts: no such thread.
SlackSend(out) ==
  IF out.quotes THEN Refused
  ELSE {Post(out.conversationId, out.parts \ {"image"})}

\* message_reference: no such message.
DiscordSend(out) ==
  IF out.quotes THEN Refused ELSE {Post(out.conversationId, out.parts \ {"choices"})}

\* ChannelFactory gives the adapter no SMTP transport.
EmailSend(out) == Refused

WebChatSend(out) == {Post(out.recipientId, out.parts)}

Send(kind, out) ==
  CASE kind = "line"      -> LineSend(out)
    [] kind = "facebook"  -> FacebookSend(out)
    [] kind = "instagram" -> InstagramSend(out)
    [] kind = "tiktok"    -> TikTokSend(out)
    [] kind = "whatsapp"  -> WhatsAppSend(out)
    [] kind = "telegram"  -> TelegramSend(out)
    [] kind = "slack"     -> SlackSend(out)
    [] kind = "discord"   -> DiscordSend(out)
    [] kind = "email"     -> EmailSend(out)
    [] kind = "webchat"   -> WebChatSend(out)
=============================================================================

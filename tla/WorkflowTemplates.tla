--------------------------- MODULE WorkflowTemplates ---------------------------
(***************************************************************************)
(* Workflow definitions: the nodes of the DSL, and the six definitions the *)
(* package ships (WORKFLOW_TEMPLATES), node by node and edge by edge.      *)
(*                                                                         *)
(* Abstracted: what an action does, what a condition tests, names, tags    *)
(* and schemas.  A node keeps its type, the ids it refers to, how many of  *)
(* its branches it waits for and what of the required rest it lacks        *)
(* (nothing, unless it was parsed).                                        *)
(***************************************************************************)
EXTENDS Naturals, Sequences

\* An absent reference: undefined, or the builder's ''.
NoRef == ""

EndNode ==
  [type |-> "end", next |-> NoRef, onError |-> NoRef, branches |-> <<>>,
   default |-> NoRef, body |-> NoRef, needs |-> 0, lacks |-> {}]

TriggerNode(next) == [EndNode EXCEPT !.type = "trigger", !.next = next]

ActionNode(next, onError) ==
  [EndNode EXCEPT !.type = "action", !.next = next, !.onError = onError]

ConditionNode(branches, default) ==
  [EndNode EXCEPT !.type = "condition", !.branches = branches,
                  !.default = default]

LoopNode(body, next) ==
  [EndNode EXCEPT !.type = "loop", !.body = body, !.next = next]

\* A parallel node waits for all of its branches, as the templates' do and those
\* that run them in chunks: or, as WaitingNode, for one ('any') or some of them
\* ('n_of_m' with its minRequired, which may be more than there are).
ParallelNode(branches, next) ==
  [EndNode EXCEPT !.type = "parallel", !.branches = branches, !.next = next,
                  !.needs = Len(branches)]

WaitingNode(branches, next, needs) ==
  [ParallelNode(branches, next) EXCEPT !.needs = needs]

\* An action without an error route, as all of the templates' are.
Step(next) == ActionNode(next, NoRef)

\* The nodes of a definition, written as <<key, node>> rows.
ByKey(rows) ==
  [n \in {row[1] : row \in rows} |-> (CHOOSE row \in rows : row[1] = n)[2]]

Definition(entry, nodes) == [entry |-> entry, nodes |-> nodes, lacks |-> {}]

-----------------------------------------------------------------------------
LeadNurture == Definition("trigger_lead_created", ByKey({
  <<"trigger_lead_created",      TriggerNode("action_score_lead")>>,
  <<"action_score_lead",         Step("condition_score_route")>>,
  <<"condition_score_route",     ConditionNode(
     <<"action_notify_sales", "action_send_warm_email">>,
     "action_send_cold_email")>>,
  <<"action_notify_sales",       Step("action_send_hot_email")>>,
  <<"action_send_hot_email",     Step("action_update_lead_status")>>,
  <<"action_send_warm_email",    Step("action_wait_3_days")>>,
  <<"action_send_cold_email",    Step("action_wait_3_days")>>,
  <<"action_wait_3_days",        Step("action_send_followup")>>,
  <<"action_send_followup",      Step("action_update_lead_status")>>,
  <<"action_update_lead_status", Step("end_success")>>,
  <<"end_success",               EndNode>>}))

OrderFulfillment == Definition("trigger_order_created", ByKey({
  <<"trigger_order_created",     TriggerNode("parallel_validate")>>,
  <<"parallel_validate",         ParallelNode(
     <<"action_verify_payment", "action_check_inventory">>,
     "condition_validation_ok")>>,
  <<"action_verify_payment",     Step(NoRef)>>,
  <<"action_check_inventory",    Step(NoRef)>>,
  <<"condition_validation_ok",   ConditionNode(
     <<"action_reserve_inventory", "action_notify_payment_failed">>,
     "action_notify_out_of_stock")>>,
  <<"action_reserve_inventory",  Step("action_create_shipment")>>,
  <<"action_create_shipment",    Step("action_update_order_shipped")>>,
  <<"action_update_order_shipped", Step("action_notify_customer_shipped")>>,
  <<"action_notify_customer_shipped", Step("end_fulfilled")>>,
  <<"action_notify_payment_failed", Step("end_payment_failed")>>,
  <<"action_notify_out_of_stock", Step("end_backordered")>>,
  <<"end_fulfilled",             EndNode>>,
  <<"end_payment_failed",        EndNode>>,
  <<"end_backordered",           EndNode>>}))

SupportEscalation == Definition("trigger_ticket_created", ByKey({
  <<"trigger_ticket_created",    TriggerNode("action_classify_ticket")>>,
  <<"action_classify_ticket",    Step("condition_priority_route")>>,
  <<"condition_priority_route",  ConditionNode(
     <<"action_escalate_immediately", "action_send_ai_reply">>,
     "action_send_ai_reply")>>,
  <<"action_escalate_immediately", Step("action_assign_senior_agent")>>,
  <<"action_assign_senior_agent", Step("end_escalated")>>,
  <<"action_send_ai_reply",      Step("action_wait_for_response")>>,
  <<"action_wait_for_response",  Step("condition_resolved")>>,
  <<"condition_resolved",        ConditionNode(
     <<"end_resolved">>, "action_escalate_to_human")>>,
  <<"action_escalate_to_human",  Step("action_notify_agent_assigned")>>,
  <<"action_notify_agent_assigned", Step("end_escalated")>>,
  <<"end_resolved",              EndNode>>,
  <<"end_escalated",             EndNode>>}))

Onboarding == Definition("trigger_customer_signed_up", ByKey({
  <<"trigger_customer_signed_up", TriggerNode("action_send_welcome_email")>>,
  <<"action_send_welcome_email", Step("action_create_onboarding_tasks")>>,
  <<"action_create_onboarding_tasks", Step("loop_onboarding_steps")>>,
  <<"loop_onboarding_steps",     LoopNode("action_send_day_email",
                                          "action_check_activation")>>,
  <<"action_send_day_email",     Step("action_wait_1_day")>>,
  <<"action_wait_1_day",         Step(NoRef)>>,
  <<"action_check_activation",   Step("condition_activation_check")>>,
  <<"condition_activation_check", ConditionNode(
     <<"action_mark_onboarded", "action_schedule_success_call">>,
     "action_send_encouragement")>>,
  <<"action_mark_onboarded",     Step("end_success")>>,
  <<"action_schedule_success_call", Step("end_needs_support")>>,
  <<"action_send_encouragement", Step("end_in_progress")>>,
  <<"end_success",               EndNode>>,
  <<"end_needs_support",         EndNode>>,
  <<"end_in_progress",           EndNode>>}))

Reporting == Definition("trigger_weekly_schedule", ByKey({
  <<"trigger_weekly_schedule",   TriggerNode("parallel_collect_data")>>,
  <<"parallel_collect_data",     ParallelNode(
     <<"action_fetch_revenue", "action_fetch_leads",
       "action_fetch_support", "action_fetch_ops">>,
     "action_generate_report")>>,
  <<"action_fetch_revenue",      Step(NoRef)>>,
  <<"action_fetch_leads",        Step(NoRef)>>,
  <<"action_fetch_support",      Step(NoRef)>>,
  <<"action_fetch_ops",          Step(NoRef)>>,
  <<"action_generate_report",    Step("action_store_report")>>,
  <<"action_store_report",       Step("loop_distribute_report")>>,
  <<"loop_distribute_report",    LoopNode("action_email_report",
                                          "end_success")>>,
  <<"action_email_report",       Step(NoRef)>>,
  <<"end_success",               EndNode>>}))

ChurnPrevention == Definition("trigger_health_score_dropped", ByKey({
  <<"trigger_health_score_dropped", TriggerNode("action_assess_churn_risk")>>,
  <<"action_assess_churn_risk",  Step("condition_risk_level")>>,
  <<"condition_risk_level",      ConditionNode(
     <<"parallel_critical_intervention", "action_send_retention_email">>,
     "action_send_re_engagement")>>,
  <<"parallel_critical_intervention", ParallelNode(
     <<"action_alert_success_team", "action_send_retention_offer">>,
     "action_create_intervention_record")>>,
  <<"action_alert_success_team", Step(NoRef)>>,
  <<"action_send_retention_offer", Step(NoRef)>>,
  <<"action_send_retention_email", Step("action_create_intervention_record")>>,
  <<"action_send_re_engagement", Step("action_create_intervention_record")>>,
  <<"action_create_intervention_record", Step("end_intervention_complete")>>,
  <<"end_intervention_complete", EndNode>>}))

Templates == {LeadNurture, OrderFulfillment, SupportEscalation, Onboarding,
              Reporting, ChurnPrevention}
=============================================================================

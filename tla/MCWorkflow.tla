----------------------------- MODULE MCWorkflow -----------------------------
(***************************************************************************)
(* A document that is submitted, signed and reset, with an auto transition *)
(* that files it and two that chase each other when its data is d2.        *)
(***************************************************************************)
EXTENDS Workflow

CONSTANTS r1, d1, d2, none

MCRec == {r1}

MCKeyed ==
  {<<"create", d1>>, <<"update", r1, d1>>, <<"act", r1, "sign">>}

MCData == {d1, d2}

Manual(action, from, to, when, approval, assigned) ==
  [action |-> action, from |-> from, to |-> to, when |-> when, auto |-> FALSE,
   approval |-> approval, assigned |-> assigned]

Auto(from, to, when) ==
  [action |-> "auto", from |-> from, to |-> to, when |-> when, auto |-> TRUE,
   approval |-> FALSE, assigned |-> FALSE]

MCTransitions ==
  << Manual("submit", "draft", "review", {d1, d2}, FALSE, FALSE),
     Manual("sign", "review", "done", {d1}, TRUE, FALSE),
     Manual("reset", "any", "draft", {d2}, FALSE, TRUE),
     Auto("review", "done", {d2}),
     Auto("done", "review", {d2}),
     Auto("any", "review", {d1}) >>

MCTriggers == << [on |-> "update", when |-> {d2}, task |-> "check"] >>
=============================================================================

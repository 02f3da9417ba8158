---------------------------- MODULE MCApprovals ----------------------------
(***************************************************************************)
(* A document that is signed and reopened: several requests for one        *)
(* signature, decided while the document moves or its data changes; with   *)
(* data d2 two auto transitions chase each other, and one of them says it  *)
(* requires an approval.                                                   *)
(***************************************************************************)
EXTENDS Workflow

CONSTANTS r1, d1, d2, none

MCRec == {r1}

MCData == {d1, d2}

MCKeyed == {<<"act", r1, "reopen">>}

Manual(action, from, to, when, approval, assigned) ==
  [action |-> action, from |-> from, to |-> to, when |-> when, auto |-> FALSE,
   approval |-> approval, assigned |-> assigned]

Auto(from, to, when, approval) ==
  [action |-> "auto", from |-> from, to |-> to, when |-> when, auto |-> TRUE,
   approval |-> approval, assigned |-> FALSE]

MCTriggers ==
  << [on |-> "create", when |-> {d1}, task |-> "index"],
     [on |-> "create", when |-> {d1}, task |-> "notify"] >>

MCTransitions ==
  << Manual("sign", "review", "done", {d1}, TRUE, FALSE),
     Manual("reopen", "any", "review", {d1, d2}, FALSE, FALSE),
     Auto("review", "done", {d2}, TRUE),
     Auto("done", "review", {d2}, FALSE) >>
=============================================================================

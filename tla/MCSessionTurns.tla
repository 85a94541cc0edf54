--------------------------- MODULE MCSessionTurns ---------------------------
(* Constants for TLC. *)
EXTENDS SessionTurns

\* Delegates with and without a goal, a wake-up, a job that recurs once
MCAsked ==
  [kind : {"delegate"}, ivl : {"none"}, limit : {1}, next : {"due"}, blank : BOOLEAN]
    \cup [kind : {"wake"}, ivl : {"none"}, limit : {1}, next : {"future"}, blank : {FALSE}]
    \cup [kind : {"cron"}, ivl : {"some"}, limit : {RepeatCount}, next : {"future"}, blank : {FALSE}]
=============================================================================

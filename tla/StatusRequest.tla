---------------------------- MODULE StatusRequest ----------------------------
(***************************************************************************)
(* The controller's requests and the replies that come back as proxy       *)
(* notifications: request_status, request_battery, request_mcu_version and *)
(* request_version, and _handle_response that records what arrives.  The   *)
(* link's lock admits one request at a time.  The mesh loses, delays and   *)
(* duplicates: the reply to a request that was sent comes at any time      *)
(* after, any number of times, or never.  It carries its sender and its    *)
(* kind, but nothing that ties it to a request.                            *)
(***************************************************************************)
EXTENDS Naturals, FiniteSets

CONSTANTS
  Nodes,       \* the lights
  Kinds,       \* what can be asked: status, battery, mcu version, version
  MaxRequests  \* bound on the requests a run makes

ASSUME RequestAssumption == MaxRequests \in Nat

\* age counts requests: a reply of age i was made for the i-th of them.
Request == [node : Nodes, kind : Kinds, age : 1 .. MaxRequests]

VARIABLES
  stage,     \* "idle", "sending", "waiting", "answered", "timedout", "raised"
  asked,     \* the request in progress, or the last one (a set of at most one)
  made,      \* requests made so far
  replies,   \* replies that may yet come
  recorded,  \* what _status, _battery, _mcu_version and _version hold, per kind
  event,     \* kinds whose event is set
  answer,    \* what the request returned (at most one reply)
  fresh      \* history: kinds recorded since the current request was made

vars == <<stage, asked, made, replies, recorded, event, answer, fresh>>

TypeOK == /\ stage \in {"idle", "sending", "waiting", "answered", "timedout", "raised"}
          /\ asked \subseteq Request /\ Cardinality(asked) <= 1
          /\ made \in 0 .. MaxRequests
          /\ replies \subseteq Request
          /\ recorded \in [Kinds -> SUBSET Request]
          /\ \A k \in Kinds : Cardinality(recorded[k]) <= 1
          /\ event \subseteq Kinds
          /\ answer \subseteq Request /\ fresh \subseteq Kinds

Init == /\ stage = "idle" /\ asked = {} /\ made = 0
        /\ replies = {}
        /\ recorded = [k \in Kinds |-> {}] /\ event = {}
        /\ answer = {} /\ fresh = {}

-----------------------------------------------------------------------------
Busy == stage \in {"sending", "waiting"}

\* Mutant: the last reply and its event are left in place.
AskUncleared(n, k) ==
  /\ ~Busy /\ made < MaxRequests
  /\ made' = made + 1
  /\ asked' = {[node |-> n, kind |-> k, age |-> made + 1]}
  /\ answer' = {} /\ fresh' = {}
  /\ stage' = "sending"
  /\ UNCHANGED <<replies, recorded, event>>

\* Clear the kind's slot and event, then write the request.
Ask(n, k) ==
  /\ ~Busy /\ made < MaxRequests
  /\ made' = made + 1
  /\ asked' = {[node |-> n, kind |-> k, age |-> made + 1]}
  /\ recorded' = [recorded EXCEPT ![k] = {}]
  /\ event' = event \ {k}
  /\ answer' = {} /\ fresh' = {}
  /\ stage' = "sending"
  /\ UNCHANGED replies

\* The write returns; or it raises, with the request out or not.
Sent == /\ stage = "sending"
        /\ stage' = "waiting"
        /\ replies' = replies \cup asked
        /\ UNCHANGED <<asked, made, recorded, event, answer, fresh>>

SendRaises == /\ stage = "sending"
              /\ stage' = "raised"
              /\ replies' \in {replies, replies \cup asked}
              /\ UNCHANGED <<asked, made, recorded, event, answer, fresh>>

\* wait_for's inner wait has ended; the slot is read when the task resumes.
Answered == /\ stage = "waiting"
            /\ \A r \in asked : r.kind \in event
            /\ stage' = "answered"
            /\ answer' = UNION {recorded[r.kind] : r \in asked}
            /\ UNCHANGED <<asked, made, replies, recorded, event, fresh>>

\* The timeout may also win over an event set in the same turn of the loop; or the
\* request is cancelled.
TimesOut == /\ stage = "waiting"
            /\ stage' = "timedout"
            /\ UNCHANGED <<asked, made, replies, recorded, event, answer, fresh>>

-----------------------------------------------------------------------------

\* _handle_response: the reply is filed under its kind, whoever sent it.
HandleResponse(r) == /\ r \in replies
                     /\ recorded' = [recorded EXCEPT ![r.kind] = {r}]
                     /\ event' = event \cup {r.kind}
                     /\ fresh' = fresh \cup {r.kind}
                     /\ UNCHANGED <<stage, asked, made, replies, answer>>

Next == \/ \E n \in Nodes, k \in Kinds : Ask(n, k)
        \/ Sent \/ SendRaises \/ Answered \/ TimesOut
        \/ \E r \in replies : HandleResponse(r)

Spec == Init /\ [][Next]_vars

-----------------------------------------------------------------------------
\* Every answer is one of the kind that was asked for, so the assertion that
\* follows wait_for holds: a reply of that kind is there to be returned.
AnswerFits == stage = "answered" =>
                answer # {} /\ \A r \in asked, a \in answer : a.kind = r.kind

\* controller.py:726: "a reply that arrived earlier cannot be mistaken for the
\* answer to this request".
AnswerArrivedSince == stage = "answered" => \A r \in asked : r.kind \in fresh

=============================================================================

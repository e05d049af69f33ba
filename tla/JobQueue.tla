------------------------------ MODULE JobQueue ------------------------------
(***************************************************************************)
(* What the generation queue promises to the people who ask for episodes,  *)
(* without leases, processes or tables (README.md, "Persistence and jobs"; *)
(* SPEC.md JOB-01 to JOB-04): requests are tried one at a time, the oldest *)
(* waiting request first; a try that is lost puts its request back in its  *)
(* old place; an episode is delivered at most once, by the try in hand; a  *)
(* refused request is tried again only when somebody asks.                 *)
(***************************************************************************)
EXTENDS Naturals

CONSTANT Job

VARIABLES
  status,   \* where the request stands
  ticket,   \* order of arrival, 0 before
  tries,    \* tries begun
  result,   \* the try that delivered, 0 for none
  again     \* a refused request may be asked for again

qvars == <<status, ticket, tries, result, again>>

Init ==
  /\ status = [j \in Job |-> "new"]
  /\ ticket = [j \in Job |-> 0]
  /\ tries = [j \in Job |-> 0]
  /\ result = [j \in Job |-> 0]
  /\ again = [j \in Job |-> FALSE]

Waiting == {j \in Job : status[j] = "waiting"}
Active  == {j \in Job : status[j] = "active"}

Submit(j) ==
  /\ status[j] = "new"
  /\ status' = [status EXCEPT ![j] = "waiting"]
  /\ \E t \in {ticket[i] + 1 : i \in Job} :
       /\ \A i \in Job : ticket[i] < t
       /\ ticket' = [ticket EXCEPT ![j] = t]
  /\ UNCHANGED <<tries, result, again>>

(* Tries whose worker was lost go back to the line; requests nobody can     *)
(* read are refused when their turn comes.                                  *)
PutBack(lost, bad) ==
  [j \in Job |-> IF j \in bad THEN "refused" ELSE IF j \in lost THEN "waiting" ELSE status[j]]

(* A worker visits the line and begins the oldest request it can serve.     *)
Begin(j, lost, bad) ==
  /\ lost = Active
  /\ j \in (Waiting \cup lost) \ bad
  /\ bad = {i \in Waiting \cup lost : ticket[i] < ticket[j]}
  /\ status' = [PutBack(lost, bad) EXCEPT ![j] = "active"]
  /\ tries' = [tries EXCEPT ![j] = @ + 1]
  /\ UNCHANGED <<ticket, result, again>>

(* It finds nothing to begin: something is active, or the line is refused   *)
(* to the last request.                                                     *)
PassBy(lost, bad) ==
  /\ lost \subseteq Active
  /\ bad = {} \/ (lost = Active /\ bad = Waiting \cup lost)
  /\ status' = PutBack(lost, bad)
  /\ UNCHANGED <<ticket, tries, result, again>>

Deliver(j) ==
  /\ status[j] = "active"
  /\ status' = [status EXCEPT ![j] = "delivered"]
  /\ result' = [result EXCEPT ![j] = tries[j]]
  /\ UNCHANGED <<ticket, tries, again>>

Refuse(j) ==
  /\ status[j] = "active"
  /\ status' = [status EXCEPT ![j] = "refused"]
  /\ \E b \in BOOLEAN : again' = [again EXCEPT ![j] = b]
  /\ UNCHANGED <<ticket, tries, result>>

AskAgain(j) ==
  /\ status[j] = "refused" /\ again[j]
  /\ status' = [status EXCEPT ![j] = "waiting"]
  /\ again' = [again EXCEPT ![j] = FALSE]
  /\ UNCHANGED <<ticket, tries, result>>

Next ==
  \/ \E j \in Job : Submit(j) \/ Deliver(j) \/ Refuse(j) \/ AskAgain(j)
  \/ \E lost \in SUBSET Active : \E bad \in SUBSET (Waiting \cup lost) :
       PassBy(lost, bad) \/ \E j \in Job : Begin(j, lost, bad)

Spec == Init /\ [][Next]_qvars
=============================================================================

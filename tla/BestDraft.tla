------------------------------ MODULE BestDraft -------------------------------
(***************************************************************************)
(* What the skill optimizer promises of the contents it tries, whatever    *)
(* becomes of its iterations: it never builds on anything but the best     *)
(* content seen so far, and answers at most once, with that content or     *)
(* with nothing.                                                           *)
(***************************************************************************)
EXTENDS Naturals, Sequences

CONSTANT Top

VARIABLES
  trials,  \* the contents scored, in order: content, what it improves, score
  answer,  \* the trial returned to the user
  closed,  \* the run is over
  intact   \* nothing that was remembered of the trials has been lost

Scores   == 0..Top
Trials   == [content : Nat, from : Nat, test : Scores]
NoAnswer == [iteration |-> 0]
Answer(i, t) == [iteration |-> i, content |-> t.content, test |-> t.test]

Leads(i) == \A j \in DOMAIN trials : trials[j].test <= trials[i].test

\* The trial whose score none reached before it and none beat after it.
LeadsFirst(i) ==
  /\ Leads(i)
  /\ \A j \in 1..(i - 1) : trials[j].test < trials[i].test

\* The contents a trial may build on: the original, then any leader.
Base ==
  IF trials = <<>> THEN {0}
  ELSE {trials[i].content : i \in {j \in DOMAIN trials : Leads(j)}}

Fresh(c) == \A i \in DOMAIN trials : trials[i].content # c

Init ==
  /\ trials = <<>>
  /\ answer = NoAnswer
  /\ closed = FALSE
  /\ intact = TRUE

\* A leader is scored once more, or something new that was made from one.
MayTry(t) == t.content \in Base \/ (t.from \in Base /\ Fresh(t.content))

Try ==
  /\ ~closed
  /\ Len(trials') = Len(trials) + 1
  /\ LET t == trials'[Len(trials) + 1]
     IN  /\ t \in Trials
         /\ MayTry(t)
         /\ trials' = Append(trials, t)
  /\ UNCHANGED <<answer, closed, intact>>

\* A run whose memory failed may answer with any of its trials.
Close ==
  /\ ~closed
  /\ closed' = TRUE
  /\ \/ answer' = NoAnswer
     \/ \E i \in DOMAIN trials :
          LeadsFirst(i) /\ answer' = Answer(i, trials[i])
     \/ /\ ~intact
        /\ \E i, j \in DOMAIN trials : answer' = Answer(j, trials[i])
  /\ intact' \in {intact, FALSE}
  /\ UNCHANGED trials

Forget ==
  /\ intact' = FALSE
  /\ UNCHANGED <<trials, answer, closed>>

Next == Try \/ Close \/ Forget

vars == <<trials, answer, closed, intact>>
Spec == Init /\ [][Next]_vars
=============================================================================

---------------------------- MODULE MCLocalState ----------------------------
\* The three parts of the program that deal with nothing outside it for TLC, which
\* share no variable: a behaviour is one of KeyStore (part is "keys"), of
\* ShowLayout ("grid") or of ThreadPool ("pool"), and the other parts stay as they
\* began.  Two faults, and pairs of keys enough for the runs they cost; the table
\* of the code, and every number of devices up to its last entry; two workers and
\* three tasks, which are interchangeable but for the endless one.
EXTENDS KeyStore, ShowLayout, ThreadPool

CONSTANTS accept, t1, t2

MCTasks == {accept, t1, t2}
MCEndless == {accept}

VARIABLE part

localVars == <<keyVars, gridVars, vars, part>>

LocalInit == KeyInit /\ GridInit /\ Init /\ part \in {"keys", "grid", "pool"}

KeyStep(A) == part = "keys" /\ A /\ UNCHANGED <<gridVars, vars, part>>
GridStep(A) == part = "grid" /\ A /\ UNCHANGED <<keyVars, vars, part>>
PoolStep(A) == part = "pool" /\ A /\ UNCHANGED <<keyVars, gridVars, part>>

\* A pool that was shut down, or waits for a task that never returns, may rest; the
\* keys and the grid always have something to do.
PoolRests == part = "pool" /\ owner \in {"join", "down"} /\ UNCHANGED localVars

LocalNext == KeyStep(KeyNext) \/ GridStep(GridNext) \/ PoolStep(Next) \/ PoolRests

\* The fairness of KeySpec and of ThreadPool's Spec.
LocalSpec ==
  /\ LocalInit /\ [][LocalNext]_localVars
  /\ WF_localVars(KeyStep(Program))
  /\ SF_localVars(KeyStep(Sign /\ phase = "up"))
  /\ SF_localVars(KeyStep(Offer /\ phase = "up"))
  /\ \A t \in Tasks : WF_localVars(PoolStep(Notify(t)))
  /\ \A w \in Workers : SF_localVars(PoolStep(Work(w)))
  /\ WF_localVars(PoolStep(NotifyAll)) /\ WF_localVars(PoolStep(Join))

(* DeviceLearns is about behaviours of its own part: in the others, it     *)
(* would ask a program that never started.                                 *)
KeysLearned == part = "keys" => DeviceLearns
=============================================================================

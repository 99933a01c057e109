--------------------------- MODULE CoordinatorsProofs ---------------------------
(***************************************************************************)
(* Theorems about the desktop's query coordinator with its graceful        *)
(* shutdown, and about its export coordinator, for every set of            *)
(* executions, tabs and exports and every number of failures and crashes.  *)
(*                                                                         *)
(* The inductive invariants say what a record knows (QueryRecord,          *)
(* ExportRecord), what a thread that holds a status may do with it         *)
(* (QueryThread, ExportThread), and that of all threads at most one is     *)
(* about to write an execution's history row (OnePersists).                *)
(***************************************************************************)
EXTENDS MCCoordinators, TLAPS

--------------------------------------------------------------------------------
(* The query coordinator.                                                  *)

\* Until a poller exists no poll has failed; a record counts as active exactly until
\* its history is owned; what is in the history is what the record shows.
QueryRecord(x) ==
    /\ tab[x] = None => x \notin written /\ ~Present(x) /\ at[<<"submit", x>>] = "idle"
    /\ tab[x] = None \/ at[<<"submit", x>>] \in {"track", "submit"} =>
          failures[x] = 0 /\ at[<<"poll", x>>] = "idle"
    /\ Present(x) => (Active(x) <=> x \notin written)
    /\ history[x] # <<>> =>
          x \in written /\ Len(history[x]) = 1 /\ (Present(x) => state[x] = history[x][1])

\* What a thread holds at each of its steps.
QueryThread(th) ==
    /\ at[th] \in {"ask", "apply", "take"} => th[1] = "poll"
    /\ at[th] \in {"track", "submit"} => th[1] = "submit"
    /\ at[th] = "ask" => failures[th[2]] < MaxFailures
    /\ at[th] = "apply" => failures[th[2]] = 0 /\ snap[th] \in ActiveStates
    /\ at[th] = "mark" \/ at[th] = "persist" => snap[th] \in TerminalStates
    /\ at[th] = "take" => snap[th] \in TerminalStates
    /\ at[th] = "persist" =>
          /\ th[2] \in written /\ history[th[2]] = <<>>
          /\ Present(th[2]) => state[th[2]] = snap[th]

\* One thread at most is about to write an execution's row.
OnePersists == \A th, other \in Threads :
    at[th] = "persist" /\ at[other] = "persist" /\ th[2] = other[2] => th = other

QueryInv ==
    /\ TypeOK
    /\ \A x \in Executions : QueryRecord(x)
    /\ \A th \in Threads : QueryThread(th)
    /\ OnePersists

LEMMA ThreadsOf ==
    /\ \A x \in Executions : <<"submit", x>> \in Threads /\ <<"poll", x>> \in Threads
    /\ \A th \in Threads : /\ th[2] \in Executions
                           /\ th = <<"submit", th[2]>> \/ th = <<"poll", th[2]>>
                           /\ th = <<th[1], th[2]>>
BY DEF Threads

LEMMA QueryInitInv == Init => QueryInv
<1> SUFFICES ASSUME Init PROVE QueryInv
  OBVIOUS
<1>1. TypeOK
  <2>1. failures \in [Executions -> 0..MaxFailures] /\ crashes \in 0..MaxCrashes
    BY QueryBounds DEF Init, QueryInit
  <2>2. history \in [Executions -> Seq(TerminalStates)]
    BY DEF Init, QueryInit
  <2>3. at \in [Threads -> Steps] /\ snap \in [Threads -> EngineStates] /\ eng \in [Executions -> EngineStates]
    BY DEF Init, QueryInit, Steps, EngineStates
  <2> QED  BY <2>1, <2>2, <2>3 DEF Init, QueryInit, TypeOK, QueryTypeOK
<1>2. \A x \in Executions : QueryRecord(x)
  BY ThreadsOf DEF Init, QueryInit, QueryRecord, Present
<1>3. \A th \in Threads : QueryThread(th)
  BY DEF Init, QueryInit, QueryThread
<1>4. OnePersists
  BY DEF Init, QueryInit, OnePersists
<1> QED  BY <1>1, <1>2, <1>3, <1>4 DEF QueryInv

\* Only the records, the threads and the history matter to the invariant: neither
\* what the engine would answer nor where the shutdown is.
LEMMA QueryFrame ==
    ASSUME QueryInv, TypeOK', UNCHANGED <<records, threads, history>>
    PROVE  QueryInv'
BY DEF QueryInv, QueryRecord, QueryThread, OnePersists, Present, Active, records, threads

\* execute: an id is used once, so nothing is known of it.
LEMMA ExecuteKeeps ==
    ASSUME QueryInv, NEW x \in Executions, NEW t \in Tabs, Execute(x, t), UNCHANGED shutdownVars
    PROVE  QueryInv'
<1> USE DEF QueryInv
<1>1. /\ tab[x] = None /\ x \notin written /\ ~Present(x)
      /\ state' = [state EXCEPT ![x] = "queued"] /\ tab' = [tab EXCEPT ![x] = t]
      /\ at' = [at EXCEPT ![<<"submit", x>>] = "track"]
      /\ UNCHANGED <<result, written, latest, snap, failures, history, engine>>
  BY DEF Execute, Goes, QueryRecord
<1>2. TypeOK'
  BY <1>1, ThreadsOf DEF TypeOK, QueryTypeOK, ActiveStates, Steps, engine, shutdownVars
<1>3. \A y \in Executions : QueryRecord(y)'
  BY <1>1, ThreadsOf, NoneAssumption DEF QueryRecord, Present, Active, ActiveStates, TypeOK, QueryTypeOK
<1>4. \A th \in Threads : QueryThread(th)'
  BY <1>1, ThreadsOf DEF QueryThread, Present, TypeOK, QueryTypeOK
<1>5. OnePersists'
  BY <1>1, ThreadsOf DEF OnePersists, TypeOK, QueryTypeOK
<1> QED  BY <1>2, <1>3, <1>4, <1>5

\* A step of thread th of the execution x that changes only where it is and what it holds.
LEMMA ThreadGoes ==
    ASSUME QueryInv, NEW th \in Threads, NEW x \in Executions, th[2] = x,
           at[th] # "idle", at[th] # "persist",
           NEW step \in {"idle", "submit", "ask", "apply", "take", "mark"},
           at' = [at EXCEPT ![th] = step],
           \A o \in Threads \ {th} : snap'[o] = snap[o],
           \A y \in Executions \ {x} : failures'[y] = failures[y],
           UNCHANGED <<state, tab, written, history>>, TypeOK',
           step \in {"track", "submit"} => at[th] \in {"track", "submit"} /\ failures' = failures,
           failures' = failures \/ at[th] = "ask",
           QueryThread(th)'
    PROVE  QueryInv'
<1> USE DEF QueryInv
<1>1. at \in [Threads -> Steps]
  BY DEF TypeOK, QueryTypeOK
<1>2. \A y \in Executions : QueryRecord(y)'
  <2> SUFFICES ASSUME NEW y \in Executions PROVE QueryRecord(y)'
    OBVIOUS
  <2>1. CASE y # x
    BY <1>1, <2>1, ThreadsOf DEF QueryRecord, Present, Active
  <2>2. CASE y = x
    BY <1>1, <2>2, ThreadsOf DEF QueryRecord, QueryThread, Present, Active
  <2> QED  BY <2>1, <2>2
<1>3. \A o \in Threads : QueryThread(o)'
  <2> SUFFICES ASSUME NEW o \in Threads \ {th} PROVE QueryThread(o)'
    OBVIOUS
  <2>1. at'[o] = at[o] /\ snap'[o] = snap[o]
    BY <1>1
  <2>2. failures'[o[2]] = failures[o[2]] \/ at[o] \notin {"ask", "apply"}
    BY ThreadsOf DEF QueryThread
  <2> QED  BY <2>1, <2>2 DEF QueryThread, Present
<1>4. OnePersists'
  BY <1>1 DEF OnePersists
<1> QED  BY <1>2, <1>3, <1>4

\* The steps of submitters and pollers that leave state and history alone.
LEMMA StatusSteps ==
    ASSUME QueryInv, NEW x \in Executions, UNCHANGED shutdownVars,
           Track(x) \/ NotPolled(x) \/ Ask(x) \/ AskFails(x) \/ TakeResult(x)
    PROVE  QueryInv'
<1> USE DEF QueryInv
<1> DEFINE s == <<"submit", x>>
           p == <<"poll", x>>
<1>0. /\ s \in Threads /\ p \in Threads /\ s # p /\ s[2] = x /\ p[2] = x /\ s[1] = "submit" /\ p[1] = "poll"
      /\ at \in [Threads -> Steps] /\ snap \in [Threads -> EngineStates]
      /\ failures \in [Executions -> 0..MaxFailures] /\ MaxFailures \in Nat \ {0}
  BY ThreadsOf, QueryBounds DEF TypeOK, QueryTypeOK
<1> HIDE DEF s, p
<1>1. CASE Track(x)
  <2>1. /\ at[s] = "track" /\ at' = [at EXCEPT ![s] = "submit"]
        /\ latest' = [latest EXCEPT ![tab[x]] = x]
        /\ UNCHANGED <<state, tab, result, written, snap, failures, history, engine>>
    BY <1>1 DEF Track, Goes, s
  <2>2. TypeOK'
    BY <1>0, <2>1 DEF TypeOK, QueryTypeOK, Steps, engine, shutdownVars
  <2>3. QueryThread(s)'
    BY <1>0, <2>1 DEF QueryThread
  <2> QED  BY <1>0, <2>1, <2>2, <2>3, ThreadGoes
<1>2. CASE NotPolled(x)
  <2>1. /\ at[s] = "submit" /\ at' = [at EXCEPT ![s] = "mark"]
        /\ snap' = [snap EXCEPT ![s] = "failed"]
        /\ UNCHANGED <<records, failures, history, crashes>>
        /\ eng' = eng \/ eng' = [eng EXCEPT ![x] = "queued"]
        /\ up' \in {up, TRUE}
    BY <1>2 DEF NotPolled, Goes, Holds, s
  <2>2. TypeOK'
    BY <1>0, <2>1 DEF TypeOK, QueryTypeOK, Steps, EngineStates, ActiveStates, TerminalStates, records, shutdownVars
  <2>3. QueryThread(s)'
    BY <1>0, <2>1 DEF QueryThread, TerminalStates
  <2> QED  BY <1>0, <2>1, <2>2, <2>3, ThreadGoes DEF records
<1>3. CASE Ask(x)
  <2> DEFINE r == IF eng[x] = "unknown" THEN "failed" ELSE eng[x]
  <2>1. /\ at[p] = "ask" /\ at' = [at EXCEPT ![p] = Treats(r)]
        /\ snap' = [snap EXCEPT ![p] = r]
        /\ failures' = [failures EXCEPT ![x] = 0]
        /\ up' = TRUE
        /\ UNCHANGED <<records, history, eng, crashes>>
    BY <1>3 DEF Ask, Goes, Holds, p
  <2>2. r \in ActiveStates \cup TerminalStates
    BY DEF TypeOK, QueryTypeOK, EngineStates, TerminalStates
  <2>3. /\ Treats(r) \in {"apply", "take", "mark"}
        /\ Treats(r) = "apply" <=> r \in ActiveStates
    BY <2>2 DEF Treats, ActiveStates, TerminalStates
  <2> HIDE DEF r
  <2>4. TypeOK'
    BY <1>0, <2>1, <2>2, <2>3 DEF TypeOK, QueryTypeOK, Steps, EngineStates, records, shutdownVars
  <2>5. QueryThread(p)'
    BY <1>0, <2>1, <2>2, <2>3 DEF QueryThread
  <2> QED  BY <1>0, <2>1, <2>3, <2>4, <2>5, ThreadGoes DEF records
<1>4. CASE AskFails(x)
  <2>0. at[p] = "ask" /\ failures[x] < MaxFailures
    BY <1>0, <1>4 DEF AskFails, QueryThread, p
  <2>1. /\ failures' = [failures EXCEPT ![x] = @ + 1]
        /\ UNCHANGED <<records, history, engine>>
        /\ \/ at' = [at EXCEPT ![p] = "mark"] /\ snap' = [snap EXCEPT ![p] = "failed"]
           \/ failures'[x] < MaxFailures /\ at' = [at EXCEPT ![p] = "ask"] /\ snap' = snap
    BY <1>0, <1>4, <2>0 DEF AskFails, Counted, GivesUpAt, GivesUp, Goes, Holds, p
  <2>2. PICK step \in {"mark", "ask"} : at' = [at EXCEPT ![p] = step]
    BY <2>1
  <2>3. TypeOK'
    BY <1>0, <2>0, <2>1, <2>2 DEF TypeOK, QueryTypeOK, Steps, EngineStates, TerminalStates, records, engine, shutdownVars
  <2>4. QueryThread(p)'
    BY <1>0, <2>1 DEF QueryThread, TerminalStates
  <2> QED  BY <1>0, <2>0, <2>1, <2>2, <2>3, <2>4, ThreadGoes DEF records
<1>5. CASE TakeResult(x)
  <2>1. /\ at[p] = "take" /\ at' = [at EXCEPT ![p] = "mark"]
        /\ result' \subseteq Executions
        /\ UNCHANGED <<state, tab, written, latest, snap, failures, history, engine>>
    BY <1>5 DEF TakeResult, WithMetadata, Goes, TypeOK, QueryTypeOK, p
  <2>2. TypeOK'
    BY <1>0, <2>1 DEF TypeOK, QueryTypeOK, Steps, engine, shutdownVars
  <2>3. QueryThread(p)'
    BY <1>0, <2>1 DEF QueryThread
  <2> QED  BY <1>0, <2>1, <2>2, <2>3, ThreadGoes
<1> QED  BY <1>1, <1>2, <1>3, <1>4, <1>5

\* The submitter is done and the poller starts, with no failure counted yet.
LEMMA AcceptedKeeps ==
    ASSUME QueryInv, NEW x \in Executions, Accepted(x), UNCHANGED shutdownVars
    PROVE  QueryInv'
<1> USE DEF QueryInv
<1>1. /\ at[<<"submit", x>>] = "submit" /\ tab[x] # None
      /\ failures[x] = 0 /\ at[<<"poll", x>>] = "idle"
      /\ at' = [at EXCEPT ![<<"submit", x>>] = "idle", ![<<"poll", x>>] = "ask"]
      /\ eng' = [eng EXCEPT ![x] = "queued"] /\ up' = TRUE
      /\ UNCHANGED <<records, snap, failures, history, crashes>>
  BY DEF Accepted, QueryRecord
<1>2. TypeOK'
  BY <1>1, ThreadsOf DEF TypeOK, QueryTypeOK, Steps, EngineStates, ActiveStates, records, shutdownVars
<1>3. \A y \in Executions : QueryRecord(y)'
  BY <1>1, ThreadsOf DEF QueryRecord, Present, Active, TypeOK, QueryTypeOK, records
<1>4. \A th \in Threads : QueryThread(th)'
  <2> SUFFICES ASSUME NEW th \in Threads PROVE QueryThread(th)'
    OBVIOUS
  <2>1. at \in [Threads -> Steps]
    BY DEF TypeOK, QueryTypeOK
  <2>2. CASE th = <<"submit", x>>
    BY <1>1, <2>1, <2>2 DEF QueryThread
  <2>3. CASE th = <<"poll", x>>
    <3>1. at'[th] = "ask" /\ th[1] = "poll" /\ th[2] = x
      BY <1>1, <2>1, <2>3
    <3> QED  BY <1>1, <3>1, QueryBounds DEF QueryThread
  <2>4. CASE th \notin {<<"submit", x>>, <<"poll", x>>}
    <3>1. at'[th] = at[th]
      BY <1>1, <2>1, <2>4
    <3> QED  BY <1>1, <3>1 DEF QueryThread, Present, records
  <2> QED  BY <2>2, <2>3, <2>4
<1>5. OnePersists'
  BY <1>1, ThreadsOf DEF OnePersists, TypeOK, QueryTypeOK
<1> QED  BY <1>2, <1>3, <1>4, <1>5

\* A status that is not terminal never replaces an outcome.
LEMMA ApplyKeeps ==
    ASSUME QueryInv, NEW x \in Executions, Apply(x), UNCHANGED shutdownVars
    PROVE  QueryInv'
<1> USE DEF QueryInv
<1> DEFINE p == <<"poll", x>>
<1>0. /\ p \in Threads /\ p[2] = x /\ p[1] = "poll"
      /\ at \in [Threads -> Steps] /\ state \in [Executions -> {"absent"} \cup ActiveStates \cup TerminalStates]
  BY ThreadsOf DEF TypeOK, QueryTypeOK
<1>1. /\ at[p] = "apply" /\ snap[p] \in ActiveStates /\ failures[x] = 0
      /\ state' = [state EXCEPT ![x] = IF Present(x) /\ x \notin written THEN snap[p] ELSE @]
      /\ at' = [at EXCEPT ![p] = "ask"]
      /\ UNCHANGED <<tab, result, written, latest, snap, failures, history, engine>>
  BY <1>0 DEF Apply, Goes, QueryThread
<1> HIDE DEF p
<1>2. TypeOK'
  BY <1>0, <1>1 DEF TypeOK, QueryTypeOK, Steps, engine, shutdownVars
<1>3. \A y \in Executions : QueryRecord(y)'
  <2> SUFFICES ASSUME NEW y \in Executions PROVE QueryRecord(y)'
    OBVIOUS
  <2>1. /\ Present(y)' <=> Present(y)
        /\ Present(y) => (Active(y)' <=> Active(y))
        /\ y \in written => state'[y] = state[y]
    BY <1>0, <1>1 DEF QueryRecord, Present, Active, ActiveStates
  <2>2. at'[<<"submit", y>>] = at[<<"submit", y>>]
        /\ (at[<<"poll", y>>] = "idle" => at'[<<"poll", y>>] = "idle")
    BY <1>0, <1>1, ThreadsOf DEF p
  <2> QED  BY <1>1, <2>1, <2>2 DEF QueryRecord
<1>4. \A th \in Threads : QueryThread(th)'
  <2>1. \A th \in Threads : th[2] \in written => state'[th[2]] = state[th[2]]
    BY <1>0, <1>1, ThreadsOf
  <2> QED  BY <1>0, <1>1, <2>1, QueryBounds DEF QueryThread, Present
<1>5. OnePersists'
  BY <1>0, <1>1 DEF OnePersists
<1> QED  BY <1>2, <1>3, <1>4, <1>5

\* mark_terminal: the first takes the history row, the others find it taken.
LEMMA MarkKeeps ==
    ASSUME QueryInv, NEW th \in Threads, MarkTerminal(th), UNCHANGED shutdownVars
    PROVE  QueryInv'
<1> USE DEF QueryInv
<1> DEFINE x == th[2]
<1>0. /\ x \in Executions /\ at \in [Threads -> Steps]
      /\ state \in [Executions -> {"absent"} \cup ActiveStates \cup TerminalStates]
      /\ at[th] = "mark" /\ snap[th] \in TerminalStates
  BY ThreadsOf DEF TypeOK, QueryTypeOK, MarkTerminal, QueryThread
<1>1. CASE ~OwnsHistory(x)
  <2>1. /\ at' = [at EXCEPT ![th] = "idle"]
        /\ UNCHANGED <<records, snap, failures, history, engine>>
    BY <1>1 DEF MarkTerminal, Goes, records
  <2>2. TypeOK'
    BY <1>0, <2>1 DEF TypeOK, QueryTypeOK, Steps, records, engine, shutdownVars
  <2>3. QueryThread(th)'
    BY <1>0, <2>1 DEF QueryThread
  <2> QED  BY <1>0, <2>1, <2>2, <2>3, ThreadGoes DEF records
<1>2. CASE OwnsHistory(x)
  <2>1. /\ Present(x) /\ x \notin written /\ history[x] = <<>>
        /\ state' = [state EXCEPT ![x] = snap[th]] /\ written' = written \cup {x}
        /\ at' = [at EXCEPT ![th] = "persist"]
        /\ UNCHANGED <<tab, result, latest, snap, failures, history, engine>>
    BY <1>0, <1>2 DEF MarkTerminal, OwnsHistory, Decided, Goes, QueryRecord
  <2> HIDE DEF x
  <2>2. TypeOK'
    BY <1>0, <2>1 DEF TypeOK, QueryTypeOK, Steps, engine, shutdownVars
  <2>3. \A y \in Executions : QueryRecord(y)'
    <3> SUFFICES ASSUME NEW y \in Executions PROVE QueryRecord(y)'
      OBVIOUS
    <3>1. \A o \in Threads : at[o] \in {"idle", "track", "submit"} => at'[o] = at[o]
      BY <1>0, <2>1
    <3>2. at'[<<"submit", y>>] \in {"track", "submit"} => at[<<"submit", y>>] \in {"track", "submit"}
      BY <1>0, <2>1, ThreadsOf
    <3>3. CASE y = x
      BY <1>0, <2>1, <3>1, <3>2, <3>3, ThreadsOf DEF QueryRecord, Present, Active, TerminalStates, ActiveStates
    <3>4. CASE y # x
      BY <1>0, <2>1, <3>1, <3>2, <3>4, ThreadsOf DEF QueryRecord, Present, Active
    <3> QED  BY <3>3, <3>4
  <2>4. \A o \in Threads : QueryThread(o)'
    <3> SUFFICES ASSUME NEW o \in Threads PROVE QueryThread(o)'
      OBVIOUS
    <3>1. CASE o = th
      BY <1>0, <2>1, <3>1 DEF QueryThread, x
    <3>2. CASE o # th
      <4>1. at'[o] = at[o] /\ (at[o] = "persist" => o[2] # x)
        BY <1>0, <2>1, <3>2 DEF QueryThread
      <4>2. o[2] # x => state'[o[2]] = state[o[2]]
        BY <1>0, <2>1, ThreadsOf
      <4> QED  BY <2>1, <4>1, <4>2 DEF QueryThread, Present
    <3> QED  BY <3>1, <3>2
  <2>5. OnePersists'
    BY <1>0, <2>1 DEF OnePersists, QueryThread, x
  <2> QED  BY <2>2, <2>3, <2>4, <2>5
<1> QED  BY <1>1, <1>2

\* The row is written once, with what the record shows.
LEMMA PersistKeeps ==
    ASSUME QueryInv, NEW th \in Threads, Persist(th), UNCHANGED shutdownVars
    PROVE  QueryInv'
<1> USE DEF QueryInv
<1> DEFINE x == th[2]
<1>0. /\ x \in Executions /\ at \in [Threads -> Steps] /\ history \in [Executions -> Seq(TerminalStates)]
      /\ at[th] = "persist" /\ snap[th] \in TerminalStates
      /\ x \in written /\ history[x] = <<>> /\ (Present(x) => state[x] = snap[th])
  BY ThreadsOf DEF TypeOK, QueryTypeOK, Persist, QueryThread
<1>1. /\ history' = [history EXCEPT ![x] = <<snap[th]>>]
      /\ at' = [at EXCEPT ![th] = "idle"]
      /\ UNCHANGED <<records, snap, failures, engine>>
  BY <1>0 DEF Persist, Goes
<1> HIDE DEF x
<1>2. TypeOK'
  <2>1. <<snap[th]>> \in Seq(TerminalStates)
    BY <1>0
  <2> QED  BY <1>0, <1>1, <2>1 DEF TypeOK, QueryTypeOK, Steps, records, engine, shutdownVars
<1>3. \A y \in Executions : QueryRecord(y)'
  <2> SUFFICES ASSUME NEW y \in Executions PROVE QueryRecord(y)'
    OBVIOUS
  <2>1. /\ at[<<"submit", y>>] = "idle" => at'[<<"submit", y>>] = "idle"
        /\ at[<<"poll", y>>] = "idle" => at'[<<"poll", y>>] = "idle"
        /\ at'[<<"submit", y>>] \in {"track", "submit"} => at[<<"submit", y>>] \in {"track", "submit"}
    BY <1>0, <1>1, ThreadsOf
  <2>2. history'[y] = IF y = x THEN <<snap[th]>> ELSE history[y]
    BY <1>0, <1>1
  <2> QED  BY <1>0, <1>1, <2>1, <2>2 DEF QueryRecord, Present, Active, records
<1>4. \A o \in Threads : QueryThread(o)'
  <2> SUFFICES ASSUME NEW o \in Threads PROVE QueryThread(o)'
    OBVIOUS
  <2>1. CASE o = th
    BY <1>0, <1>1, <2>1 DEF QueryThread
  <2>2. CASE o # th
    <3>1. at'[o] = at[o] /\ (at[o] = "persist" => o[2] # x)
      BY <1>0, <1>1, <2>2 DEF OnePersists, x
    <3> QED  BY <1>0, <1>1, <3>1 DEF QueryThread, Present, records
  <2> QED  BY <2>1, <2>2
<1>5. OnePersists'
  BY <1>0, <1>1 DEF OnePersists
<1> QED  BY <1>2, <1>3, <1>4, <1>5

\* Closing a tab takes its records away, whatever their threads are doing.
LEMMA ForgetKeeps ==
    ASSUME QueryInv, NEW t \in Tabs, Forget(t), UNCHANGED shutdownVars
    PROVE  QueryInv'
<1> USE DEF QueryInv
<1>1. /\ \A x \in Executions : state'[x] \in {"absent", state[x]}
      /\ state' = [x \in Executions |-> IF x \in Forgotten(t) THEN "absent" ELSE state[x]]
      /\ latest' = [latest EXCEPT ![t] = None]
      /\ UNCHANGED <<tab, result, written, threads, history, engine>>
  BY DEF Forget
<1>2. TypeOK'
  BY <1>1 DEF TypeOK, QueryTypeOK, threads, engine, shutdownVars
<1>3. \A y \in Executions : QueryRecord(y)'
  BY <1>1 DEF QueryRecord, Present, Active, ActiveStates, threads
<1>4. \A th \in Threads : QueryThread(th)'
  BY <1>1, ThreadsOf DEF QueryThread, Present, threads
<1>5. OnePersists'
  BY <1>1 DEF OnePersists, threads
<1> QED  BY <1>2, <1>3, <1>4, <1>5

\* The engine and the shutdown change neither records nor threads.
LEMMA EngineAndShutdownKeep ==
    ASSUME QueryInv,
           \/ UNCHANGED shutdownVars /\ (EngineDies \/ \E x \in Executions : EngineAdvances(x) \/ Cancel(x))
           \/ ShutdownStep
           \/ UNCHANGED vars
    PROVE  QueryInv'
<1> USE DEF QueryInv
<1>1. UNCHANGED <<records, threads, history>>
  BY DEF EngineDies, EngineAdvances, Cancel, ShutdownStep, FrontendReady, Begin, CancelNext, Cancelled,
     EndWait, ReleaseAndClose, StopEngine, Checkpoint, vars, queryVars
<1>2. TypeOK'
  <2>1. \A x \in Executions : CancelledStatus(x) \in EngineStates
    BY DEF CancelledStatus, TypeOK, QueryTypeOK, EngineStates, TerminalStates
  <2>2. CASE UNCHANGED shutdownVars /\ EngineDies
    <3>1. crashes' \in 0..MaxCrashes
      BY <2>2, QueryBounds DEF EngineDies, TypeOK, QueryTypeOK
    <3>2. up' \in BOOLEAN /\ eng' \in [Executions -> EngineStates]
      BY <2>2 DEF EngineDies, NoEngine, EngineStates
    <3> QED  BY <1>1, <2>2, <3>1, <3>2 DEF TypeOK, QueryTypeOK, records, threads, shutdownVars
  <2>3. ASSUME NEW x \in Executions, UNCHANGED shutdownVars, EngineAdvances(x) \/ Cancel(x)
        PROVE  TypeOK'
    BY <1>1, <2>1, <2>3 DEF EngineAdvances, Cancel, TypeOK, QueryTypeOK, EngineStates, ActiveStates, records, threads, shutdownVars
  <2>4. CASE \/ FrontendReady \/ Begin \/ Cancelled \/ EndWait \/ Checkpoint
             \/ UNCHANGED vars
    BY <2>4 DEF FrontendReady, Begin, Cancelled, EndWait, Warns, Checkpoint, TypeOK, QueryTypeOK, queryVars,
       records, threads, engine, vars, shutdownVars
  <2>5. ASSUME NEW x \in Executions, CancelNext(x) PROVE TypeOK'
    BY <2>1, <2>5 DEF CancelNext, TypeOK, QueryTypeOK, records, threads
  <2>6. CASE ReleaseAndClose \/ StopEngine
    BY <2>1, <2>6 DEF ReleaseAndClose, StopEngine, NoEngine, TypeOK, QueryTypeOK, EngineStates, records, threads
  <2> QED  BY <2>2, <2>3, <2>4, <2>5, <2>6 DEF ShutdownStep
<1> QED  BY <1>1, <1>2, QueryFrame

LEMMA QueryStepKeeps == QueryInv /\ [Next]_vars => QueryInv'
<1> SUFFICES ASSUME QueryInv, [Next]_vars PROVE QueryInv'
  OBVIOUS
<1>1. CASE ShutdownStep \/ UNCHANGED vars
  BY <1>1, EngineAndShutdownKeep
<1>2. CASE QueryNext /\ UNCHANGED shutdownVars
  BY <1>2, ExecuteKeeps, StatusSteps, AcceptedKeeps, ApplyKeeps, MarkKeeps, PersistKeeps, ForgetKeeps,
     EngineAndShutdownKeep DEF QueryNext, ExecutionStep
<1> QED  BY <1>1, <1>2 DEF Next

--------------------------------------------------------------------------------
(* The export coordinator.                                                 *)

\* A record, and a history row, is of a submitted export; what is in the history is
\* what the record shows.
ExportRecord(e) ==
    /\ Export!Present(e) \/ e \in written => e \in used
    /\ history[e] # <<>> =>
          e \in written /\ Len(history[e]) = 1 /\ (Export!Present(e) => state[e] = history[e][1])

\* What a thread that marks an outcome holds: until it has written the row, the
\* record shows no other.
ExportThread(th) ==
    /\ at[th] = "mark" \/ at[th] = "persist" => snap[th] \in Export!TerminalStates
    /\ at[th] = "persist" =>
          /\ th[2] \in written /\ history[th[2]] = <<>>
          /\ Export!Present(th[2]) => state[th[2]] = snap[th]

\* One thread at most is about to write an export's row.
OneExportPersists == \A th, other \in Export!Threads :
    at[th] = "persist" /\ at[other] = "persist" /\ th[2] = other[2] => th = other

\* The types of the records and the threads; those of the order of finished exports
\* do not matter here.
ExportTypes ==
    /\ state \in [Exports -> {"absent"} \cup Export!EngineStates]
    /\ written \subseteq Exports
    /\ at \in [Export!Threads -> Export!Steps]
    /\ snap \in [Export!Threads -> Export!EngineStates]
    /\ history \in [Exports -> Seq(Export!TerminalStates)]
    /\ eng \in [Exports -> Export!EngineStates]

ExportInv ==
    /\ ExportTypes
    /\ \A e \in Exports : ExportRecord(e)
    /\ \A th \in Export!Threads : ExportThread(th)
    /\ OneExportPersists

LEMMA ExportThreadsOf ==
    /\ \A e \in Exports : \A r \in Export!Roles : <<r, e>> \in Export!Threads
    /\ \A th \in Export!Threads : th[2] \in Exports
BY DEF Export!Threads

LEMMA ExportInitInv == Export!Init => ExportInv
<1> SUFFICES ASSUME Export!Init PROVE ExportInv
  OBVIOUS
<1>1. ExportTypes
  <2>1. history \in [Exports -> Seq(Export!TerminalStates)]
    BY DEF Export!Init
  <2> QED  BY <2>1 DEF Export!Init, ExportTypes, Export!Steps, Export!EngineStates, Export!NoStatus
<1>2. \A e \in Exports : ExportRecord(e)
  BY DEF Export!Init, ExportRecord, Export!Present
<1>3. (\A th \in Export!Threads : ExportThread(th)) /\ OneExportPersists
  BY DEF Export!Init, ExportThread, OneExportPersists
<1> QED  BY <1>1, <1>2, <1>3 DEF ExportInv

\* A step that touches neither the outcome nor the history of any export, and moves
\* thread th anywhere but to the writing of a row.
LEMMA ExportThreadGoes ==
    ASSUME ExportInv, ExportTypes', NEW th \in Export!Threads, at[th] # "persist",
           \A o \in Export!Threads \ {th} : at'[o] = at[o] /\ snap'[o] = snap[o],
           at'[th] # "persist", at'[th] = "mark" => snap'[th] \in Export!TerminalStates,
           \A e \in Exports : e \in written => state'[e] = state[e],
           \A e \in Exports : Export!Present(e)' => Export!Present(e) \/ e \in used',
           used \subseteq used', UNCHANGED <<written, history>>
    PROVE  ExportInv'
<1> USE DEF ExportInv
<1>1. \A e \in Exports : ExportRecord(e)'
  BY DEF ExportRecord, Export!Present
<1>2. \A o \in Export!Threads : ExportThread(o)'
  <2> SUFFICES ASSUME NEW o \in Export!Threads PROVE ExportThread(o)'
    OBVIOUS
  <2>1. CASE o = th
    BY <2>1 DEF ExportThread
  <2>2. CASE o # th
    BY <2>2, ExportThreadsOf DEF ExportThread, Export!Present
  <2> QED  BY <2>1, <2>2
<1>3. OneExportPersists'
  BY DEF OneExportPersists
<1> QED  BY <1>1, <1>2, <1>3

\* Commands and polls move one thread and decide nothing.
LEMMA ExportStatusSteps ==
    ASSUME ExportInv, NEW e \in Exports,
           Export!NotPolled(e) \/ Export!Cancel(e) \/ Export!Ask(e) \/ Export!AskFails(e)
    PROVE  ExportInv'
<1> USE DEF ExportInv
<1>1. \A r \in Export!Roles : <<r, e>> \in Export!Threads
  BY ExportThreadsOf
<1>2. PICK r \in Export!Roles : \E step \in {"mark", "apply", "ask"} :
          /\ at[<<r, e>>] \in {"submit", "idle", "ask"}
          /\ at' = [at EXCEPT ![<<r, e>>] = step]
          /\ \E s \in Export!EngineStates :
                /\ snap' = [snap EXCEPT ![<<r, e>>] = s]
                /\ step = "mark" => s \in Export!TerminalStates
          /\ eng' \in [Exports -> Export!EngineStates]
          /\ UNCHANGED <<state, written, used, history>>
  <2> USE DEF ExportTypes
  <2>1. Export!CancelledStatus(e) \in Export!EngineStates
    BY DEF Export!CancelledStatus, Export!EngineStates, Export!TerminalStates
  <2>2. CASE Export!NotPolled(e)
    <3>1. at' = [at EXCEPT ![<<"submit", e>>] = "mark"] /\ snap' = [snap EXCEPT ![<<"submit", e>>] = "failed"]
          /\ at[<<"submit", e>>] = "submit"
          /\ eng' \in {eng, [eng EXCEPT ![e] = "queued"]} /\ UNCHANGED <<state, written, used, history>>
      BY <2>2 DEF Export!NotPolled, Export!records
    <3> QED  BY <3>1 DEF Export!Roles, Export!EngineStates, Export!ActiveStates, Export!TerminalStates
  <2>3. CASE Export!Cancel(e)
    <3>1. at' = [at EXCEPT ![<<"cancel", e>>] = "apply"]
          /\ snap' = [snap EXCEPT ![<<"cancel", e>>] = Export!CancelledStatus(e)]
          /\ at[<<"cancel", e>>] = "idle"
          /\ eng' = [eng EXCEPT ![e] = Export!CancelledStatus(e)] /\ UNCHANGED <<state, written, used, history>>
      BY <2>3 DEF Export!Cancel, Export!records
    <3> QED  BY <2>1, <3>1 DEF Export!Roles
  <2>4. CASE Export!Ask(e)
    <3> DEFINE step == IF eng[e] = "unknown" THEN "mark" ELSE "apply"
               s == IF eng[e] = "unknown" THEN "failed" ELSE eng[e]
    <3>1. at' = [at EXCEPT ![<<"poll", e>>] = step] /\ snap' = [snap EXCEPT ![<<"poll", e>>] = s]
          /\ at[<<"poll", e>>] = "ask"
          /\ UNCHANGED <<state, written, used, history, eng>>
      BY <2>4 DEF Export!Ask, Export!records, Export!engine
    <3>2. /\ s \in Export!EngineStates /\ step \in {"mark", "apply"}
          /\ step = "mark" => s \in Export!TerminalStates
      BY DEF Export!EngineStates, Export!TerminalStates
    <3> HIDE DEF s, step
    <3> QED  BY <3>1, <3>2 DEF Export!Roles
  <2>5. CASE Export!AskFails(e)
    <3>1. at[<<"poll", e>>] = "ask"
          /\ UNCHANGED <<state, written, used, history, eng>>
          /\ \/ at' = [at EXCEPT ![<<"poll", e>>] = "mark"] /\ snap' = [snap EXCEPT ![<<"poll", e>>] = "failed"]
             \/ UNCHANGED <<at, snap>>
      BY <2>5 DEF Export!AskFails, Export!records, Export!engine
    <3>2. CASE UNCHANGED <<at, snap>>
      <4>1. /\ at' = [at EXCEPT ![<<"poll", e>>] = "ask"]
            /\ snap' = [snap EXCEPT ![<<"poll", e>>] = snap[<<"poll", e>>]]
            /\ snap[<<"poll", e>>] \in Export!EngineStates
        BY <1>1, <3>1, <3>2 DEF Export!Roles
      <4> QED  BY <3>1, <4>1 DEF Export!Roles
    <3>3. CASE at' = [at EXCEPT ![<<"poll", e>>] = "mark"] /\ snap' = [snap EXCEPT ![<<"poll", e>>] = "failed"]
      BY <3>1, <3>3 DEF Export!Roles, Export!EngineStates, Export!TerminalStates
    <3> QED  BY <3>1, <3>2, <3>3
  <2> QED  BY <2>2, <2>3, <2>4, <2>5
<1>3. ExportTypes'
  BY <1>1, <1>2 DEF ExportTypes, Export!Steps
<1>4. /\ \A o \in Export!Threads \ {<<r, e>>} : at'[o] = at[o] /\ snap'[o] = snap[o]
      /\ at[<<r, e>>] # "persist" /\ at'[<<r, e>>] # "persist"
      /\ at'[<<r, e>>] = "mark" => snap'[<<r, e>>] \in Export!TerminalStates
  BY <1>1, <1>2 DEF ExportTypes
<1>5. <<r, e>> \in Export!Threads
  BY <1>1
<1> QED  BY <1>2, <1>3, <1>4, <1>5, ExportThreadGoes DEF Export!Present


\* Submitting, releasing and dropping exports.
LEMMA ExportRecordSteps ==
    ASSUME ExportInv, NEW e \in Exports,
           Export!Execute(e) \/ Export!Accepted(e) \/ Export!Release(e) \/ Export!Unlist(e)
    PROVE  ExportInv'
<1> USE DEF ExportInv
<1>0. \A r \in Export!Roles : <<r, e>> \in Export!Threads
  BY ExportThreadsOf
<1>1. CASE Export!Execute(e)
  <2> DEFINE th == <<"submit", e>>
  <2>1. /\ e \notin used /\ used' = used \cup {e} /\ state' = [state EXCEPT ![e] = "queued"]
        /\ at' = [at EXCEPT ![th] = "submit"]
        /\ UNCHANGED <<written, snap, history, eng>>
    BY <1>1 DEF Export!Execute, Export!engine
  <2>2. th \in Export!Threads /\ th[2] = e
    BY <1>0 DEF Export!Roles
  <2> HIDE DEF th
  <2>3. e \notin written
    BY <2>1 DEF ExportRecord
  <2>4. ExportTypes'
    BY <2>1 DEF ExportTypes, Export!Steps, Export!EngineStates, Export!ActiveStates
  <2>5. \A f \in Exports : ExportRecord(f)'
    BY <2>1, <2>3 DEF ExportRecord, ExportTypes, Export!Present
  <2>6. \A o \in Export!Threads : ExportThread(o)'
    BY <2>1, <2>2, <2>3, ExportThreadsOf DEF ExportThread, ExportTypes, Export!Present
  <2>7. OneExportPersists'
    BY <2>1 DEF OneExportPersists, ExportTypes
  <2> QED  BY <2>4, <2>5, <2>6, <2>7
<1>2. CASE Export!Accepted(e)
  <2> DEFINE s == <<"submit", e>>
             p == <<"poll", e>>
  <2>1. /\ at' = [at EXCEPT ![s] = "idle", ![p] = "ask"]
        /\ eng' = [eng EXCEPT ![e] = "queued"]
        /\ UNCHANGED <<state, written, used, snap, history>>
    BY <1>2 DEF Export!Accepted, Export!records
  <2>2. s \in Export!Threads /\ p \in Export!Threads
    BY <1>0 DEF Export!Roles
  <2> HIDE DEF s, p
  <2>3. at' \in [Export!Threads -> Export!Steps] /\ \A o \in Export!Threads : at'[o] \in {"idle", "ask", at[o]}
    BY <2>1, <2>2 DEF ExportTypes, Export!Steps
  <2>4. ExportTypes'
    BY <2>1, <2>3 DEF ExportTypes, Export!EngineStates, Export!ActiveStates
  <2>5. \A f \in Exports : ExportRecord(f)'
    BY <2>1 DEF ExportRecord, Export!Present
  <2>6. \A o \in Export!Threads : ExportThread(o)'
    BY <2>1, <2>3 DEF ExportThread, Export!Present
  <2>7. OneExportPersists'
    BY <2>3 DEF OneExportPersists
  <2> QED  BY <2>4, <2>5, <2>6, <2>7
<1>3. CASE Export!Release(e)
  <2>1. /\ state' = [state EXCEPT ![e] = "absent"]
        /\ UNCHANGED <<written, used, at, snap, history, eng>>
    BY <1>3 DEF Export!Release, Export!threads, Export!engine
  <2>2. ExportTypes'
    BY <2>1 DEF ExportTypes
  <2>3. \A f \in Exports : ExportRecord(f)'
    BY <2>1 DEF ExportRecord, ExportTypes, Export!Present
  <2>4. \A o \in Export!Threads : ExportThread(o)'
    BY <2>1, ExportThreadsOf DEF ExportThread, ExportTypes, Export!Present
  <2>5. OneExportPersists'
    BY <2>1 DEF OneExportPersists
  <2> QED  BY <2>2, <2>3, <2>4, <2>5
<1>4. CASE Export!Unlist(e)
  <2>1. UNCHANGED <<state, written, used, at, snap, history, eng>>
    BY <1>4 DEF Export!Unlist, Export!records, Export!threads, Export!engine
  <2> QED  BY <2>1 DEF ExportTypes, ExportRecord, ExportThread, OneExportPersists, Export!Present
<1> QED  BY <1>1, <1>2, <1>3, <1>4

\* What a thread does with a status it holds.
LEMMA ExportThreadSteps ==
    ASSUME ExportInv, NEW th \in Export!Threads, Export!ThreadStep(th)
    PROVE  ExportInv'
<1> USE DEF ExportInv
<1> DEFINE e == th[2]
<1>0. /\ e \in Exports
      /\ Export!NoStatus \in Export!EngineStates /\ Export!TerminalStates \subseteq Export!EngineStates
  BY ExportThreadsOf DEF Export!NoStatus, Export!EngineStates
<1>1. CASE Export!Apply(th)
  <2> DEFINE Left == IF Export!Terminal(snap[th]) THEN "mark" ELSE Export!Continues(th)
             Held == IF Export!Terminal(snap[th]) THEN snap[th] ELSE Export!NoStatus
  <2>1. /\ at[th] = "apply" /\ at' = [at EXCEPT ![th] = Left] /\ snap' = [snap EXCEPT ![th] = Held]
        /\ state' = [state EXCEPT ![e] = IF Export!Applies(e) THEN snap[th] ELSE @]
        /\ UNCHANGED <<written, used, history, eng>>
    BY <1>1 DEF Export!Apply, Export!DoneWith, Export!engine, ExportTypes
  <2>2. /\ Left \in {"mark", "ask", "idle"} /\ Held \in Export!EngineStates
        /\ Left = "mark" => Held \in Export!TerminalStates
    BY <1>0 DEF Export!Terminal, Export!Continues
  <2> HIDE DEF Left, Held, e
  <2>3. ExportTypes'
    BY <1>0, <2>1, <2>2 DEF ExportTypes, Export!Steps
  <2>4. \A f \in Exports : f \in written => state'[f] = state[f]
    BY <2>1 DEF ExportTypes, Export!Applies
  <2>5. \A f \in Exports : Export!Present(f)' => Export!Present(f)
    BY <2>1 DEF ExportTypes, Export!Applies, Export!Present
  <2>6. /\ \A o \in Export!Threads \ {th} : at'[o] = at[o] /\ snap'[o] = snap[o]
        /\ at[th] # "persist" /\ at'[th] # "persist" /\ (at'[th] = "mark" => snap'[th] \in Export!TerminalStates)
    BY <2>1, <2>2 DEF ExportTypes
  <2> QED  BY <2>1, <2>3, <2>4, <2>5, <2>6, ExportThreadGoes
<1>2. CASE Export!MarkTerminal(th) /\ ~Export!OwnsHistory(e)
  <2>1. /\ at[th] = "mark" /\ at' = [at EXCEPT ![th] = "idle"] /\ snap' = [snap EXCEPT ![th] = Export!NoStatus]
        /\ UNCHANGED <<state, written, used, history, eng>>
    BY <1>2 DEF Export!MarkTerminal, Export!DoneWith, Export!engine
  <2>2. ExportTypes'
    BY <1>0, <2>1 DEF ExportTypes, Export!Steps
  <2>3. /\ \A o \in Export!Threads \ {th} : at'[o] = at[o] /\ snap'[o] = snap[o]
        /\ at[th] # "persist" /\ at'[th] = "idle"
    BY <2>1 DEF ExportTypes
  <2> QED  BY <2>1, <2>2, <2>3, ExportThreadGoes DEF Export!Present
<1>3. CASE Export!MarkTerminal(th) /\ Export!OwnsHistory(e)
  <2>1. /\ at[th] = "mark" /\ Export!Present(e) /\ e \notin written
        /\ state' = [state EXCEPT ![e] = snap[th]] /\ written' = written \cup {e}
        /\ at' = [at EXCEPT ![th] = "persist"]
        /\ UNCHANGED <<used, snap, history, eng>>
    BY <1>3 DEF Export!MarkTerminal, Export!OwnsHistory, Export!engine
  <2>2. /\ snap[th] \in Export!TerminalStates /\ history[e] = <<>> /\ e \in used
    BY <1>0, <2>1 DEF ExportThread, ExportRecord
  <2>3. ExportTypes'
    BY <1>0, <2>1, <2>2 DEF ExportTypes, Export!Steps
  <2>4. \A f \in Exports : ExportRecord(f)'
    BY <1>0, <2>1, <2>2 DEF ExportRecord, ExportTypes, Export!Present
  <2>5. ExportThread(th)'
    BY <1>0, <2>1, <2>2 DEF ExportThread, ExportTypes
  <2>6. \A o \in Export!Threads \ {th} : ExportThread(o)'
    <3> SUFFICES ASSUME NEW o \in Export!Threads \ {th} PROVE ExportThread(o)'
      OBVIOUS
    <3>1. at'[o] = at[o] /\ (at[o] = "persist" => o[2] # e)
      BY <2>1 DEF ExportTypes, ExportThread
    <3>2. o[2] # e => state'[o[2]] = state[o[2]]
      BY <2>1, ExportThreadsOf DEF ExportTypes
    <3> QED  BY <2>1, <3>1, <3>2 DEF ExportThread, Export!Present
  <2>7. OneExportPersists'
    BY <2>1 DEF OneExportPersists, ExportThread, ExportTypes
  <2> QED  BY <2>3, <2>4, <2>5, <2>6, <2>7
<1>4. CASE Export!Persist(th)
  <2>1. /\ at[th] = "persist" /\ e \in written /\ history[e] = <<>>
        /\ snap[th] \in Export!TerminalStates /\ (Export!Present(e) => state[e] = snap[th])
    BY <1>4 DEF Export!Persist, ExportThread
  <2>2. /\ history' = [history EXCEPT ![e] = <<snap[th]>>]
        /\ at' = [at EXCEPT ![th] = "push"] /\ snap' = [snap EXCEPT ![th] = Export!NoStatus]
        /\ UNCHANGED <<state, written, used, eng>>
    BY <1>0, <1>4, <2>1 DEF Export!Persist, Export!DoneWith, Export!records, Export!engine, ExportTypes
  <2>3. ExportTypes'
    <3>1. <<snap[th]>> \in Seq(Export!TerminalStates)
      BY <2>1
    <3> QED  BY <1>0, <2>2, <3>1 DEF ExportTypes, Export!Steps
  <2>4. \A f \in Exports : ExportRecord(f)'
    BY <1>0, <2>1, <2>2 DEF ExportRecord, ExportTypes, Export!Present
  <2>5. \A o \in Export!Threads : ExportThread(o)'
    <3> SUFFICES ASSUME NEW o \in Export!Threads PROVE ExportThread(o)'
      OBVIOUS
    <3>1. CASE o = th
      BY <2>2, <3>1 DEF ExportThread, ExportTypes
    <3>2. CASE o # th
      <4>1. at'[o] = at[o] /\ snap'[o] = snap[o] /\ (at[o] = "persist" => o[2] # e)
        BY <2>1, <2>2, <3>2 DEF OneExportPersists, ExportTypes
      <4> QED  BY <2>2, <4>1, ExportThreadsOf DEF ExportThread, ExportTypes, Export!Present
    <3> QED  BY <3>1, <3>2
  <2>6. OneExportPersists'
    BY <2>2 DEF OneExportPersists, ExportTypes
  <2> QED  BY <2>3, <2>4, <2>5, <2>6
<1>5. CASE Export!Push(th) \/ Export!Evict(th)
  <2>1. /\ at[th] \in {"push", "evict"} /\ (at' = [at EXCEPT ![th] = "idle"] \/ at' = [at EXCEPT ![th] = "evict"])
        /\ UNCHANGED <<written, used, snap, history, eng>>
        /\ state' = state \/ state' = [f \in Exports |-> IF f \in evicting[th] THEN "absent" ELSE state[f]]
    BY <1>5 DEF Export!Push, Export!Evict, Export!WithoutEvicted, Export!records, Export!engine
  <2>2. /\ ExportTypes'
        /\ \A f \in Exports : state'[f] \in {state[f], "absent"}
        /\ \A o \in Export!Threads : at'[o] = at[o] \/ at'[o] \in {"idle", "evict"}
    BY <2>1 DEF ExportTypes, Export!Steps
  <2>3. \A f \in Exports : ExportRecord(f)'
    BY <2>1, <2>2 DEF ExportRecord, Export!Present
  <2>4. \A o \in Export!Threads : ExportThread(o)'
    BY <2>1, <2>2, ExportThreadsOf DEF ExportThread, Export!Present
  <2>5. OneExportPersists'
    BY <2>2 DEF OneExportPersists
  <2> QED  BY <2>2, <2>3, <2>4, <2>5
<1> QED  BY <1>1, <1>2, <1>3, <1>4, <1>5 DEF Export!ThreadStep

LEMMA ExportStepKeeps == ExportInv /\ [Export!Next]_(Export!vars) => ExportInv'
<1> SUFFICES ASSUME ExportInv, [Export!Next]_(Export!vars) PROVE ExportInv'
  OBVIOUS
<1>1. CASE UNCHANGED Export!vars
  BY <1>1 DEF Export!vars, Export!records, Export!threads, Export!engine, ExportInv, ExportTypes, ExportRecord,
     ExportThread, OneExportPersists, Export!Present
<1>2. ASSUME Export!EngineDies \/ \E e \in Exports : Export!EngineAdvances(e)
      PROVE  ExportInv'
  <2>1. UNCHANGED <<state, written, used, at, snap, history>>
    BY <1>2 DEF Export!EngineDies, Export!EngineAdvances, Export!records, Export!threads
  <2>2. eng' \in [Exports -> Export!EngineStates]
    BY <1>2 DEF ExportInv, ExportTypes, Export!EngineDies, Export!EngineAdvances, Export!EngineStates,
       Export!ActiveStates, Export!TerminalStates
  <2> QED  BY <2>1, <2>2 DEF ExportInv, ExportTypes, ExportRecord, ExportThread, OneExportPersists, Export!Present
<1> QED  BY <1>1, <1>2, ExportStatusSteps, ExportRecordSteps, ExportThreadSteps
         DEF Export!Next, Export!Submission, Export!Poll

--------------------------------------------------------------------------------
(* The theorems.                                                           *)

CoordinatorsInv ==
    \/ focus = "queries" /\ QueryInv
    \/ focus = "exports" /\ ExportInv /\ phase = "none"

LEMMA CoordinatorsInvariant == CoordinatorsSpec => []CoordinatorsInv
<1>1. CoordinatorsInit => CoordinatorsInv
  BY QueryInitInv, ExportInitInv DEF CoordinatorsInit, CoordinatorsInv, NoQueries
<1>2. CoordinatorsInv /\ [CoordinatorsNext]_coordinatorVars => CoordinatorsInv'
  <2> SUFFICES ASSUME CoordinatorsInv, [CoordinatorsNext]_coordinatorVars PROVE CoordinatorsInv'
    OBVIOUS
  <2>1. CASE UNCHANGED coordinatorVars
    <3>1. UNCHANGED focus /\ UNCHANGED vars /\ UNCHANGED Export!vars
      BY <2>1 DEF coordinatorVars, queryOnly, exportOnly, shared, vars, queryVars, records, threads, engine,
         shutdownVars, Export!vars, Export!records, Export!threads, Export!engine
    <3> QED  BY <3>1, QueryStepKeeps, ExportStepKeeps DEF CoordinatorsInv, vars, shutdownVars
  <2>2. CASE focus = "queries" /\ UNCHANGED focus /\ Next
    BY <2>2, QueryStepKeeps DEF CoordinatorsInv
  <2>3. CASE focus = "exports" /\ UNCHANGED focus /\ Export!Next /\ UNCHANGED queryOnly
    BY <2>3, ExportStepKeeps DEF CoordinatorsInv, queryOnly, shutdownVars
  <2> QED  BY <2>1, <2>2, <2>3 DEF CoordinatorsNext
<1> QED  BY <1>1, <1>2, PTL DEF CoordinatorsSpec

\* An execution has at most one history row, whatever its submitter, its poller, a
\* cancellation and the closing of its tab do to it meanwhile, and its view never
\* again shows another outcome (mark_terminal in query/mod.rs).
THEOREM QueryHistory == CoordinatorsSpec => []QueryHistoryIsTheOutcome
<1>1. CoordinatorsInv => QueryHistoryIsTheOutcome
  <2> SUFFICES ASSUME QueryInv, NEW x \in Executions
               PROVE  /\ Len(history[x]) <= 1
                      /\ history[x] # <<>> /\ Present(x) => state[x] = history[x][1]
    BY DEF CoordinatorsInv, QueryHistoryIsTheOutcome, HistoryIsTheOutcome
  <2>1. CASE history[x] = <<>>
    BY <2>1
  <2>2. CASE history[x] # <<>>
    <3>1. Len(history[x]) = 1 /\ (Present(x) => state[x] = history[x][1])
      BY <2>2 DEF QueryInv, QueryRecord
    <3> QED  BY <3>1
  <2> QED  BY <2>1, <2>2
<1> QED  BY <1>1, CoordinatorsInvariant, PTL

\* The same of an export, whose view may turn terminal before anyone has marked it,
\* and whose cancellations apply statuses of their own (apply_status and
\* mark_terminal in export/mod.rs).
THEOREM ExportHistory == CoordinatorsSpec => []ExportHistoryIsTheOutcome
<1>1. CoordinatorsInv => ExportHistoryIsTheOutcome
  <2> SUFFICES ASSUME ExportInv, NEW e \in Exports
               PROVE  /\ Len(history[e]) <= 1
                      /\ history[e] # <<>> /\ Export!Present(e) => state[e] = history[e][1]
    BY DEF CoordinatorsInv, ExportHistoryIsTheOutcome, Export!HistoryIsTheOutcome
  <2>1. CASE history[e] = <<>>
    BY <2>1
  <2>2. CASE history[e] # <<>>
    <3>1. Len(history[e]) = 1 /\ (Export!Present(e) => state[e] = history[e][1])
      BY <2>2 DEF ExportInv, ExportRecord
    <3> QED  BY <3>1
  <2> QED  BY <2>1, <2>2
<1> QED  BY <1>1, CoordinatorsInvariant, PTL

\* A shutdown that ends its wait without a warning leaves no execution undecided
\* (run_shutdown in shutdown.rs, has_active in query/mod.rs).
THEOREM QuietShutdown == CoordinatorsSpec => QuietShutdownDecides
<1>1. CoordinatorsInv /\ [CoordinatorsNext]_coordinatorVars
          => [EndWait /\ ~warned' => \A x \in Executions : Present(x) => x \in written]_vars
  <2> SUFFICES ASSUME CoordinatorsInv, EndWait, ~warned', NEW x \in Executions, Present(x)
               PROVE  x \in written
    OBVIOUS
  <2>1. QueryInv
    BY DEF CoordinatorsInv, EndWait
  <2>2. ~Active(x)
    BY DEF EndWait, Warns
  <2> QED  BY <2>1, <2>2 DEF QueryInv, QueryRecord
<1> QED  BY <1>1, CoordinatorsInvariant, PTL DEF CoordinatorsSpec, QuietShutdownDecides

================================================================================

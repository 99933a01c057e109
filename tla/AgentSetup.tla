------------------------------- MODULE AgentSetup -------------------------------
(***************************************************************************)
(* Setup of agent hosts, agent_setup.rs and agent_guidance.rs: a change is *)
(* reviewed (plan) and applied once, step by step, while the host and the  *)
(* user may change the same file or list.  Three hosts stand for all:      *)
(* `desktop`, a JSON file Tarik edits; `cli`, a list that the host's own   *)
(* command edits; `skill`, the guidance file.  What a host holds is the    *)
(* entry named tarik and the rest of its settings.  The commands run on    *)
(* one thread, so at most one change is being applied: `doing`.            *)
(***************************************************************************)
EXTENDS Naturals, Sequences, FiniteSets, SequencesExt

CONSTANTS
    SetupHosts,     \* some of "desktop", "cli" and "skill"
    PlanLimit,      \* MAX_PLANS
    BackupLimit,    \* MAX_BACKUPS_PER_HOST
    EventLimit      \* bound: edits, failures, updates, restarts of a behaviour

Entries == {"none", "old", "new", "foreign"}    \* old, new: the packaged server of a version
Operations == {"configure", "repair", "remove"}
Promises == {"done", "reverted", "restored"}    \* reports that say what is there now; "failed" and "recovery" do not
Before == [entry : Entries, receipt : Entries]
Untold == [report |-> "none", was |-> [entry |-> "none", receipt |-> "none"]]
Holdings == [entry : Entries, rest : 0..EventLimit]
NoPlan == [host |-> "none"]

VARIABLES
    package,    \* the packaged server of the version that runs
    holds,      \* what each host holds
    receipt,    \* of each host: the entry Tarik recorded as its own
    plans,      \* reviewed changes
    doing,      \* the plan being applied, or NoPlan
    todo,       \* the steps left of it
    late,       \* the host was changed since Tarik last looked at it for this plan
    disturbed,  \* the host was changed since this apply began; the list: since its review
    was,        \* entry and receipt of the host when it began
    backups,    \* number of copies of the JSON file
    said,       \* the last report about each host that nobody has since overtaken
    events      \* counts towards EventLimit

apply == <<doing, todo, late, disturbed, was>>
setupVars == <<package, holds, receipt, plans, apply, backups, said, events>>

Plan == [id : 1..PlanLimit, host : SetupHosts, op : Operations, package : Entries, before : Holdings,
         owned : Entries, late : BOOLEAN]
SetupTypeOK ==
    /\ package \in {"old", "new"} /\ holds \in [SetupHosts -> Holdings] /\ receipt \in [SetupHosts -> Entries]
    /\ plans \subseteq Plan /\ doing \in Plan \cup {NoPlan}
    /\ late \in BOOLEAN /\ disturbed \in BOOLEAN
    /\ backups <= BackupLimit + EventLimit + 1 /\ said \in [SetupHosts -> [report : Promises \cup {"none"}, was : Before]] /\ events \in 0..EventLimit

SetupInit ==
    /\ package = "old" /\ holds = [h \in SetupHosts |-> [entry |-> "none", rest |-> 0]]
    /\ receipt = [h \in SetupHosts |-> "none"] /\ plans = {}
    /\ doing = NoPlan /\ todo = <<>> /\ late = FALSE /\ disturbed = FALSE
    /\ was = Untold.was
    /\ backups = 0 /\ said = [h \in SetupHosts |-> Untold] /\ events = 0

Event == events < EventLimit /\ events' = events + 1
Fails == Event                                  \* a step that goes wrong
Works == UNCHANGED events

--------------------------------------------------------------------------------
(* Review.                                                                 *)

Recognise(h) ==     \* mutant: what looks like Tarik's is Tarik's
    LET e == holds[h].entry
    IN  IF e = "none" THEN "not_configured" ELSE IF e = package THEN "configured" ELSE "repair_required"
\* inspect_owned_claude_state, inspect_cli_state, inspect_target: an entry is Tarik's
\* only with a receipt for exactly it; the skill of another version is a conflict.
Inspect(h) ==
    LET e == holds[h].entry
    IN  IF e = "none" THEN "not_configured"
        ELSE IF receipt[h] # e \/ e = "foreign" THEN "conflict"
        ELSE IF e = package THEN "configured"
        ELSE IF h = "skill" THEN "conflict" ELSE "repair_required"

\* preview_claude_change, build_windows_plan, AgentGuidanceManager::plan.
Offers(op, state) ==
    \/ op = "configure" /\ state = "not_configured"
    \/ op = "repair" /\ state = "repair_required"
    \/ op = "remove" /\ state \in {"configured", "repair_required"}

FreshId == CHOOSE n \in 1..PlanLimit : \A p \in plans : p.id # n
Review(h, op) ==
    /\ doing = NoPlan /\ Cardinality(plans) < PlanLimit /\ Offers(op, Inspect(h))
    /\ plans' = plans \cup {[id |-> FreshId, host |-> h, op |-> op, package |-> package, before |-> holds[h],
                             owned |-> receipt[h], late |-> FALSE]}
    /\ UNCHANGED <<package, holds, receipt, apply, backups, said, events>>

\* PLAN_LIFETIME passes.
Expire(p) ==
    /\ doing = NoPlan /\ p \in plans /\ plans' = plans \ {p}
    /\ UNCHANGED <<package, holds, receipt, apply, backups, said, events>>

--------------------------------------------------------------------------------
(* Apply: a plan is taken, checked and turned into steps.                  *)

\* commands, and the rollbacks after a failed check or receipt.
Commands(op) == CASE op = "configure" -> <<"add">> [] op = "remove" -> <<"remove">> [] OTHER -> <<"remove", "add">>
HalfRollback(op) == IF op = "remove" THEN <<"undo add">> ELSE <<"undo remove">>   \* mutant: the old entry stays away
Rollback(op) ==
    CASE op = "configure" -> <<"undo remove">>
      [] op = "remove" -> <<"undo add">>
      [] OTHER -> <<"undo remove", "undo add">>

Steps(p) ==
    CASE p.host = "desktop" -> <<"backup", "replace", "verify", "prune", "receipt">>
      [] p.host = "cli" -> Commands(p.op) \o <<"check", "receipt">>
      [] OTHER -> <<IF p.op = "remove" THEN "unlink" ELSE "link", "receipt">>

\* The JSON file is as reviewed and the entry is Tarik's; the skill is in the state
\* that was reviewed; the list of a command line host is not looked at again.
Owned(p) == p.op # "configure" => holds["desktop"].entry = p.owned
StillReviewed(p) ==
    CASE p.host = "desktop" -> holds["desktop"] = p.before /\ Owned(p)
      [] p.host = "skill" -> Offers(p.op, Inspect("skill"))
      [] OTHER -> TRUE

Overtaken(h, left) == {IF q.host = h THEN [q EXCEPT !.late = TRUE] ELSE q : q \in left}
Apply(p) ==
    /\ doing = NoPlan /\ p \in plans
    /\ IF p.package = package /\ StillReviewed(p)
       THEN /\ plans' = Overtaken(p.host, plans \ {p})
            /\ doing' = p /\ todo' = Steps(p)
            /\ late' = (p.host = "cli" /\ p.late) /\ disturbed' = late'
            /\ was' = [entry |-> holds[p.host].entry, receipt |-> receipt[p.host]]
            /\ said' = [said EXCEPT ![p.host] = Untold]
       ELSE plans' = plans \ {p} /\ UNCHANGED <<apply, said>>
    /\ UNCHANGED <<package, holds, receipt, backups, events>>

Next1(step) == doing # NoPlan /\ todo # <<>> /\ Head(todo) = step
Goes == todo' = Tail(todo) /\ UNCHANGED <<doing, disturbed, was, said>>
Ends(report) ==
    /\ doing' = NoPlan /\ todo' = <<>> /\ late' = FALSE /\ disturbed' = FALSE
    /\ was' = Untold.was
    /\ said' = [said EXCEPT ![doing.host] =
                    IF disturbed \/ report \notin Promises THEN Untold ELSE [report |-> report, was |-> was]]
Puts(e) == holds' = [holds EXCEPT ![doing.host].entry = e]
Wanted(p) == IF p.op = "remove" THEN "none" ELSE p.package
After(p) == [p.before EXCEPT !.entry = Wanted(p)]

--------------------------------------------------------------------------------
(* The JSON file.  A late change is replaced with the file.                *)

BackUp ==
    /\ Next1("backup")
    /\ \/ backups' = backups + 1 /\ Goes /\ UNCHANGED late /\ Works
       \/ UNCHANGED backups /\ Ends("failed") /\ Fails
    /\ UNCHANGED <<package, holds, receipt, plans>>

Replace ==
    /\ Next1("replace")
    /\ \/ holds' = [holds EXCEPT !["desktop"] = After(doing)] /\ Goes /\ late' = FALSE /\ Works
       \/ UNCHANGED holds /\ Ends("failed") /\ Fails
    /\ UNCHANGED <<package, receipt, plans, backups>>

Verify ==
    /\ Next1("verify")
    /\ IF holds["desktop"] = After(doing) THEN Goes /\ UNCHANGED late ELSE Ends("recovery")
    /\ UNCHANGED <<package, holds, receipt, plans, backups, events>>

\* prune_config_backups spares the backup just made; its error ends the command.
Prune ==
    /\ Next1("prune")
    /\ \/ backups' = Min({BackupLimit, backups}) /\ Goes /\ UNCHANGED late /\ Works
       \/ UNCHANGED backups /\ Ends("failed") /\ Fails
    /\ UNCHANGED <<package, holds, receipt, plans>>

\* rollback_claude_config: only a file that is still as Tarik wrote it is put back.
RollbackRead ==
    /\ Next1("undo read")
    /\ IF holds["desktop"] = After(doing) THEN Goes /\ late' = FALSE ELSE Ends("recovery")
    /\ UNCHANGED <<package, holds, receipt, plans, backups, events>>

RestoreConfig ==
    /\ Next1("undo restore")
    /\ \/ holds' = [holds EXCEPT !["desktop"] = doing.before] /\ Ends("reverted") /\ Works
       \/ UNCHANGED holds /\ Ends("recovery") /\ Fails
    /\ UNCHANGED <<package, receipt, plans, backups>>

--------------------------------------------------------------------------------
(* The list of a command line host: what a command asked of it may come to. *)

Listed == holds["cli"].entry # "none"
Can(e) == IF e = "none" THEN Listed ELSE ~Listed
Runs(e) == Can(e) /\ Puts(e) /\ Works
RunFails == UNCHANGED holds /\ Fails
NothingToDo(e) == ~Can(e) /\ UNCHANGED holds /\ Works
TimesOut(e) == Fails /\ ((Can(e) /\ Puts(e)) \/ UNCHANGED holds)

\* A timeout ends the command; a repair that cannot add puts the old entry back.
RunCommand(step) ==
    LET e == IF step = "remove" THEN "none" ELSE doing.package
    IN  /\ Next1(step)
        /\ \/ Runs(e) /\ Goes /\ UNCHANGED late
           \/ /\ RunFails \/ NothingToDo(e)
              /\ IF doing.op = "repair" /\ step = "add"
                 THEN todo' = <<"redo">> /\ UNCHANGED <<doing, late, disturbed, was, said>>
                 ELSE Ends("failed")
           \/ TimesOut(e) /\ Ends("failed")
        /\ UNCHANGED <<package, receipt, plans, backups>>

Redo ==
    /\ Next1("redo")
    /\ \/ Runs(doing.owned) /\ Ends("restored")
       \/ (RunFails \/ NothingToDo(doing.owned)) /\ Ends("recovery")
       \/ TimesOut(doing.owned) /\ Ends("failed")
    /\ UNCHANGED <<package, receipt, plans, backups>>

\* The list is read; a wrong answer, or none, reverts the change.
Check ==
    /\ Next1("check")
    /\ \/ holds["cli"].entry = Wanted(doing) /\ Goes /\ late' = FALSE /\ Works
       \/ /\ IF holds["cli"].entry = Wanted(doing) THEN Fails ELSE Works
          /\ todo' = Rollback(doing.op) /\ UNCHANGED <<doing, late, disturbed, was, said>>
       \/ Fails /\ Ends("failed")
    /\ UNCHANGED <<package, holds, receipt, plans, backups>>

\* run_cli_rollback.
Undo(step) ==
    LET e == IF step = "undo remove" THEN "none" ELSE doing.owned
    IN  /\ Next1(step)
        /\ \/ Runs(e) /\ (IF Len(todo) = 1 THEN Ends("reverted") ELSE Goes /\ UNCHANGED late)
           \/ (RunFails \/ NothingToDo(e) \/ TimesOut(e)) /\ Ends("recovery")
        /\ UNCHANGED <<package, receipt, plans, backups>>

--------------------------------------------------------------------------------
(* The skill, and the receipt.                                             *)

Link ==
    /\ Next1("link")
    /\ \/ holds["skill"].entry = "none" /\ Puts(doing.package) /\ Goes /\ UNCHANGED late /\ Works
       \/ (IF holds["skill"].entry = "none" THEN Fails ELSE Works) /\ UNCHANGED holds /\ Ends("failed")
    /\ UNCHANGED <<package, receipt, plans, backups>>

Exact == holds["skill"].entry = doing.package
Unlink ==
    /\ Next1("unlink")
    /\ \/ Exact /\ Puts("none") /\ Goes /\ UNCHANGED late /\ Works
       \/ (IF Exact THEN Fails ELSE Works) /\ UNCHANGED holds /\ Ends("failed")
    /\ UNCHANGED <<package, receipt, plans, backups>>

\* The error of this one is dropped: the report is the same.
Unlinked ==
    /\ Next1("undo link")
    /\ \/ Exact /\ Puts("none") /\ Works
       \/ (IF Exact THEN Fails ELSE Works) /\ UNCHANGED holds
    /\ Ends("reverted")
    /\ UNCHANGED <<package, receipt, plans, backups>>

\* record_receipt, and rollback_after_receipt_failure.
WithoutReceipt(p) ==
    CASE p.host = "desktop" -> <<"undo read", "undo restore">>
      [] p.host = "cli" -> Rollback(p.op)
      [] OTHER -> <<"undo link">>
RecordReceipt ==
    /\ Next1("receipt")
    /\ \/ receipt' = [receipt EXCEPT ![doing.host] = Wanted(doing)] /\ Ends("done") /\ Works
       \/ /\ Fails /\ UNCHANGED receipt
          /\ IF doing.host = "skill" /\ doing.op = "remove" THEN Ends("recovery")
             ELSE todo' = WithoutReceipt(doing) /\ UNCHANGED <<doing, late, disturbed, was, said>>
    /\ UNCHANGED <<package, holds, plans, backups>>

--------------------------------------------------------------------------------
(* Everyone else.                                                          *)

Edit(h) ==
    /\ Event
    /\ \/ \E e \in Entries \ {holds[h].entry} : holds' = [holds EXCEPT ![h].entry = e]
       \/ h = "desktop" /\ holds' = [holds EXCEPT ![h].rest = @ + 1]
    /\ late' = (late \/ (doing # NoPlan /\ doing.host = h))
    /\ disturbed' = (disturbed \/ (doing # NoPlan /\ doing.host = h))
    /\ plans' = Overtaken(h, plans)
    /\ said' = [said EXCEPT ![h] = Untold]
    /\ UNCHANGED <<package, receipt, doing, todo, was, backups>>

\* Another version is installed beside the one that runs.
Update ==
    /\ Event /\ package = "old" /\ package' = "new"
    /\ UNCHANGED <<holds, receipt, plans, apply, backups, said>>

\* Tarik ends, in the middle of a change perhaps.
Quit ==
    /\ Event /\ plans' = {}
    /\ IF doing = NoPlan THEN UNCHANGED <<apply, said>> ELSE Ends("none")
    /\ UNCHANGED <<package, holds, receipt, backups>>

SetupNext ==
    \/ \E h \in SetupHosts, op \in Operations : Review(h, op)
    \/ \E p \in plans : Expire(p) \/ Apply(p)
    \/ BackUp \/ Replace \/ Verify \/ Prune \/ RollbackRead \/ RestoreConfig
    \/ \E step \in {"remove", "add"} : RunCommand(step)
    \/ \E step \in {"undo remove", "undo add"} : Undo(step)
    \/ Redo \/ Check \/ Link \/ Unlink \/ Unlinked \/ RecordReceipt
    \/ \E h \in SetupHosts : Edit(h)
    \/ Update \/ Quit

SetupSpec == SetupInit /\ [][SetupNext]_setupVars

--------------------------------------------------------------------------------
(* Properties.                                                             *)

\* A change reported as done left the host with exactly the entry the receipt names,
\* one reported as reverted or restored left entry and receipt as they were; the
\* report on the skill is not held to it, its removal may fail unseen.
ReportsAreTrue ==
    \A h \in SetupHosts :
        /\ said[h].report = "done" => receipt[h] = holds[h].entry
        /\ said[h].report \in {"reverted", "restored"} /\ h # "skill" =>
              holds[h].entry = said[h].was.entry /\ receipt[h] = said[h].was.receipt

\* Tarik never changes the other settings of a host, nor an entry that is not its
\* own, unless it came to be after Tarik last looked.
KeepsForeign ==
    \A h \in SetupHosts : holds'[h] # holds[h] =>
        \/ late \/ Edit(h)
        \/ holds'[h].rest = holds[h].rest /\ holds[h].entry \in {"none", doing.owned, doing.package}
ForeignIsKept == [][KeepsForeign]_setupVars

================================================================================

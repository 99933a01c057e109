-------------------------- MODULE DesktopAgentsProofs --------------------------
(***************************************************************************)
(* Theorems about what the desktop keeps up for agents, for any number of  *)
(* reviews, backups, connections, folders, exports, commands and upsets:   *)
(* the setup of agent hosts, the bridge agents connect to and the folders  *)
(* delegated to them.                                                      *)
(***************************************************************************)
EXTENDS MCDesktop, Sequences, FiniteSetTheorems, SequenceTheorems, TLAPS

--------------------------------------------------------------------------------
(* The setup of agent hosts.                                               *)

\* One set of lemmas serves both instances: which hosts there are is read off the state.
Hosts == DOMAIN holds
Versions == {"old", "new"}
Entries == Versions \cup {"none", "foreign"}
Holdings == [entry : Entries, rest : Nat]
Reports == [report : {"none", "done", "reverted", "restored"}, was : [entry : Entries, receipt : Entries]]
Applying == doing # Setup!NoPlan

Fits(p) ==
    /\ DOMAIN p = {"id", "host", "op", "package", "before", "owned", "late"}
    /\ p.host \in {"desktop", "cli", "skill"} /\ p.host \in Hosts /\ p.op \in {"configure", "repair", "remove"}
    /\ p.package \in Versions /\ p.before \in Holdings /\ p.late \in BOOLEAN
    /\ p.op = "configure" => p.before.entry = "none"
    /\ p.op # "configure" => p.owned \in Versions /\ p.before.entry = p.owned
    /\ p.host = "skill" => p.op # "repair"
SetupShape ==
    /\ package \in Versions /\ holds \in [Hosts -> Holdings] /\ receipt \in [Hosts -> Entries]
    /\ said \in [Hosts -> Reports] /\ was \in [entry : Entries, receipt : Entries]
    /\ late \in BOOLEAN /\ disturbed \in BOOLEAN
    /\ \A p \in plans : Fits(p)
    /\ Applying => Fits(doing)

\* The steps that may be left of a change, named for the next.
FromReceipt == <<"receipt">>
FromPrune == <<"prune", "receipt">>
FromVerify == <<"verify", "prune", "receipt">>
FromReplace == <<"replace", "verify", "prune", "receipt">>
FromBackup == <<"backup", "replace", "verify", "prune", "receipt">>
FromUndoRestore == <<"undo restore">>
FromUndoRead == <<"undo read", "undo restore">>
FromLink == <<"link", "receipt">>
FromUnlink == <<"unlink", "receipt">>
FromUndoLink == <<"undo link">>
FromCheck == <<"check", "receipt">>
FromAdd == <<"add", "check", "receipt">>
FromRemove == <<"remove", "check", "receipt">>
FromRemoveAdd == <<"remove", "add", "check", "receipt">>
FromRedo == <<"redo">>
FromUndoAdd == <<"undo add">>
FromUndoRemove == <<"undo remove">>
FromUndoBoth == <<"undo remove", "undo add">>
Ahead(p) ==
    IF p.host = "desktop"
    THEN {FromBackup, FromReplace, FromVerify, FromPrune, FromReceipt, FromUndoRead, FromUndoRestore}
    ELSE IF p.host = "skill"
    THEN IF p.op = "remove" THEN {FromUnlink, FromReceipt} ELSE {FromLink, FromReceipt, FromUndoLink}
    ELSE IF p.op = "configure" THEN {FromAdd, FromCheck, FromReceipt, FromUndoRemove}
    ELSE IF p.op = "remove" THEN {FromRemove, FromCheck, FromReceipt, FromUndoAdd}
    ELSE {FromRemoveAdd, FromAdd, FromCheck, FromReceipt, FromRedo, FromUndoBoth, FromUndoAdd}

\* What the host holds before each step, unless somebody changed it since Tarik looked.
AsExpected ==
    LET h == doing.host  step == Head(todo)  entry == holds[doing.host].entry
    IN  /\ h = "desktop" =>
              holds["desktop"] = IF step \in {"backup", "replace"} THEN doing.before ELSE Setup!After(doing)
        /\ h = "cli" =>
              /\ step = "remove" => entry = doing.owned
              /\ step \in {"add", "redo", "undo add"} => entry = "none"
              /\ step \in {"check", "receipt"} => entry = Setup!Wanted(doing)
              /\ step = "undo remove" => entry = doing.package
        /\ h = "skill" /\ step = "receipt" => entry = Setup!Wanted(doing)
ApplyingKnows ==
    Applying =>
        /\ todo \in Ahead(doing)
        /\ late => disturbed
        /\ was.receipt = receipt[doing.host] /\ said[doing.host].report = "none"
        /\ ~disturbed /\ doing.host # "skill" => was.entry = doing.before.entry
        /\ ~late => AsExpected
\* A list that was not changed since a review of it is as it was reviewed.
ReviewsHold ==
    \A p \in plans : p.host = "cli" /\ ~p.late =>
        /\ holds["cli"].entry = p.before.entry
        /\ Applying => doing.host # "cli"
ReportsHold ==
    \A h \in Hosts :
        /\ said[h].report = "done" => receipt[h] = holds[h].entry
        /\ said[h].report \in {"reverted", "restored"} /\ h # "skill" =>
              holds[h].entry = said[h].was.entry /\ receipt[h] = said[h].was.receipt
SetupInv == SetupShape /\ ApplyingKnows /\ ReviewsHold /\ ReportsHold

LEMMA TwoSteps == ASSUME NEW a, NEW b
                  PROVE  Head(<<a, b>>) = a /\ Tail(<<a, b>>) = <<b>> /\ Len(<<a, b>>) = 2 /\ Len(<<b>>) = 1 /\ Head(<<b>>) = b
OBVIOUS

LEMMA ThreeSteps == ASSUME NEW a, NEW b, NEW c
                    PROVE  Head(<<a, b, c>>) = a /\ Tail(<<a, b, c>>) = <<b, c>>
OBVIOUS

LEMMA FourSteps == ASSUME NEW a, NEW b, NEW c, NEW d
                   PROVE  Head(<<a, b, c, d>>) = a /\ Tail(<<a, b, c, d>>) = <<b, c, d>>
OBVIOUS

LEMMA FiveSteps == ASSUME NEW a, NEW b, NEW c, NEW d, NEW e
                   PROVE  Head(<<a, b, c, d, e>>) = a /\ Tail(<<a, b, c, d, e>>) = <<b, c, d, e>>
OBVIOUS

LEMMA Joined == ASSUME NEW a, NEW b, NEW c, NEW d
                PROVE  <<a>> \o <<b, c>> = <<a, b, c>> /\ <<a, b>> \o <<c, d>> = <<a, b, c, d>>
<1> DEFINE s == <<a>> \o <<b, c>>  u == <<a, b>> \o <<c, d>>
<1>1. s = <<a, b, c>>
  <2>1. Len(s) = 3 /\ s[1] = a /\ s[2] = b /\ s[3] = c /\ s \in Seq({a, b, c})
    OBVIOUS
  <2>2. Len(<<a, b, c>>) = 3 /\ <<a, b, c>> \in Seq({a, b, c})
    OBVIOUS
  <2>3. \A i \in 1..3 : s[i] = <<a, b, c>>[i]
    BY <2>1
  <2> QED  BY <2>1, <2>2, <2>3, SeqEqual
<1>2. u = <<a, b, c, d>>
  <2>1. Len(u) = 4 /\ u[1] = a /\ u[2] = b /\ u[3] = c /\ u[4] = d /\ u \in Seq({a, b, c, d})
    OBVIOUS
  <2>2. Len(<<a, b, c, d>>) = 4 /\ <<a, b, c, d>> \in Seq({a, b, c, d})
    OBVIOUS
  <2>3. \A i \in 1..4 : u[i] = <<a, b, c, d>>[i]
    BY <2>1
  <2> QED  BY <2>1, <2>2, <2>3, SeqEqual
<1> QED  BY <1>1, <1>2

LEMMA Turns ==
    /\ Head(FromBackup) = "backup" /\ Tail(FromBackup) = FromReplace
    /\ Head(FromReplace) = "replace" /\ Tail(FromReplace) = FromVerify
    /\ Head(FromVerify) = "verify" /\ Tail(FromVerify) = FromPrune
    /\ Head(FromPrune) = "prune" /\ Tail(FromPrune) = FromReceipt /\ Head(FromReceipt) = "receipt"
    /\ Head(FromUndoRead) = "undo read" /\ Tail(FromUndoRead) = FromUndoRestore
    /\ Head(FromUndoRestore) = "undo restore"
    /\ Head(FromLink) = "link" /\ Tail(FromLink) = FromReceipt
    /\ Head(FromUnlink) = "unlink" /\ Tail(FromUnlink) = FromReceipt /\ Head(FromUndoLink) = "undo link"
    /\ Head(FromCheck) = "check" /\ Tail(FromCheck) = FromReceipt
    /\ Head(FromAdd) = "add" /\ Tail(FromAdd) = FromCheck
    /\ Head(FromRemove) = "remove" /\ Tail(FromRemove) = FromCheck
    /\ Head(FromRemoveAdd) = "remove" /\ Tail(FromRemoveAdd) = FromAdd /\ Head(FromRedo) = "redo"
    /\ Head(FromUndoAdd) = "undo add" /\ Len(FromUndoAdd) = 1
    /\ Head(FromUndoRemove) = "undo remove" /\ Len(FromUndoRemove) = 1
    /\ Head(FromUndoBoth) = "undo remove" /\ Tail(FromUndoBoth) = FromUndoAdd /\ Len(FromUndoBoth) # 1
<1>1. \A a, b : Head(<<a, b>>) = a /\ Tail(<<a, b>>) = <<b>> /\ Len(<<a, b>>) = 2 /\ Len(<<b>>) = 1 /\ Head(<<b>>) = b
  BY TwoSteps
<1>2. \A a, b, c : Head(<<a, b, c>>) = a /\ Tail(<<a, b, c>>) = <<b, c>>
  BY ThreeSteps
<1>3. \A a, b, c, d : Head(<<a, b, c, d>>) = a /\ Tail(<<a, b, c, d>>) = <<b, c, d>>
  BY FourSteps
<1>4. \A a, b, c, d, e : Head(<<a, b, c, d, e>>) = a /\ Tail(<<a, b, c, d, e>>) = <<b, c, d, e>>
  BY FiveSteps
<1>5. /\ Head(FromBackup) = "backup" /\ Tail(FromBackup) = FromReplace
      /\ Head(FromReplace) = "replace" /\ Tail(FromReplace) = FromVerify
      /\ Head(FromVerify) = "verify" /\ Tail(FromVerify) = FromPrune
      /\ Head(FromRemoveAdd) = "remove" /\ Tail(FromRemoveAdd) = FromAdd
  <2>1. Head(FromBackup) = "backup" /\ Tail(FromBackup) = FromReplace
    <3>1. LET s == <<"backup", "replace", "verify", "prune", "receipt">>
          IN  Head(s) = "backup" /\ Tail(s) = <<"replace", "verify", "prune", "receipt">>
      BY FiveSteps
    <3> QED  BY Zenon, <3>1 DEF FromBackup, FromReplace
  <2>2. Head(FromReplace) = "replace" /\ Tail(FromReplace) = FromVerify
    BY Zenon, <1>3 DEF FromReplace, FromVerify
  <2>3. Head(FromVerify) = "verify" /\ Tail(FromVerify) = FromPrune
    BY Zenon, <1>2 DEF FromVerify, FromPrune
  <2>4. Head(FromRemoveAdd) = "remove" /\ Tail(FromRemoveAdd) = FromAdd
    BY Zenon, <1>3 DEF FromRemoveAdd, FromAdd
  <2> QED  BY <2>1, <2>2, <2>3, <2>4
<1>6. /\ Head(FromPrune) = "prune" /\ Tail(FromPrune) = FromReceipt /\ Head(FromReceipt) = "receipt"
      /\ Head(FromUndoRead) = "undo read" /\ Tail(FromUndoRead) = FromUndoRestore
      /\ Head(FromUndoRestore) = "undo restore"
      /\ Head(FromLink) = "link" /\ Tail(FromLink) = FromReceipt
      /\ Head(FromUnlink) = "unlink" /\ Tail(FromUnlink) = FromReceipt /\ Head(FromUndoLink) = "undo link"
  BY Zenon, <1>1 DEF FromPrune, FromReceipt, FromUndoRead, FromUndoRestore, FromLink, FromUnlink, FromUndoLink
<1>7. /\ Head(FromCheck) = "check" /\ Tail(FromCheck) = FromReceipt
      /\ Head(FromAdd) = "add" /\ Tail(FromAdd) = FromCheck
      /\ Head(FromRemove) = "remove" /\ Tail(FromRemove) = FromCheck /\ Head(FromRedo) = "redo"
  BY Zenon, <1>1, <1>2 DEF FromCheck, FromReceipt, FromAdd, FromRemove, FromRedo
<1>8. /\ Head(FromUndoAdd) = "undo add" /\ Len(FromUndoAdd) = 1
      /\ Head(FromUndoRemove) = "undo remove" /\ Len(FromUndoRemove) = 1
      /\ Head(FromUndoBoth) = "undo remove" /\ Tail(FromUndoBoth) = FromUndoAdd /\ Len(FromUndoBoth) # 1
  <2>1. /\ Head(FromUndoAdd) = "undo add" /\ Len(FromUndoAdd) = 1
        /\ Head(FromUndoRemove) = "undo remove" /\ Len(FromUndoRemove) = 1
        /\ Head(FromUndoBoth) = "undo remove" /\ Tail(FromUndoBoth) = FromUndoAdd /\ Len(FromUndoBoth) = 2
    BY Zenon, <1>1 DEF FromUndoAdd, FromUndoRemove, FromUndoBoth
  <2>2. Len(FromUndoBoth) # 1
    BY DEF FromUndoBoth
  <2> QED  BY <2>1, <2>2
<1> QED  BY <1>5, <1>6, <1>7, <1>8

\* What is left of a change tells its host, its operation and the step after the next.
Rest == Tail(todo)

LEMMA DesktopTurn ==
    ASSUME todo \in Ahead(doing), doing.host = "desktop"
    PROVE  /\ Head(todo) \in {"backup", "replace", "verify", "prune", "receipt", "undo read", "undo restore"}
           /\ Head(todo) \in {"backup", "replace", "verify", "prune", "undo read"} => Rest \in Ahead(doing)
           /\ Head(todo) = "backup" => Head(Rest) = "replace"
           /\ Head(todo) = "replace" => Head(Rest) = "verify"
           /\ Head(todo) = "verify" => Head(Rest) = "prune"
           /\ Head(todo) = "prune" => Head(Rest) = "receipt"
           /\ Head(todo) = "undo read" => Head(Rest) = "undo restore"
BY Turns DEF Ahead, Rest

LEMMA SkillTurn ==
    ASSUME todo \in Ahead(doing), doing.host = "skill", doing.op \in {"configure", "remove"}
    PROVE  /\ Head(todo) \in {"link", "unlink", "receipt", "undo link"}
           /\ Head(todo) = "link" => doing.op = "configure" /\ Rest \in Ahead(doing) /\ Head(Rest) = "receipt"
           /\ Head(todo) = "unlink" => doing.op = "remove" /\ Rest \in Ahead(doing) /\ Head(Rest) = "receipt"
BY Turns DEF Ahead, Rest

LEMMA ListTurn ==
    ASSUME todo \in Ahead(doing), doing.host = "cli", doing.op \in {"configure", "remove", "repair"}
    PROVE  /\ Head(todo) \in {"add", "remove", "check", "receipt", "redo", "undo add", "undo remove"}
           /\ Head(todo) = "add" => doing.op # "remove" /\ Rest \in Ahead(doing) /\ Head(Rest) = "check"
           /\ Head(todo) = "remove" => /\ doing.op # "configure" /\ Rest \in Ahead(doing)
                                       /\ Head(Rest) = IF doing.op = "remove" THEN "check" ELSE "add"
           /\ Head(todo) = "check" => Rest \in Ahead(doing) /\ Head(Rest) = "receipt"
           /\ Head(todo) = "redo" => doing.op = "repair"
           /\ Head(todo) = "undo add" => doing.op # "configure" /\ Len(todo) = 1
           /\ Head(todo) = "undo remove" =>
                 /\ doing.op # "remove"
                 /\ IF doing.op = "configure" THEN Len(todo) = 1
                    ELSE Len(todo) # 1 /\ Rest \in Ahead(doing) /\ Head(Rest) = "undo add"
<1>1. CASE doing.op = "configure"
  <2>1. todo \in {FromAdd, FromCheck, FromReceipt, FromUndoRemove}
    BY <1>1 DEF Ahead
  <2>2. FromCheck \in Ahead(doing) /\ FromReceipt \in Ahead(doing)
    BY <1>1 DEF Ahead
  <2>3. CASE todo = FromAdd
    BY <1>1, <2>2, <2>3, Turns DEF Rest
  <2>4. CASE todo = FromCheck
    BY <1>1, <2>2, <2>4, Turns DEF Rest
  <2>5. CASE todo = FromReceipt
    BY <2>5, Turns
  <2>6. CASE todo = FromUndoRemove
    <3>1. Head(todo) = "undo remove" /\ Len(todo) = 1
      BY <2>6, Turns
    <3> QED  BY <1>1, <3>1
  <2> QED  BY <2>1, <2>3, <2>4, <2>5, <2>6
<1>2. CASE doing.op = "remove"
  BY <1>2, Turns DEF Ahead, Rest
<1>3. CASE doing.op = "repair"
  BY <1>3, Turns DEF Ahead, Rest
<1> QED  BY <1>1, <1>2, <1>3

LEMMA Starts ==
    ASSUME NEW p, p.host \in {"desktop", "cli", "skill"}, p.op \in {"configure", "remove", "repair"}
    PROVE  /\ Setup!Steps(p) \in Ahead(p)
           /\ p.host = "desktop" => Head(Setup!Steps(p)) = "backup"
           /\ p.host = "cli" => Head(Setup!Steps(p)) = IF p.op = "configure" THEN "add" ELSE "remove"
           /\ p.host = "skill" => Head(Setup!Steps(p)) # "receipt"
<1>1. /\ <<"add">> \o <<"check", "receipt">> = FromAdd
      /\ <<"remove">> \o <<"check", "receipt">> = FromRemove
      /\ <<"remove", "add">> \o <<"check", "receipt">> = FromRemoveAdd
  <2>1. \A a, b, c : <<a>> \o <<b, c>> = <<a, b, c>>
    BY Joined
  <2>2. \A a, b, c, d : <<a, b>> \o <<c, d>> = <<a, b, c, d>>
    BY Joined
  <2> QED  BY Zenon, <2>1, <2>2 DEF FromAdd, FromRemove, FromRemoveAdd
<1>2. CASE p.host = "desktop"
  <2>1. Setup!Steps(p) = FromBackup
    BY Zenon, <1>2 DEF Setup!Steps, FromBackup
  <2> QED  BY <1>2, <2>1, Turns DEF Ahead
<1>3. CASE p.host = "skill"
  <2>1. Setup!Steps(p) = <<IF p.op = "remove" THEN "unlink" ELSE "link", "receipt">>
    BY <1>3 DEF Setup!Steps
  <2>2. Setup!Steps(p) = IF p.op = "remove" THEN FromUnlink ELSE FromLink
    BY Zenon, <2>1 DEF FromUnlink, FromLink
  <2> QED  BY <1>3, <2>2, Turns DEF Ahead
<1>4. CASE p.host = "cli"
  <2>1. Setup!Steps(p) = Setup!Commands(p.op) \o <<"check", "receipt">>
    BY <1>4 DEF Setup!Steps
  <2>2. /\ p.op = "configure" => Setup!Commands(p.op) = <<"add">>
        /\ p.op = "remove" => Setup!Commands(p.op) = <<"remove">>
        /\ p.op = "repair" => Setup!Commands(p.op) = <<"remove", "add">>
    BY DEF Setup!Commands
  <2>3. /\ p.op = "configure" => Setup!Steps(p) = FromAdd
        /\ p.op = "remove" => Setup!Steps(p) = FromRemove
        /\ p.op = "repair" => Setup!Steps(p) = FromRemoveAdd
    BY Zenon, <1>1, <2>1, <2>2
  <2> QED  BY <1>4, <2>3, Turns DEF Ahead
<1> QED  BY <1>2, <1>3, <1>4

LEMMA Reviewed ==
    ASSUME SetupShape, NEW h \in Hosts, NEW op \in {"configure", "repair", "remove"}, Setup!Offers(op, Setup!Inspect(h))
    PROVE  /\ op = "configure" => holds[h].entry = "none"
           /\ op # "configure" => holds[h].entry = receipt[h] /\ receipt[h] \in Versions
           /\ h = "skill" => op # "repair" /\ (op = "remove" => holds[h].entry = package)
BY DEF SetupShape, Setup!Offers, Setup!Inspect, Versions, Entries, Holdings

LEMMA Reverts ==
    ASSUME NEW p, p.host = "cli", p.op \in {"configure", "remove", "repair"}
    PROVE  /\ Setup!Rollback(p.op) \in Ahead(p)
           /\ Head(Setup!Rollback(p.op)) = IF p.op = "remove" THEN "undo add" ELSE "undo remove"
<1>1. CASE p.op = "configure"
  <2>1. Setup!Rollback(p.op) = FromUndoRemove
    BY <1>1 DEF Setup!Rollback, FromUndoRemove
  <2> QED  BY <1>1, <2>1, Turns DEF Ahead
<1>2. CASE p.op = "remove"
  <2>1. Setup!Rollback(p.op) = FromUndoAdd
    BY <1>2 DEF Setup!Rollback, FromUndoAdd
  <2> QED  BY <1>2, <2>1, Turns DEF Ahead
<1>3. CASE p.op = "repair"
  <2>1. Setup!Rollback(p.op) = FromUndoBoth
    BY <1>3 DEF Setup!Rollback, FromUndoBoth
  <2> QED  BY <1>3, <2>1, Turns DEF Ahead
<1> QED  BY <1>1, <1>2, <1>3

LEMMA AboutDoing ==
    ASSUME SetupInv, Applying
    PROVE  /\ doing.host \in {"desktop", "cli", "skill"} /\ doing.host \in Hosts
           /\ doing.op \in {"configure", "repair", "remove"} /\ doing.package \in Versions /\ doing.before \in Holdings
           /\ doing.op = "configure" => doing.before.entry = "none"
           /\ doing.op # "configure" => doing.owned \in Versions /\ doing.before.entry = doing.owned
           /\ doing.host = "skill" => doing.op # "repair"
           /\ Setup!Wanted(doing) \in Entries /\ Setup!After(doing) \in Holdings
           /\ Setup!After(doing).entry = Setup!Wanted(doing) /\ Setup!After(doing).rest = doing.before.rest
           /\ todo \in Ahead(doing) /\ (~late => AsExpected) /\ (late => disturbed)
           /\ was.receipt = receipt[doing.host]
           /\ ~disturbed /\ doing.host # "skill" => was.entry = doing.before.entry
<1>1. Fits(doing) /\ ApplyingKnows
  BY DEF SetupInv, SetupShape
<1>2. Setup!Wanted(doing) \in Entries
  BY <1>1 DEF Fits, Setup!Wanted, Entries, Versions
<1>3. /\ Setup!After(doing) \in Holdings /\ Setup!After(doing).entry = Setup!Wanted(doing)
      /\ Setup!After(doing).rest = doing.before.rest
  BY <1>1, <1>2 DEF Fits, Setup!After, Holdings
<1> QED  BY <1>1, <1>2, <1>3 DEF Fits, ApplyingKnows

\* A host that changes is the one the change is of.
Alters(x) == holds' = [holds EXCEPT ![doing.host] = x]
\* What the other hosts hold, and what this one held: Tarik's, or nothing.
Kept ==
    /\ Hosts' = Hosts
    /\ \A h \in Hosts : holds'[h] # holds[h] =>
           late \/ (holds'[h].rest = holds[h].rest /\ holds[h].entry \in {"none", doing.owned, doing.package})

LEMMA Keeps ==
    ASSUME SetupInv, Applying, NEW x \in Holdings, Alters(x),
           \/ late \/ x = holds[doing.host]
           \/ x.rest = holds[doing.host].rest /\ holds[doing.host].entry \in {"none", doing.owned, doing.package}
    PROVE  Kept
BY DEF SetupInv, SetupShape, Alters, Kept, Hosts

LEMMA Altered ==
    ASSUME SetupInv, Applying, NEW x \in Holdings, Alters(x)
    PROVE  /\ Hosts' = Hosts /\ holds' \in [Hosts -> Holdings]
           /\ holds'[doing.host] = x /\ \A h \in Hosts : h # doing.host => holds'[h] = holds[h]
           /\ \A p : Fits(p) => Fits(p)'
<1>1. /\ Hosts' = Hosts /\ holds' \in [Hosts -> Holdings]
      /\ holds'[doing.host] = x /\ \A h \in Hosts : h # doing.host => holds'[h] = holds[h]
  BY AboutDoing DEF SetupInv, SetupShape, Alters, Hosts
<1>2. \A p : Fits(p) => Fits(p)'
  BY <1>1 DEF Fits
<1> QED  BY <1>1, <1>2

LEMMA GoesOn ==
    ASSUME SetupInv, Applying, NEW x \in Holdings, Alters(x),
           UNCHANGED <<package, receipt, plans, doing, disturbed, was, said>>,
           todo' \in Ahead(doing), late' \in BOOLEAN, late' => late, ~late' => AsExpected'
    PROVE  SetupInv'
<1>1. SetupShape'
  BY Altered DEF SetupInv, SetupShape, Applying
<1>2. ApplyingKnows'
  BY AboutDoing DEF SetupInv, ApplyingKnows, Ahead, Applying
<1>3. ReviewsHold'
  BY Altered, AboutDoing DEF SetupInv, SetupShape, ReviewsHold, Applying, Fits
<1>4. ReportsHold'
  BY Altered, AboutDoing DEF SetupInv, ReportsHold, ApplyingKnows
<1> QED  BY <1>1, <1>2, <1>3, <1>4 DEF SetupInv

LEMMA EndsSo ==
    ASSUME SetupInv, Applying, NEW x \in Holdings, Alters(x), NEW report, Setup!Ends(report),
           package' = package, plans' \subseteq plans, NEW e \in Entries, receipt' = [receipt EXCEPT ![doing.host] = e],
           ~disturbed /\ report = "done" => e = x.entry,
           ~disturbed /\ report \in {"reverted", "restored"} /\ doing.host # "skill" =>
                x.entry = was.entry /\ e = receipt[doing.host]
    PROVE  SetupInv'
<1>1. /\ doing' = Setup!NoPlan /\ ~Applying' /\ late' = FALSE /\ disturbed' = FALSE
      /\ was' = [entry |-> "none", receipt |-> "none"]
  BY DEF Setup!Ends, Applying, Setup!Untold
<1>2. PICK told \in Reports :
         /\ said' = [said EXCEPT ![doing.host] = told]
         /\ told.report = "none" \/ (~disturbed /\ told.report = report /\ told.was = was)
  <2> DEFINE told == IF disturbed \/ report \notin Setup!Promises THEN Setup!Untold ELSE [report |-> report, was |-> was]
  <2>1. said' = [said EXCEPT ![doing.host] = told]
    BY Zenon DEF Setup!Ends
  <2>2. CASE disturbed \/ report \notin Setup!Promises
    <3>1. told = Setup!Untold /\ told \in Reports /\ told.report = "none"
      BY <2>2 DEF Setup!Untold, Reports, Entries
    <3> QED  BY <2>1, <3>1
  <2>3. CASE ~(disturbed \/ report \notin Setup!Promises)
    <3>1. told = [report |-> report, was |-> was] /\ report \in {"done", "reverted", "restored"}
      BY <2>3 DEF Setup!Promises
    <3>2. told \in Reports /\ told.report = report /\ told.was = was
      BY <3>1 DEF SetupInv, SetupShape, Reports
    <3> QED  BY <2>1, <2>3, <3>2
  <2> QED  BY <2>2, <2>3
<1>3. SetupShape'
  BY <1>1, <1>2, Altered DEF SetupInv, SetupShape, Entries
<1>4. ApplyingKnows'
  BY <1>1 DEF ApplyingKnows
<1>5. ReviewsHold'
  BY <1>1, Altered, AboutDoing DEF SetupInv, SetupShape, ReviewsHold, Fits
<1>6. ReportsHold'
  <2> SUFFICES ASSUME NEW h \in Hosts
               PROVE  /\ said'[h].report = "done" => receipt'[h] = holds'[h].entry
                      /\ said'[h].report \in {"reverted", "restored"} /\ h # "skill" =>
                            holds'[h].entry = said'[h].was.entry /\ receipt'[h] = said'[h].was.receipt
    BY Altered DEF ReportsHold
  <2>1. CASE h # doing.host
    BY <1>2, <2>1, Altered DEF SetupInv, SetupShape, ReportsHold
  <2>2. CASE h = doing.host
    <3>1. said'[h] = told /\ receipt'[h] = e /\ holds'[h] = x
      BY <1>2, <2>2, Altered, AboutDoing DEF SetupInv, SetupShape
    <3> QED  BY <1>2, <2>2, <3>1, AboutDoing
  <2> QED  BY <2>1, <2>2
<1> QED  BY <1>3, <1>4, <1>5, <1>6 DEF SetupInv

LEMMA Leaves ==
    ASSUME SetupInv, Applying, NEW x \in Holdings, Alters(x), NEW report \in {"failed", "recovery", "none"},
           Setup!Ends(report), UNCHANGED <<package, receipt>>, plans' \subseteq plans
    PROVE  SetupInv'
<1>1. receipt[doing.host] \in Entries /\ receipt' = [receipt EXCEPT ![doing.host] = receipt[doing.host]]
  BY AboutDoing DEF SetupInv, SetupShape
<1> QED  BY <1>1, EndsSo

LEMMA Still ==
    ASSUME SetupInv, Applying
    PROVE  /\ holds[doing.host] \in Holdings
           /\ \A x \in Holdings : x = holds[doing.host] => (Alters(x) <=> holds' = holds)
BY AboutDoing DEF SetupInv, SetupShape, Alters

\* A change that is taken back leaves the entry as it was reviewed.
LEMMA Reverted ==
    ASSUME SetupInv, Applying, NEW x \in Holdings, Alters(x), NEW report \in {"reverted", "restored"},
           Setup!Ends(report), UNCHANGED <<package, plans, receipt>>,
           doing.host # "skill" => x.entry = doing.before.entry
    PROVE  SetupInv'
<1>1. receipt[doing.host] \in Entries /\ receipt' = [receipt EXCEPT ![doing.host] = receipt[doing.host]]
  BY AboutDoing DEF SetupInv, SetupShape
<1>2. ~disturbed /\ report \in {"reverted", "restored"} /\ doing.host # "skill" =>
         x.entry = was.entry /\ receipt[doing.host] = receipt[doing.host]
  BY AboutDoing
<1>3. report # "done" /\ package' = package /\ plans' \subseteq plans
  OBVIOUS
<1> QED  BY <1>1, <1>2, <1>3, EndsSo

Reviews(h, op, id) ==
    plans' = plans \cup {[id |-> id, host |-> h, op |-> op, package |-> package, before |-> holds[h],
                          owned |-> receipt[h], late |-> FALSE]}

LEMMA ReviewStep ==
    ASSUME SetupInv, NEW h \in Hosts, NEW op \in {"configure", "repair", "remove"}, NEW id,
           h \in {"desktop", "cli", "skill"}, ~Applying, Setup!Offers(op, Setup!Inspect(h)),
           Reviews(h, op, id),
           UNCHANGED <<package, holds, receipt, doing, todo, late, disturbed, was, said>>
    PROVE  SetupInv'
<1> DEFINE p == [id |-> id, host |-> h, op |-> op, package |-> package, before |-> holds[h],
                 owned |-> receipt[h], late |-> FALSE]
<1>1. Fits(p) /\ p.host = h /\ p.before = holds[h]
  BY Reviewed DEF SetupInv, SetupShape, Fits
<1>2. Hosts' = Hosts /\ \A q : Fits(q) => Fits(q)'
  BY DEF Hosts, Fits
<1>3. plans' = plans \cup {p}
  BY DEF Reviews
<1> HIDE DEF p
<1>4. SetupShape'
  BY <1>1, <1>2, <1>3 DEF SetupInv, SetupShape, Applying
<1>5. ReviewsHold'
  BY <1>1, <1>3 DEF SetupInv, ReviewsHold, Applying
<1>6. ApplyingKnows' /\ ReportsHold'
  BY <1>2 DEF SetupInv, ApplyingKnows, ReportsHold, Applying
<1> QED  BY <1>4, <1>5, <1>6 DEF SetupInv

\* Plans are forgotten, or overtaken.
LEMMA FewerPlans ==
    ASSUME SetupInv, plans' \subseteq plans,
           UNCHANGED <<holds, receipt, doing, todo, late, disturbed, was, said>>, package' \in Versions
    PROVE  SetupInv'
<1>1. Hosts' = Hosts /\ \A q : Fits(q) => Fits(q)'
  BY DEF Hosts, Fits
<1>2. SetupShape' /\ ReviewsHold'
  BY <1>1 DEF SetupInv, SetupShape, ReviewsHold, Applying
<1>3. ApplyingKnows' /\ ReportsHold'
  BY <1>1 DEF SetupInv, ApplyingKnows, ReportsHold, Applying, AsExpected
<1> QED  BY <1>2, <1>3 DEF SetupInv

LEMMA OvertakenPlans ==
    ASSUME NEW h, NEW left, \A q \in left : Fits(q), NEW q \in Setup!Overtaken(h, left)
    PROVE  /\ Fits(q)
           /\ q.host = h => q.late
           /\ ~q.late => q \in left
<1>1. PICK p \in left : q = IF p.host = h THEN [p EXCEPT !.late = TRUE] ELSE p
  BY DEF Setup!Overtaken
<1>2. CASE p.host = h
  <2>1. q = [p EXCEPT !.late = TRUE] /\ Fits(p)
    BY <1>1, <1>2
  <2>2. /\ DOMAIN q = DOMAIN p /\ q.late = TRUE
        /\ q.host = p.host /\ q.op = p.op /\ q.package = p.package /\ q.before = p.before /\ q.owned = p.owned
    BY <2>1 DEF Fits
  <2> QED  BY <2>1, <2>2 DEF Fits
<1>3. CASE p.host # h
  BY <1>1, <1>3
<1> QED  BY <1>2, <1>3

LEMMA ApplyStep ==
    ASSUME SetupInv, NEW p \in plans, Setup!Apply(p)
    PROVE  SetupInv'
<1> DEFINE h == p.host
<1>1. ~Applying /\ UNCHANGED <<package, holds, receipt>>
  BY DEF Setup!Apply, Applying
<1>2. Hosts' = Hosts /\ \A q : Fits(q) => Fits(q)'
  BY <1>1 DEF Hosts, Fits
<1>3. Fits(p) /\ h \in {"desktop", "cli", "skill"} /\ p.op \in {"configure", "repair", "remove"} /\ h \in Hosts
  BY DEF SetupInv, SetupShape, Fits
<1>4. CASE ~(p.package = package /\ Setup!StillReviewed(p))
  BY <1>1, <1>4, FewerPlans DEF Setup!Apply, Setup!apply, SetupInv, SetupShape
<1>5. CASE p.package = package /\ Setup!StillReviewed(p)
  <2>1. /\ plans' = Setup!Overtaken(h, plans \ {p}) /\ doing' = p /\ todo' = Setup!Steps(p)
        /\ late' = (h = "cli" /\ p.late) /\ disturbed' = late'
        /\ was' = [entry |-> holds[h].entry, receipt |-> receipt[h]]
        /\ said' = [said EXCEPT ![h] = Setup!Untold]
    BY <1>5 DEF Setup!Apply
  <2>2. Setup!Untold \in Reports /\ Setup!Untold.report = "none"
    BY DEF Setup!Untold, Reports, Entries
  <2>3. \A q \in plans' : Fits(q) /\ (q.host = h => q.late) /\ (~q.late => q \in plans)
    BY <2>1, OvertakenPlans DEF SetupInv, SetupShape
  <2>4. holds[h] \in Holdings /\ receipt[h] \in Entries /\ was' \in [entry : Entries, receipt : Entries]
        /\ was'.entry = holds[h].entry /\ was'.receipt = receipt[h]
    BY <1>3, <2>1 DEF SetupInv, SetupShape, Holdings
  <2>5. late' \in BOOLEAN /\ disturbed' \in BOOLEAN
    BY <1>3, <2>1 DEF Fits
  <2>6. SetupShape'
    BY <1>1, <1>2, <1>3, <2>1, <2>2, <2>3, <2>4, <2>5 DEF SetupInv, SetupShape
  <2>7. ReviewsHold'
    BY <1>1, <2>1, <2>3 DEF SetupInv, ReviewsHold, Applying
  <2>8. ReportsHold'
    BY <1>1, <1>2, <1>3, <2>1, <2>2 DEF SetupInv, SetupShape, ReportsHold
  <2>9. ApplyingKnows'
    <3>1. todo' \in Ahead(doing')
      BY <1>3, <2>1, Starts
    <3>2. said'[h].report = "none"
      BY <1>3, <2>1, <2>2 DEF SetupInv, SetupShape
    <3>3. /\ ~late' /\ h = "cli" => holds[h].entry = p.before.entry
          /\ h = "desktop" => holds[h] = p.before
      BY <1>5, <2>1 DEF SetupInv, ReviewsHold, Setup!StillReviewed
    <3>4. ASSUME ~late' PROVE AsExpected'
      <4>1. doing' = p /\ todo' = Setup!Steps(p) /\ holds' = holds
        BY <1>1, <2>1
      <4>2. CASE h = "desktop"
        <5>1. Head(todo') = "backup" /\ holds["desktop"] = p.before
          BY <1>3, <3>3, <4>1, <4>2, Starts
        <5> QED  BY <4>1, <4>2, <5>1 DEF AsExpected
      <4>3. CASE h = "cli"
        <5>1. Head(todo') = (IF p.op = "configure" THEN "add" ELSE "remove") /\ holds[h].entry = p.before.entry
          BY <1>3, <3>3, <3>4, <4>1, <4>3, Starts
        <5>2. p.before.entry = IF p.op = "configure" THEN "none" ELSE p.owned
          BY <1>3 DEF Fits
        <5> QED  BY <4>1, <4>3, <5>1, <5>2 DEF AsExpected
      <4>4. CASE h = "skill"
        <5>1. Head(todo') # "receipt"
          BY <1>3, <4>1, <4>4, Starts
        <5> QED  BY <4>1, <4>4, <5>1 DEF AsExpected
      <4> QED  BY <1>3, <4>2, <4>3, <4>4
    <3> QED  BY <1>1, <1>3, <2>1, <2>4, <3>1, <3>2, <3>3, <3>4 DEF ApplyingKnows
  <2> QED  BY <2>6, <2>7, <2>8, <2>9 DEF SetupInv
<1> QED  BY <1>4, <1>5

LEMMA EditStep ==
    ASSUME SetupInv, NEW h \in Hosts, Setup!Edit(h)
    PROVE  SetupInv'
<1>1. PICK x \in Holdings : holds' = [holds EXCEPT ![h] = x]
  <2>1. CASE \E e \in Setup!Entries \ {holds[h].entry} : holds' = [holds EXCEPT ![h].entry = e]
    <3>1. PICK e \in Entries : holds' = [holds EXCEPT ![h] = [holds[h] EXCEPT !.entry = e]]
      BY <2>1 DEF Setup!Entries, Entries, Versions, SetupInv, SetupShape
    <3>2. [holds[h] EXCEPT !.entry = e] \in Holdings
      BY DEF SetupInv, SetupShape, Holdings
    <3> QED  BY <3>1, <3>2
  <2>2. CASE holds' = [holds EXCEPT ![h].rest = @ + 1]
    <3>1. holds' = [holds EXCEPT ![h] = [holds[h] EXCEPT !.rest = holds[h].rest + 1]]
      BY <2>2 DEF SetupInv, SetupShape
    <3>2. [holds[h] EXCEPT !.rest = holds[h].rest + 1] \in Holdings
      BY DEF SetupInv, SetupShape, Holdings
    <3> QED  BY <3>1, <3>2
  <2> QED  BY <2>1, <2>2 DEF Setup!Edit
<1>2. /\ late' = (late \/ (Applying /\ doing.host = h)) /\ disturbed' = (disturbed \/ (Applying /\ doing.host = h))
      /\ plans' = Setup!Overtaken(h, plans) /\ said' = [said EXCEPT ![h] = Setup!Untold]
      /\ UNCHANGED <<package, receipt, doing, todo, was>>
  BY DEF Setup!Edit, Applying
<1>3. /\ Hosts' = Hosts /\ holds' \in [Hosts -> Holdings] /\ \A k \in Hosts : k # h => holds'[k] = holds[k]
      /\ \A p : Fits(p) => Fits(p)'
  BY <1>1 DEF SetupInv, SetupShape, Hosts, Fits
<1>4. Setup!Untold \in Reports /\ Setup!Untold.report = "none"
  BY DEF Setup!Untold, Reports, Entries
<1>5. \A q \in plans' : Fits(q) /\ (q.host = h => q.late) /\ (~q.late => q \in plans)
  BY <1>2, OvertakenPlans DEF SetupInv, SetupShape
<1>6. late' \in BOOLEAN /\ disturbed' \in BOOLEAN /\ (Applying' <=> Applying)
  BY <1>2 DEF SetupInv, SetupShape, Applying
<1>7. SetupShape'
  BY <1>2, <1>3, <1>4, <1>5, <1>6 DEF SetupInv, SetupShape
<1>8. ReviewsHold'
  <2>1. \A q \in plans' : q.host \in Hosts
    BY <1>5 DEF Fits
  <2> QED  BY <1>2, <1>3, <1>5, <1>6, <2>1 DEF SetupInv, ReviewsHold
<1>9. ReportsHold'
  BY <1>2, <1>3, <1>4 DEF SetupInv, SetupShape, ReportsHold
<1>10. ApplyingKnows'
  <2> SUFFICES ASSUME Applying PROVE ApplyingKnows'
    BY <1>6 DEF ApplyingKnows
  <2>1. doing.host \in Hosts
    BY AboutDoing
  <2>2. CASE doing.host = h
    BY <1>2, <1>4, <1>6, <2>1, <2>2 DEF SetupInv, SetupShape, ApplyingKnows, Ahead
  <2>3. CASE doing.host # h
    <3>1. (late' <=> late) /\ (disturbed' <=> disturbed) /\ holds'[doing.host] = holds[doing.host]
          /\ said'[doing.host] = said[doing.host]
      BY <1>2, <1>3, <2>1, <2>3 DEF SetupInv, SetupShape
    <3>2. AsExpected => AsExpected'
      BY <1>2, <3>1 DEF AsExpected
    <3> QED  BY <1>2, <1>6, <3>1, <3>2 DEF SetupInv, ApplyingKnows
  <2> QED  BY <2>2, <2>3
<1> QED  BY <1>7, <1>8, <1>9, <1>10 DEF SetupInv

LEMMA QuitStep ==
    ASSUME SetupInv, Setup!Quit
    PROVE  SetupInv'
<1>1. plans' = {} /\ UNCHANGED <<package, holds, receipt>>
  BY DEF Setup!Quit
<1>2. CASE ~Applying
  BY <1>1, <1>2, FewerPlans DEF Setup!Quit, Setup!apply, Applying, SetupInv, SetupShape
<1>3. CASE Applying
  <2>1. Setup!Ends("none")
    BY <1>3 DEF Setup!Quit, Applying
  <2>2. Alters(holds[doing.host]) /\ holds[doing.host] \in Holdings
    BY <1>1, <1>3, Still
  <2> QED  BY <1>1, <1>3, <2>1, <2>2, Leaves
<1> QED  BY <1>2, <1>3

LEMMA UpdateStep == ASSUME SetupInv, Setup!Update PROVE SetupInv'
BY FewerPlans DEF Setup!Update, Setup!apply, Versions

\* The steps of a JSON file.
LEMMA FileSteps ==
    ASSUME SetupInv, \/ Setup!BackUp \/ Setup!Replace \/ Setup!Verify \/ Setup!Prune
                     \/ Setup!RollbackRead \/ Setup!RestoreConfig
    PROVE  SetupInv' /\ Kept
<1>0. late \in BOOLEAN
  BY DEF SetupInv, SetupShape
<1>1. Applying /\ UNCHANGED <<package, receipt, plans>>
  BY DEF Setup!BackUp, Setup!Replace, Setup!Verify, Setup!Prune, Setup!RollbackRead, Setup!RestoreConfig,
     Setup!Next1, Applying
<1>2. /\ Head(todo) \in {"backup", "replace", "verify", "prune", "undo read", "undo restore"} /\ doing.host = "desktop"
      /\ todo \in Ahead(doing)
  <2>1. Head(todo) \in {"backup", "replace", "verify", "prune", "undo read", "undo restore"}
    BY DEF Setup!BackUp, Setup!Replace, Setup!Verify, Setup!Prune, Setup!RollbackRead, Setup!RestoreConfig, Setup!Next1
  <2> QED  BY <1>1, <2>1, AboutDoing, ListTurn, SkillTurn
<1> DEFINE h == holds["desktop"]
<1>3. /\ h \in Holdings /\ (Alters(h) <=> holds' = holds) /\ Setup!After(doing) \in Holdings /\ doing.before \in Holdings
      /\ Setup!After(doing).entry = Setup!Wanted(doing) /\ Setup!After(doing).rest = doing.before.rest
      /\ \A x : Alters(x) <=> holds' = [holds EXCEPT !["desktop"] = x]
  BY <1>1, <1>2, Still, AboutDoing DEF Alters
<1>4. /\ ~late => h = IF Head(todo) \in {"backup", "replace"} THEN doing.before ELSE Setup!After(doing)
      /\ doing.before.entry = IF doing.op = "configure" THEN "none" ELSE doing.owned
      /\ Setup!Wanted(doing) \in {"none", doing.package}
  BY <1>1, <1>2, AboutDoing DEF AsExpected, Setup!Wanted
<1>5. ASSUME NEW report \in {"failed", "recovery"}, Setup!Ends(report), holds' = holds
      PROVE  SetupInv' /\ Kept
  BY <1>1, <1>2, <1>3, <1>5, Keeps, Leaves
<1>6. ASSUME Setup!Goes, holds' = holds, late' \in BOOLEAN, late' => late,
             ~late' => ~late \/ (h = Setup!After(doing) /\ Head(todo) # "backup"),
             Head(todo) \in {"backup", "verify", "prune", "undo read"}
      PROVE  SetupInv' /\ Kept
  <2>1. todo' = Rest /\ UNCHANGED <<doing, disturbed, was, said>>
    BY <1>6 DEF Setup!Goes, Rest
  <2>2. Rest \in Ahead(doing) /\ (Head(Rest) \in {"backup", "replace"} <=> Head(todo) = "backup")
    BY <1>2, <1>6, DesktopTurn
  <2>3. ASSUME ~late' PROVE AsExpected'
    <3>1. h = IF Head(todo) = "backup" THEN doing.before ELSE Setup!After(doing)
      BY <1>4, <1>6, <2>3
    <3>2. Setup!After(doing)' = Setup!After(doing) /\ doing' = doing /\ Head(todo') = Head(Rest)
      BY <2>1 DEF Setup!After, Setup!Wanted
    <3> QED  BY <1>2, <1>6, <2>2, <3>1, <3>2 DEF AsExpected
  <2>5. SetupInv'
    BY <1>1, <1>2, <1>3, <1>6, <2>1, <2>2, <2>3, GoesOn
  <2> QED  BY <1>1, <1>2, <1>3, <1>6, <2>5, Keeps
<1>7. CASE Setup!BackUp
  <2>1. Head(todo) \in {"backup", "prune"} /\ holds' = holds
    BY <1>7 DEF Setup!BackUp, Setup!Next1
  <2>2. CASE Setup!Goes /\ UNCHANGED late
    BY <1>0, <1>6, <2>1, <2>2
  <2>3. CASE Setup!Ends("failed")
    BY <1>5, <2>1, <2>3
  <2> QED  BY <1>7, <2>2, <2>3 DEF Setup!BackUp
<1>8. CASE Setup!Replace
  <2>1. CASE holds' = [holds EXCEPT !["desktop"] = Setup!After(doing)] /\ Setup!Goes /\ late' = FALSE
    <3>1. Head(todo) = "replace" /\ todo' = Rest /\ UNCHANGED <<doing, disturbed, was, said>>
      BY <1>8, <2>1 DEF Setup!Replace, Setup!Next1, Setup!Goes, Rest
    <3>2. Rest \in Ahead(doing) /\ Head(Rest) = "verify"
      BY <1>2, <3>1, DesktopTurn
    <3>3. holds'["desktop"] = Setup!After(doing) /\ Alters(Setup!After(doing))
      BY <1>1, <1>2, <1>3, <2>1, Altered
    <3>4. AsExpected'
      BY <1>2, <3>1, <3>2, <3>3 DEF AsExpected, Setup!After, Setup!Wanted
    <3>5. SetupInv'
      BY <1>1, <1>3, <2>1, <3>1, <3>2, <3>3, <3>4, GoesOn
    <3>6. Kept
      BY <1>1, <1>2, <1>3, <1>4, <3>1, <3>3, Keeps
    <3> QED  BY <3>5, <3>6
  <2> QED  BY <1>5, <1>8, <2>1 DEF Setup!Replace
<1>9. CASE Setup!Verify
  BY <1>0, <1>5, <1>6, <1>9 DEF Setup!Verify, Setup!Next1
<1>10. CASE Setup!Prune
  <2>1. Head(todo) \in {"backup", "prune"} /\ holds' = holds
    BY <1>10 DEF Setup!Prune, Setup!Next1
  <2>2. CASE Setup!Goes /\ UNCHANGED late
    BY <1>0, <1>6, <2>1, <2>2
  <2>3. CASE Setup!Ends("failed")
    BY <1>5, <2>1, <2>3
  <2> QED  BY <1>10, <2>2, <2>3 DEF Setup!Prune
<1>11. CASE Setup!RollbackRead
  BY <1>0, <1>5, <1>6, <1>11 DEF Setup!RollbackRead, Setup!Next1
<1>12. CASE Setup!RestoreConfig
  <2>1. CASE holds' = [holds EXCEPT !["desktop"] = doing.before] /\ Setup!Ends("reverted")
    <3>1. Head(todo) = "undo restore" /\ Alters(doing.before)
      BY <1>3, <1>12, <2>1 DEF Setup!RestoreConfig, Setup!Next1
    <3>4. SetupInv'
      BY <1>1, <1>3, <2>1, <3>1, Reverted
    <3>5. Kept
      BY <1>1, <1>2, <1>3, <1>4, <3>1, Keeps
    <3> QED  BY <3>4, <3>5
  <2> QED  BY <1>5, <1>12, <2>1 DEF Setup!RestoreConfig
<1> QED  BY <1>7, <1>8, <1>9, <1>10, <1>11, <1>12

\* The steps of a list.
LEMMA ListSteps ==
    ASSUME SetupInv, \/ \E step \in {"remove", "add"} : Setup!RunCommand(step)
                     \/ \E step \in {"undo remove", "undo add"} : Setup!Undo(step)
                     \/ Setup!Redo \/ Setup!Check
    PROVE  SetupInv' /\ Kept
<1>0. late \in BOOLEAN
  BY DEF SetupInv, SetupShape
<1>1. Applying /\ UNCHANGED <<package, receipt, plans>>
  BY DEF Setup!RunCommand, Setup!Undo, Setup!Redo, Setup!Check, Setup!Next1, Applying
<1>2. /\ Head(todo) \in {"remove", "add", "undo remove", "undo add", "redo", "check"} /\ doing.host = "cli"
      /\ todo \in Ahead(doing)
  <2>1. Head(todo) \in {"remove", "add", "undo remove", "undo add", "redo", "check"}
    BY DEF Setup!RunCommand, Setup!Undo, Setup!Redo, Setup!Check, Setup!Next1
  <2> QED  BY <1>1, <2>1, AboutDoing, DesktopTurn, SkillTurn
<1> DEFINE h == holds["cli"]  Put(e) == [h EXCEPT !.entry = e]
<1>3. /\ h \in Holdings /\ (Alters(h) <=> holds' = holds)
      /\ \A e \in Entries : /\ Put(e) \in Holdings /\ Put(e).entry = e /\ Put(e).rest = h.rest
                            /\ Setup!Puts(e) => Alters(Put(e))
  <2>1. h \in Holdings /\ (Alters(h) <=> holds' = holds)
    BY <1>1, <1>2, Still
  <2>2. \A e \in Entries : Put(e) \in Holdings /\ Put(e).entry = e /\ Put(e).rest = h.rest
    BY <2>1 DEF Holdings
  <2>3. \A e \in Entries : Setup!Puts(e) => Alters(Put(e))
    BY <1>2 DEF Setup!Puts, Alters
  <2> QED  BY <2>1, <2>2, <2>3
<1>4. /\ doing.op \in {"configure", "repair", "remove"} /\ doing.package \in Versions
      /\ doing.op # "configure" => doing.owned \in Versions /\ doing.before.entry = doing.owned
      /\ doing.op = "configure" => doing.before.entry = "none"
      /\ ~disturbed => was.entry = doing.before.entry
      /\ ~disturbed => ~late
      /\ ~late => /\ Head(todo) = "remove" => h.entry = doing.owned
                  /\ Head(todo) \in {"add", "redo", "undo add"} => h.entry = "none"
                  /\ Head(todo) = "check" => h.entry = Setup!Wanted(doing)
                  /\ Head(todo) = "undo remove" => h.entry = doing.package
  BY <1>1, <1>2, AboutDoing DEF AsExpected
<1>5. ASSUME NEW report \in {"failed", "recovery"}, Setup!Ends(report), holds' = holds
      PROVE  SetupInv' /\ Kept
  BY <1>1, <1>2, <1>3, <1>5, Keeps, Leaves
\* A command finds an entry to remove, or none in its way.
<1>6. ASSUME NEW e \in Entries, Setup!Can(e), Setup!Puts(e),
             e = "none" => Head(todo) \in {"remove", "undo remove"}
      PROVE  Kept
  <2>1. CASE e = "none"
    BY <1>1, <1>2, <1>3, <1>4, <1>6, <2>1, Keeps
  <2>2. CASE e # "none"
    <3>1. h.entry = "none"
      BY <1>6, <2>2 DEF Setup!Can, Setup!Listed
    <3> QED  BY <1>1, <1>2, <1>3, <1>6, <3>1, Keeps
  <2> QED  BY <2>1, <2>2
<1>7. ASSUME NEW e \in Entries, Setup!Can(e), Setup!Puts(e), NEW report \in {"failed", "recovery"}, Setup!Ends(report),
             e = "none" => Head(todo) \in {"remove", "undo remove"}
      PROVE  SetupInv' /\ Kept
  <2>1. Kept
    BY <1>6, <1>7
  <2> QED  BY <1>1, <1>3, <1>7, <2>1, Leaves
<1>8. ASSUME NEW e \in Entries, Setup!Can(e), Setup!Puts(e), Setup!Goes, late' = late, Rest \in Ahead(doing),
             e = "none" => Head(todo) \in {"remove", "undo remove"},
             Head(Rest) \in {"add", "check", "undo add"},
             IF Head(Rest) = "check" THEN e = Setup!Wanted(doing) ELSE e = "none"
      PROVE  SetupInv' /\ Kept
  <2>1. todo' = Rest /\ UNCHANGED <<doing, disturbed, was, said>>
    BY <1>8 DEF Setup!Goes, Rest
  <2>2. Put(e) \in Holdings /\ Alters(Put(e)) /\ Put(e).entry = e
    BY <1>3, <1>8
  <2> HIDE DEF Put
  <2>3. holds'[doing'.host].entry = e /\ doing'.host = "cli" /\ Head(todo') = Head(Rest)
    BY <1>1, <1>2, <2>1, <2>2, Altered
  <2>4. AsExpected'
    <3>1. Setup!Wanted(doing)' = Setup!Wanted(doing)
      BY <2>1 DEF Setup!Wanted
    <3> QED  BY <1>8, <2>3, <3>1 DEF AsExpected
  <2>5. Kept
    BY <1>6, <1>8
  <2>6. late' \in BOOLEAN /\ (late' => late)
    BY <1>0, <1>8
  <2> QED  BY <1>1, <1>8, <2>1, <2>2, <2>4, <2>5, <2>6, GoesOn
<1>9. ASSUME NEW e \in Entries, Setup!Can(e), Setup!Puts(e), NEW report \in {"reverted", "restored"}, Setup!Ends(report),
             e = doing.before.entry, e = "none" => Head(todo) \in {"remove", "undo remove"}
      PROVE  SetupInv' /\ Kept
  <2>1. Kept
    BY <1>6, <1>9
  <2>2. Put(e) \in Holdings /\ Alters(Put(e)) /\ Put(e).entry = e
    BY <1>3, <1>9
  <2> HIDE DEF Put
  <2> QED  BY <1>1, <1>9, <2>1, <2>2, Reverted
\* Steps that leave the list alone and go on elsewhere.
<1>10. ASSUME holds' = holds, UNCHANGED <<doing, disturbed, was, said>>, todo' \in Ahead(doing),
              late' \in BOOLEAN, late' => late,
              \/ Head(todo') \in {"redo", "undo add"} /\ (~late' => h.entry = "none")
              \/ Head(todo') = "receipt" /\ (~late' => h.entry = Setup!Wanted(doing))
              \/ Head(todo') = "undo remove" /\ (~late' => h.entry = doing.package)
       PROVE  SetupInv' /\ Kept
  <2>1. ASSUME ~late' PROVE AsExpected'
    <3>1. Setup!Wanted(doing)' = Setup!Wanted(doing) /\ holds'[doing'.host] = h /\ doing' = doing
      BY <1>2, <1>10 DEF Setup!Wanted
    <3> QED  BY <1>2, <1>10, <2>1, <3>1 DEF AsExpected
  <2>3. SetupInv'
    BY <1>1, <1>3, <1>10, <2>1, GoesOn
  <2> QED  BY <1>1, <1>2, <1>3, <1>10, <2>3, Keeps
<1>11. ASSUME NEW step \in {"remove", "add"}, Setup!RunCommand(step)
       PROVE  SetupInv' /\ Kept
  <2> DEFINE e == IF step = "remove" THEN "none" ELSE doing.package
  <2>1. Head(todo) = step /\ e \in Entries /\ (e = "none" => Head(todo) = "remove")
    BY <1>4, <1>11 DEF Setup!RunCommand, Setup!Next1, Entries, Versions
  <2>2. CASE Setup!Runs(e) /\ Setup!Goes /\ UNCHANGED late
    <3>1. /\ Rest \in Ahead(doing) /\ Head(Rest) \in {"add", "check", "undo add"}
          /\ Head(Rest) # "check" => e = "none"
          /\ Head(Rest) = "check" => e = Setup!Wanted(doing)
      BY <1>2, <1>4, <2>1, ListTurn DEF Setup!Wanted
    <3> QED  BY <1>8, <2>1, <2>2, <3>1 DEF Setup!Runs
  <2>3. CASE /\ Setup!RunFails \/ Setup!NothingToDo(e)
             /\ IF doing.op = "repair" /\ step = "add"
                THEN todo' = <<"redo">> /\ UNCHANGED <<doing, late, disturbed, was, said>>
                ELSE Setup!Ends("failed")
    <3>1. holds' = holds
      BY <2>3 DEF Setup!RunFails, Setup!NothingToDo
    <3>2. CASE doing.op = "repair" /\ step = "add"
      <4>1. todo' = FromRedo /\ UNCHANGED <<doing, late, disturbed, was, said>>
        BY <2>3, <3>2 DEF FromRedo
      <4>2. todo' \in Ahead(doing) /\ Head(todo') = "redo"
        BY <1>2, <3>2, <4>1, Turns DEF Ahead
      <4>3. ~late => h.entry = "none"
        BY <1>4, <2>1, <3>2
      <4> QED  BY <1>0, <1>10, <3>1, <4>1, <4>2, <4>3
    <3>3. CASE ~(doing.op = "repair" /\ step = "add")
      BY <1>5, <2>3, <3>1, <3>3
    <3> QED  BY <3>2, <3>3
  <2>4. CASE Setup!TimesOut(e) /\ Setup!Ends("failed")
    BY <1>5, <1>7, <2>1, <2>4 DEF Setup!TimesOut
  <2> QED  BY <1>11, <2>2, <2>3, <2>4 DEF Setup!RunCommand
<1>12. ASSUME NEW step \in {"undo remove", "undo add"}, Setup!Undo(step)
       PROVE  SetupInv' /\ Kept
  <2> DEFINE e == IF step = "undo remove" THEN "none" ELSE doing.owned
  <2>1. Head(todo) = step
    BY <1>12 DEF Setup!Undo, Setup!Next1
  <2>2. /\ step = "undo remove" => /\ doing.op # "remove"
                                   /\ IF doing.op = "configure" THEN Len(todo) = 1
                                      ELSE Len(todo) # 1 /\ Rest \in Ahead(doing) /\ Head(Rest) = "undo add"
        /\ step = "undo add" => doing.op # "configure" /\ Len(todo) = 1
    BY <1>2, <1>4, <2>1, ListTurn
  <2>3. e \in Entries /\ (e = "none" => Head(todo) = "undo remove")
    BY <1>4, <2>1, <2>2 DEF Entries, Versions
  <2>4. CASE Setup!Runs(e) /\ Len(todo) = 1 /\ Setup!Ends("reverted")
    <3>1. CASE step = "undo remove"
      <4>1. doing.op = "configure"
        BY <2>2, <2>4, <3>1
      <4> QED  BY <1>4, <3>1, <4>1, <1>9, <2>3, <2>4 DEF Setup!Runs
    <3>2. CASE step = "undo add"
      <4>1. e = doing.before.entry
        BY <1>4, <2>2, <3>2
      <4> QED  BY <1>9, <2>3, <2>4, <4>1 DEF Setup!Runs
    <3> QED  BY <3>1, <3>2
  <2>5. CASE Setup!Runs(e) /\ Len(todo) # 1 /\ Setup!Goes /\ UNCHANGED late
    <3>1. e = "none" /\ Rest \in Ahead(doing) /\ Head(Rest) = "undo add"
      BY <2>2, <2>5
    <3> QED  BY <1>8, <2>3, <2>5, <3>1 DEF Setup!Runs
  <2>6. CASE (Setup!RunFails \/ Setup!NothingToDo(e) \/ Setup!TimesOut(e)) /\ Setup!Ends("recovery")
    <3>1. CASE holds' = holds
      BY <1>5, <2>6, <3>1
    <3>2. CASE Setup!Can(e) /\ Setup!Puts(e)
      BY <1>7, <2>3, <2>6, <3>2
    <3> QED  BY <2>6, <3>1, <3>2 DEF Setup!RunFails, Setup!NothingToDo, Setup!TimesOut
  <2> QED  BY <1>12, <2>4, <2>5, <2>6 DEF Setup!Undo
<1>13. CASE Setup!Redo
  <2> DEFINE e == doing.owned
  <2>1. Head(todo) = "redo" /\ doing.op = "repair"
    BY <1>2, <1>4, <1>13, ListTurn DEF Setup!Redo, Setup!Next1
  <2>2. e \in Entries /\ e # "none" /\ e = doing.before.entry
    BY <1>4, <2>1 DEF Entries, Versions
  <2>3. CASE Setup!Runs(e) /\ Setup!Ends("restored")
    BY <1>9, <2>2, <2>3 DEF Setup!Runs
  <2>4. CASE (Setup!RunFails \/ Setup!NothingToDo(e)) /\ Setup!Ends("recovery")
    BY <1>5, <2>4 DEF Setup!RunFails, Setup!NothingToDo
  <2>5. CASE Setup!TimesOut(e) /\ Setup!Ends("failed")
    BY <1>5, <1>7, <2>2, <2>5 DEF Setup!TimesOut
  <2> QED  BY <1>13, <2>3, <2>4, <2>5 DEF Setup!Redo
<1>14. CASE Setup!Check
  <2>1. Head(todo) = "check" /\ holds' = holds
    BY <1>14 DEF Setup!Check, Setup!Next1
  <2>2. CASE h.entry = Setup!Wanted(doing) /\ Setup!Goes /\ late' = FALSE
    <3>1. todo' = Rest /\ UNCHANGED <<doing, disturbed, was, said>>
      BY <2>2 DEF Setup!Goes, Rest
    <3>2. Rest \in Ahead(doing) /\ Head(Rest) = "receipt"
      BY <1>2, <1>4, <2>1, ListTurn
    <3> QED  BY <1>10, <2>1, <2>2, <3>1, <3>2
  <2>3. CASE todo' = Setup!Rollback(doing.op) /\ UNCHANGED <<doing, late, disturbed, was, said>>
    <3>1. /\ todo' \in Ahead(doing)
          /\ IF doing.op = "remove" THEN Head(todo') = "undo add" ELSE Head(todo') = "undo remove"
      BY <1>2, <1>4, <2>3, Reverts
    <3>2. ~late => h.entry = Setup!Wanted(doing)
      BY <1>4, <2>1
    <3>3. Setup!Wanted(doing) = IF doing.op = "remove" THEN "none" ELSE doing.package
      BY DEF Setup!Wanted
    <3> QED  BY <1>0, <1>10, <2>1, <2>3, <3>1, <3>2, <3>3
  <2>4. CASE Setup!Ends("failed")
    BY <1>5, <2>1, <2>4
  <2> QED  BY <1>14, <2>2, <2>3, <2>4 DEF Setup!Check
<1> QED  BY <1>11, <1>12, <1>13, <1>14

\* The steps of the skill, and the receipt of any host.
LEMMA SkillSteps ==
    ASSUME SetupInv, Setup!Link \/ Setup!Unlink \/ Setup!Unlinked
    PROVE  SetupInv' /\ Kept
<1>0. late \in BOOLEAN
  BY DEF SetupInv, SetupShape
<1>1. Applying /\ UNCHANGED <<package, receipt, plans>>
  BY DEF Setup!Link, Setup!Unlink, Setup!Unlinked, Setup!Next1, Applying
<1>2. /\ Head(todo) \in {"link", "unlink", "undo link"} /\ doing.host = "skill"
      /\ todo \in Ahead(doing) /\ doing.op \in {"configure", "remove"} /\ doing.package \in Versions
  <2>1. Head(todo) \in {"link", "unlink", "undo link"}
    BY DEF Setup!Link, Setup!Unlink, Setup!Unlinked, Setup!Next1
  <2> QED  BY <1>1, <2>1, AboutDoing, DesktopTurn, ListTurn
<1> DEFINE h == holds["skill"]  Put(e) == [h EXCEPT !.entry = e]
<1>3. h \in Holdings /\ (Alters(h) <=> holds' = holds)
  BY <1>1, <1>2, Still
<1>4. \A e \in Entries : Setup!Puts(e) =>
         Put(e) \in Holdings /\ Alters(Put(e)) /\ Put(e).entry = e /\ Put(e).rest = h.rest
  BY <1>2, <1>3 DEF Setup!Puts, Alters, Holdings
<1>5. ASSUME NEW report \in {"failed", "reverted"}, Setup!Ends(report), holds' = holds
      PROVE  SetupInv' /\ Kept
  <2>1. Kept
    BY <1>1, <1>2, <1>3, <1>5, Keeps
  <2>2. CASE report = "failed"
    BY <1>1, <1>3, <1>5, <2>1, <2>2, Leaves
  <2>3. CASE report = "reverted"
    BY <1>1, <1>2, <1>3, <1>5, <2>1, <2>3, Reverted
  <2> QED  BY <2>2, <2>3
<1>6. ASSUME NEW e \in Entries, Setup!Puts(e), h.entry \in {"none", doing.package}
      PROVE  /\ Kept /\ Put(e) \in Holdings /\ Alters(Put(e)) /\ Put(e).entry = e
             /\ Setup!Goes /\ late' = late /\ Rest \in Ahead(doing) /\ Head(Rest) = "receipt" /\ e = Setup!Wanted(doing)
                   => SetupInv'
  <2>1. Put(e) \in Holdings /\ Alters(Put(e)) /\ Put(e).entry = e /\ Put(e).rest = h.rest
    BY <1>4, <1>6
  <2> HIDE DEF Put
  <2>2. Kept
    BY <1>1, <1>2, <1>6, <2>1, Keeps
  <2>3. ASSUME Setup!Goes, late' = late, Rest \in Ahead(doing), Head(Rest) = "receipt", e = Setup!Wanted(doing)
        PROVE  SetupInv'
    <3>1. todo' = Rest /\ UNCHANGED <<doing, disturbed, was, said>>
      BY <2>3 DEF Setup!Goes, Rest
    <3>2. holds'[doing'.host].entry = e /\ doing'.host = "skill" /\ Setup!Wanted(doing)' = Setup!Wanted(doing)
      BY <1>1, <1>2, <2>1, <3>1, Altered DEF Setup!Wanted
    <3>3. AsExpected'
      BY <2>3, <3>1, <3>2 DEF AsExpected
    <3>4. late' \in BOOLEAN /\ (late' => late)
      BY <1>0, <2>3
    <3> QED  BY <1>1, <2>1, <2>3, <3>1, <3>3, <3>4, GoesOn
  <2> QED  BY <2>1, <2>2, <2>3
<1>7. CASE Setup!Link
  <2>1. Head(todo) = "link"
    BY <1>7 DEF Setup!Link, Setup!Next1
  <2>2. doing.op = "configure" /\ Rest \in Ahead(doing) /\ Head(Rest) = "receipt" /\ doing.package \in Entries
    BY <1>2, <2>1, SkillTurn DEF Entries
  <2>3. doing.package = Setup!Wanted(doing)
    BY <2>2 DEF Setup!Wanted
  <2>4. CASE h.entry = "none" /\ Setup!Puts(doing.package) /\ Setup!Goes /\ UNCHANGED late
    BY <1>6, <2>2, <2>3, <2>4
  <2> QED  BY <1>5, <1>7, <2>4 DEF Setup!Link
<1>8. CASE Setup!Unlink
  <2>1. Head(todo) = "unlink"
    BY <1>8 DEF Setup!Unlink, Setup!Next1
  <2>2. doing.op = "remove" /\ Rest \in Ahead(doing) /\ Head(Rest) = "receipt" /\ "none" \in Entries
    BY <1>2, <2>1, SkillTurn DEF Entries
  <2>3. "none" = Setup!Wanted(doing)
    BY <2>2 DEF Setup!Wanted
  <2>4. CASE Setup!Exact /\ Setup!Puts("none") /\ Setup!Goes /\ UNCHANGED late
    BY <1>6, <2>2, <2>3, <2>4 DEF Setup!Exact
  <2> QED  BY <1>5, <1>8, <2>4 DEF Setup!Unlink
<1>9. CASE Setup!Unlinked
  <2>1. Setup!Ends("reverted")
    BY <1>9 DEF Setup!Unlinked
  <2>2. CASE Setup!Exact /\ Setup!Puts("none")
    <3>1. "none" \in Entries /\ h.entry \in {"none", doing.package}
      BY <2>2 DEF Setup!Exact, Entries
    <3>2. Kept /\ Put("none") \in Holdings /\ Alters(Put("none"))
      BY <1>6, <2>2, <3>1
    <3> HIDE DEF Put
    <3> QED  BY <1>1, <1>2, <2>1, <3>2, Reverted
  <2> QED  BY <1>5, <1>9, <2>1, <2>2 DEF Setup!Unlinked
<1> QED  BY <1>7, <1>8, <1>9

LEMMA ReceiptStep ==
    ASSUME SetupInv, Setup!RecordReceipt
    PROVE  SetupInv' /\ Kept
<1>1. Applying /\ UNCHANGED <<package, holds, plans>> /\ Head(todo) = "receipt"
  BY DEF Setup!RecordReceipt, Setup!Next1, Applying
<1> DEFINE h == holds[doing.host]
<1>2. h \in Holdings /\ Alters(h)
  BY <1>1, Still
<1> HIDE DEF h
<1>3. Kept
  BY <1>1 DEF Kept, Hosts
<1>4. CASE receipt' = [receipt EXCEPT ![doing.host] = Setup!Wanted(doing)] /\ Setup!Ends("done")
  <2>1. ~disturbed => Setup!Wanted(doing) = h.entry
    <3>1. ~disturbed => AsExpected
      BY <1>1, AboutDoing
    <3>2. /\ doing.host \in {"desktop", "cli", "skill"} /\ Setup!After(doing).entry = Setup!Wanted(doing)
      BY <1>1, AboutDoing
    <3> QED  BY <1>1, <3>1, <3>2 DEF AsExpected, h
  <2>2. Setup!Wanted(doing) \in Entries /\ plans' \subseteq plans /\ package' = package
    BY <1>1, AboutDoing
  <2> QED  BY <1>1, <1>2, <1>3, <1>4, <2>1, <2>2, EndsSo
<1>5. CASE UNCHANGED receipt /\ Setup!Ends("recovery")
  BY <1>1, <1>2, <1>3, <1>5, Leaves
<1>6. CASE /\ UNCHANGED receipt /\ ~(doing.host = "skill" /\ doing.op = "remove")
           /\ todo' = Setup!WithoutReceipt(doing) /\ UNCHANGED <<doing, late, disturbed, was, said>>
  <2>0. late' \in BOOLEAN /\ (late' => late)
    BY <1>6 DEF SetupInv, SetupShape
  <2>1. ~late => AsExpected
    BY <1>1, AboutDoing
  <2>2. /\ doing.host \in {"desktop", "cli", "skill"} /\ doing.op \in {"configure", "repair", "remove"}
        /\ doing.host = "skill" => doing.op # "repair"
    BY <1>1, AboutDoing
  <2>3. UNCHANGED <<doing, holds>> /\ Setup!After(doing)' = Setup!After(doing) /\ Setup!Wanted(doing)' = Setup!Wanted(doing)
    BY <1>1, <1>6 DEF Setup!After, Setup!Wanted
  <2>4. CASE doing.host = "desktop"
    <3>1. todo' = FromUndoRead
      BY <1>6, <2>4 DEF Setup!WithoutReceipt, FromUndoRead
    <3>2. todo' \in Ahead(doing) /\ Head(todo') = "undo read"
      BY <2>4, <3>1, Turns DEF Ahead
    <3>3. ~late' => AsExpected'
      BY <1>1, <1>6, <2>1, <2>3, <2>4, <3>2 DEF AsExpected
    <3> QED  BY <1>1, <1>2, <1>3, <1>6, <2>0, <3>2, <3>3, GoesOn
  <2>5. CASE doing.host = "cli"
    <3>1. todo' = Setup!Rollback(doing.op)
      BY <1>6, <2>5 DEF Setup!WithoutReceipt
    <3>2. todo' \in Ahead(doing) /\ Head(todo') = IF doing.op = "remove" THEN "undo add" ELSE "undo remove"
      BY <2>2, <2>5, <3>1, Reverts
    <3>3. Setup!Wanted(doing) = IF doing.op = "remove" THEN "none" ELSE doing.package
      BY DEF Setup!Wanted
    <3>4. ~late' => AsExpected'
      BY <1>1, <1>6, <2>1, <2>3, <2>5, <3>2, <3>3 DEF AsExpected
    <3> QED  BY <1>1, <1>2, <1>3, <1>6, <2>0, <3>2, <3>4, GoesOn
  <2>6. CASE doing.host = "skill"
    <3>1. todo' = FromUndoLink
      BY <1>6, <2>6 DEF Setup!WithoutReceipt, FromUndoLink
    <3>2. todo' \in Ahead(doing) /\ Head(todo') = "undo link"
      BY <1>6, <2>2, <2>6, <3>1, Turns DEF Ahead
    <3>3. AsExpected'
      BY <2>3, <2>6, <3>2 DEF AsExpected
    <3> QED  BY <1>1, <1>2, <1>3, <1>6, <2>0, <3>2, <3>3, GoesOn
  <2> QED  BY <2>2, <2>4, <2>5, <2>6
<1> QED  BY <1>3, <1>4, <1>5, <1>6 DEF Setup!RecordReceipt

LEMMA SetupBegins ==
    ASSUME NEW hs, package = "old", holds = [h \in hs |-> [entry |-> "none", rest |-> 0]],
           receipt = [h \in hs |-> "none"], plans = {}, doing = Setup!NoPlan, late = FALSE, disturbed = FALSE,
           was = Setup!Untold.was, said = [h \in hs |-> Setup!Untold]
    PROVE  SetupInv /\ Hosts = hs
<1>1. Hosts = hs /\ ~Applying
  BY DEF Hosts, Applying
<1>2. Setup!Untold \in Reports /\ Setup!Untold.report = "none" /\ Setup!Untold.was \in [entry : Entries, receipt : Entries]
  BY DEF Setup!Untold, Reports, Entries
<1>3. [entry |-> "none", rest |-> 0] \in Holdings
  BY DEF Holdings, Entries
<1>4. SetupShape
  BY <1>1, <1>2, <1>3 DEF SetupShape, Entries, Versions
<1>5. ApplyingKnows /\ ReviewsHold /\ ReportsHold
  BY <1>1, <1>2 DEF ApplyingKnows, ReviewsHold, ReportsHold
<1> QED  BY <1>1, <1>4, <1>5 DEF SetupInv

LEMMA SetupStart ==
    /\ Setup!SetupInit => SetupInv /\ Hosts = {"desktop", "cli", "skill"}
    /\ Lists!SetupInit => SetupInv /\ Hosts = {"cli"}
<1>1. ASSUME Setup!SetupInit PROVE SetupInv /\ Hosts = {"desktop", "cli", "skill"}
  BY <1>1, SetupBegins DEF Setup!SetupInit
<1>2. ASSUME Lists!SetupInit PROVE SetupInv /\ Hosts = {"cli"}
  <2>1. Lists!NoPlan = Setup!NoPlan /\ Lists!Untold = Setup!Untold
    BY DEF Lists!NoPlan, Setup!NoPlan, Lists!Untold, Setup!Untold
  <2> QED  BY <1>2, <2>1, SetupBegins DEF Lists!SetupInit
<1> QED  BY <1>1, <1>2

\* The steps both instances have.
CommonStep ==
    \/ \E p \in plans : Setup!Expire(p) \/ Setup!Apply(p)
    \/ Setup!BackUp \/ Setup!Replace \/ Setup!Verify \/ Setup!Prune \/ Setup!RollbackRead \/ Setup!RestoreConfig
    \/ \E step \in {"remove", "add"} : Setup!RunCommand(step)
    \/ \E step \in {"undo remove", "undo add"} : Setup!Undo(step)
    \/ Setup!Redo \/ Setup!Check \/ Setup!Link \/ Setup!Unlink \/ Setup!Unlinked \/ Setup!RecordReceipt
    \/ Setup!Update \/ Setup!Quit

LEMMA CommonSteps ==
    ASSUME SetupInv, CommonStep
    PROVE  SetupInv' /\ Kept
<1>1. ASSUME NEW p \in plans, Setup!Expire(p) PROVE SetupInv' /\ UNCHANGED holds
  BY <1>1, FewerPlans DEF Setup!Expire, Setup!apply, SetupInv, SetupShape
<1>2. ASSUME NEW p \in plans, Setup!Apply(p) PROVE SetupInv' /\ UNCHANGED holds
  BY <1>2, ApplyStep DEF Setup!Apply
<1>3. CASE Setup!Update \/ Setup!Quit
  <2>1. UNCHANGED holds
    BY <1>3 DEF Setup!Update, Setup!Quit
  <2> QED  BY <1>3, <2>1, UpdateStep, QuitStep DEF Kept, Hosts
<1>4. UNCHANGED holds => Kept
  BY DEF Kept, Hosts
<1> QED  BY <1>1, <1>2, <1>3, <1>4, FileSteps, ListSteps, SkillSteps, ReceiptStep DEF CommonStep

LEMMA SetupStep ==
    ASSUME SetupInv, Hosts = {"desktop", "cli", "skill"}, Setup!SetupNext
    PROVE  SetupInv' /\ Hosts' = Hosts /\ Setup!KeepsForeign
<1>1. ASSUME NEW h \in Hosts, NEW op \in {"configure", "repair", "remove"}, Setup!Review(h, op)
      PROVE  SetupInv' /\ UNCHANGED holds
  <2>1. /\ ~Applying /\ Setup!Offers(op, Setup!Inspect(h)) /\ h \in {"desktop", "cli", "skill"}
        /\ UNCHANGED <<package, holds, receipt, doing, todo, late, disturbed, was, said>>
    BY <1>1 DEF Setup!Review, Setup!apply, Applying
  <2>2. PICK id : Reviews(h, op, id)
    BY <1>1, Zenon DEF Setup!Review, Reviews
  <2> QED  BY <1>1, <2>1, <2>2, ReviewStep
<1>2. ASSUME NEW h \in Hosts, Setup!Edit(h) PROVE SetupInv' /\ Hosts' = Hosts /\ Setup!KeepsForeign
  <2>1. Hosts' = Hosts /\ \A k \in Hosts : k # h => holds'[k] = holds[k]
    BY <1>2 DEF Setup!Edit, SetupInv, SetupShape, Hosts
  <2> QED  BY <1>2, <2>1, EditStep DEF Setup!KeepsForeign
<1>3. CASE CommonStep
  BY <1>3, CommonSteps DEF Kept, Setup!KeepsForeign
<1>4. UNCHANGED holds => Hosts' = Hosts /\ Setup!KeepsForeign
  BY DEF Hosts, Setup!KeepsForeign
<1> QED  BY <1>1, <1>2, <1>3, <1>4 DEF Setup!SetupNext, CommonStep, Setup!Operations

\* The one instance is the other with fewer hosts and more plans.
LEMMA SameWords ==
    /\ Lists!NoPlan = Setup!NoPlan /\ Lists!Untold = Setup!Untold /\ Lists!Promises = Setup!Promises
    /\ Lists!Entries = Setup!Entries /\ Lists!Operations = Setup!Operations
    /\ (Lists!Event <=> Setup!Event) /\ (Lists!Fails <=> Setup!Fails) /\ (Lists!Works <=> Setup!Works)
    /\ (UNCHANGED Lists!apply) <=> (UNCHANGED Setup!apply)
    /\ \A step : Lists!Next1(step) <=> Setup!Next1(step)
    /\ (Lists!Goes <=> Setup!Goes) /\ \A report : Lists!Ends(report) <=> Setup!Ends(report)
    /\ \A e : Lists!Puts(e) <=> Setup!Puts(e)
    /\ \A p : Lists!Wanted(p) = Setup!Wanted(p) /\ Lists!After(p) = Setup!After(p)
    /\ \A h, left : Lists!Overtaken(h, left) = Setup!Overtaken(h, left)
    /\ \A op : Lists!Rollback(op) = Setup!Rollback(op)
BY Zenon DEF Lists!NoPlan, Setup!NoPlan, Lists!Untold, Setup!Untold, Lists!Promises, Setup!Promises,
    Lists!Entries, Setup!Entries, Lists!Operations, Setup!Operations, Lists!Event, Setup!Event,
    Lists!Fails, Setup!Fails, Lists!Works, Setup!Works, Lists!apply, Setup!apply, Lists!Next1, Setup!Next1,
    Lists!Goes, Setup!Goes, Lists!Ends, Setup!Ends, Lists!Puts, Setup!Puts, Lists!Wanted, Setup!Wanted,
    Lists!After, Setup!After, Lists!Overtaken, Setup!Overtaken, Lists!Rollback, Setup!Rollback

LEMMA SameReview ==
    /\ \A h, op : Lists!Offers(op, Lists!Inspect(h)) <=> Setup!Offers(op, Setup!Inspect(h))
    /\ \A p : (Lists!Steps(p) = Setup!Steps(p)) /\ (Lists!StillReviewed(p) <=> Setup!StillReviewed(p))
BY Zenon DEF Lists!Offers, Setup!Offers, Lists!Inspect, Setup!Inspect, Lists!Steps, Setup!Steps,
    Lists!Commands, Setup!Commands, Lists!StillReviewed, Setup!StillReviewed, Lists!Owned, Setup!Owned

LEMMA SameFile ==
    /\ (Lists!BackUp <=> Setup!BackUp) /\ (Lists!Replace <=> Setup!Replace) /\ (Lists!Verify <=> Setup!Verify)
    /\ (Lists!Prune <=> Setup!Prune) /\ (Lists!RollbackRead <=> Setup!RollbackRead)
    /\ Lists!RestoreConfig <=> Setup!RestoreConfig
<1>1. \A S : Lists!Min(S) = Setup!Min(S)
  BY Zenon DEF Lists!Min, Setup!Min
<1>2. (Lists!BackUp <=> Setup!BackUp) /\ (Lists!Replace <=> Setup!Replace) /\ (Lists!Verify <=> Setup!Verify)
  BY SameWords DEF Lists!BackUp, Setup!BackUp, Lists!Replace, Setup!Replace, Lists!Verify, Setup!Verify
<1>3. Lists!Prune <=> Setup!Prune
  BY <1>1, SameWords DEF Lists!Prune, Setup!Prune
<1>4. (Lists!RollbackRead <=> Setup!RollbackRead) /\ (Lists!RestoreConfig <=> Setup!RestoreConfig)
  BY SameWords DEF Lists!RollbackRead, Setup!RollbackRead, Lists!RestoreConfig, Setup!RestoreConfig
<1> QED  BY <1>2, <1>3, <1>4

LEMMA SameList ==
    /\ \A step : Lists!RunCommand(step) <=> Setup!RunCommand(step)
    /\ \A step : Lists!Undo(step) <=> Setup!Undo(step)
    /\ (Lists!Redo <=> Setup!Redo) /\ (Lists!Check <=> Setup!Check)
<1>1. \A e : (Lists!Runs(e) <=> Setup!Runs(e)) /\ (Lists!NothingToDo(e) <=> Setup!NothingToDo(e))
             /\ (Lists!TimesOut(e) <=> Setup!TimesOut(e))
  BY SameWords DEF Lists!Runs, Setup!Runs, Lists!NothingToDo, Setup!NothingToDo, Lists!TimesOut, Setup!TimesOut,
     Lists!Can, Setup!Can, Lists!Listed, Setup!Listed
<1>2. Lists!RunFails <=> Setup!RunFails
  BY SameWords DEF Lists!RunFails, Setup!RunFails
<1>3. \A step : Lists!RunCommand(step) <=> Setup!RunCommand(step)
  BY <1>1, <1>2, SameWords DEF Lists!RunCommand, Setup!RunCommand
<1>4. \A step : Lists!Undo(step) <=> Setup!Undo(step)
  BY <1>1, <1>2, SameWords DEF Lists!Undo, Setup!Undo
<1>5. (Lists!Redo <=> Setup!Redo) /\ (Lists!Check <=> Setup!Check)
  BY <1>1, <1>2, SameWords DEF Lists!Redo, Setup!Redo, Lists!Check, Setup!Check
<1> QED  BY <1>3, <1>4, <1>5

LEMMA SameRest ==
    /\ (Lists!Link <=> Setup!Link) /\ (Lists!Unlink <=> Setup!Unlink) /\ (Lists!Unlinked <=> Setup!Unlinked)
    /\ (Lists!RecordReceipt <=> Setup!RecordReceipt)
    /\ (Lists!Update <=> Setup!Update) /\ (Lists!Quit <=> Setup!Quit)
    /\ \A h : Lists!Edit(h) <=> Setup!Edit(h)
    /\ \A p : (Lists!Expire(p) <=> Setup!Expire(p)) /\ (Lists!Apply(p) <=> Setup!Apply(p))
<1>1. (Lists!Link <=> Setup!Link) /\ (Lists!Unlink <=> Setup!Unlink) /\ (Lists!Unlinked <=> Setup!Unlinked)
  BY SameWords DEF Lists!Link, Setup!Link, Lists!Unlink, Setup!Unlink, Lists!Unlinked, Setup!Unlinked,
     Lists!Exact, Setup!Exact
<1>2. Lists!RecordReceipt <=> Setup!RecordReceipt
  <2>1. \A p : Lists!WithoutReceipt(p) = Setup!WithoutReceipt(p)
    BY Zenon, SameWords DEF Lists!WithoutReceipt, Setup!WithoutReceipt
  <2> QED  BY <2>1, SameWords DEF Lists!RecordReceipt, Setup!RecordReceipt
<1>3. (Lists!Update <=> Setup!Update) /\ (Lists!Quit <=> Setup!Quit) /\ \A h : Lists!Edit(h) <=> Setup!Edit(h)
  BY SameWords DEF Lists!Update, Setup!Update, Lists!Quit, Setup!Quit, Lists!Edit, Setup!Edit
<1>4. \A p : (Lists!Expire(p) <=> Setup!Expire(p)) /\ (Lists!Apply(p) <=> Setup!Apply(p))
  BY SameWords, SameReview DEF Lists!Expire, Setup!Expire, Lists!Apply, Setup!Apply
<1> QED  BY <1>1, <1>2, <1>3, <1>4

LEMMA ListsStep ==
    ASSUME SetupInv, Hosts = {"cli"}, Lists!SetupNext
    PROVE  SetupInv' /\ Hosts' = Hosts /\ Lists!KeepsForeign
<1>1. ASSUME NEW h \in Hosts, NEW op \in {"configure", "repair", "remove"}, Lists!Review(h, op)
      PROVE  SetupInv' /\ UNCHANGED holds
  <2>1. /\ ~Applying /\ Setup!Offers(op, Setup!Inspect(h)) /\ h \in {"desktop", "cli", "skill"}
        /\ UNCHANGED <<package, holds, receipt, doing, todo, late, disturbed, was, said>>
    BY <1>1, SameWords, SameReview DEF Lists!Review, Lists!apply, Applying
  <2>2. PICK id : Reviews(h, op, id)
    BY <1>1, Zenon DEF Lists!Review, Reviews
  <2> QED  BY <1>1, <2>1, <2>2, ReviewStep
<1>2. ASSUME NEW h \in Hosts, Lists!Edit(h) PROVE SetupInv' /\ Hosts' = Hosts /\ Lists!KeepsForeign
  <2>1. Hosts' = Hosts /\ \A k \in Hosts : k # h => holds'[k] = holds[k]
    BY <1>2 DEF Lists!Edit, SetupInv, SetupShape, Hosts
  <2>2. Setup!Edit(h)
    BY <1>2, SameRest
  <2> QED  BY <1>2, <2>1, <2>2, EditStep DEF Lists!KeepsForeign
<1>3. CASE CommonStep
  BY <1>3, CommonSteps DEF Kept, Lists!KeepsForeign
<1>4. UNCHANGED holds => Hosts' = Hosts /\ Lists!KeepsForeign
  BY DEF Hosts, Lists!KeepsForeign
<1>5. CommonStep \/ (\E h \in Hosts, op \in {"configure", "repair", "remove"} : Lists!Review(h, op))
                 \/ \E h \in Hosts : Lists!Edit(h)
  BY SameFile, SameList, SameRest DEF Lists!SetupNext, CommonStep, Lists!Operations
<1> QED  BY <1>1, <1>2, <1>3, <1>4, <1>5

LEMMA SetupStutters == SetupInv /\ UNCHANGED setupVars => SetupInv' /\ Hosts' = Hosts
<1> SUFFICES ASSUME SetupInv, UNCHANGED setupVars PROVE SetupInv' /\ Hosts' = Hosts
  OBVIOUS
<1> QED  BY FewerPlans DEF setupVars, SetupInv, SetupShape, Hosts

LEMMA SetupReports ==
    ASSUME SetupInv
    PROVE  /\ Hosts = {"desktop", "cli", "skill"} => Setup!ReportsAreTrue
           /\ Hosts = {"cli"} => Lists!ReportsAreTrue
BY DEF SetupInv, ReportsHold, Setup!ReportsAreTrue, Lists!ReportsAreTrue

--------------------------------------------------------------------------------
(* The bridge agents connect to.                                           *)

\* The listener of an instance has not ended.
Listens(i) == listener[i] \in {"listening", "failed"}
BridgeShape ==
    /\ desk \in {"idle", "starting", "joining"} /\ ready \in BOOLEAN
    /\ {runtime, stopping, descriptor} \subseteq Instances \cup {NoInstance}
    /\ listener \in [Instances -> {"none", "listening", "failed", "ended"}]
    /\ thread \in [Streams -> {"none", "backlog", "reading", "ended"}]
    /\ server \in [Streams -> Instances \cup {NoInstance}]
    /\ \A s \in Streams : thread[s] \in {"backlog", "reading"} => server[s] \in Instances
\* What runs is the runtime, or what the desktop's thread is stopping.
OneListens ==
    /\ desk = "joining" => runtime = NoInstance
    /\ desk # "joining" => stopping = NoInstance
    /\ ~up => desk = "idle"
    /\ \A i \in Instances : Listens(i) => i \in {runtime, stopping}
    /\ \A s \in Streams : Bridge!Alive(s) => Listens(server[s])
    /\ ready => runtime # NoInstance \/ desk = "joining"
    /\ runtime # NoInstance => descriptor \in {runtime, NoInstance}
\* Nothing is under way on a stream; one frame is, and it is of the latest request.
Quiet(s) == request[s][2] = "none" /\ answers[s] = <<>>
OneFrame(s) ==
    \/ request[s][1] = asked /\ request[s][2] # "none" /\ answers[s] = <<>>
    \/ request[s][2] = "none" /\ \E a : answers[s] = <<a>> /\ a[1] = asked
ClientShape ==
    /\ {bridge, fresh} \subseteq Streams \cup {NoStream}
    /\ point \in {"idle", "hello", "proving", "finishing", "calling", "beating"}
    /\ goal \in {"none", "call", "beat", "refresh"}
    /\ DOMAIN request = Streams /\ DOMAIN answers = Streams
    /\ point # "idle" => goal # "none"
    /\ point \in {"hello", "proving"} => fresh # NoStream /\ bridge # fresh
    /\ point \notin {"hello", "proving"} => fresh = NoStream
    /\ point \in {"finishing", "calling", "beating"} => bridge # NoStream
\* The client's connections carry what it waits for, and one never used carries nothing.
FramesKnown ==
    /\ \A s \in {bridge, fresh} \ {NoStream} : thread[s] # "none"
    /\ \A s \in Streams : thread[s] = "none" => Quiet(s)
    /\ point # "idle" => OneFrame(Bridge!Waiting)
    /\ bridge # NoStream /\ point \in {"idle", "hello", "proving"} => Quiet(bridge)
StopInv == BridgeShape /\ OneListens
WireInv == ClientShape /\ FramesKnown
BridgeInv == StopInv /\ WireInv

LEMMA BridgeStart == Bridge!BridgeInit => BridgeInv
<1> SUFFICES ASSUME Bridge!BridgeInit PROVE BridgeInv
  OBVIOUS
<1>1. BridgeShape /\ OneListens
  BY DEF Bridge!BridgeInit, BridgeShape, OneListens, Listens, Bridge!Alive
<1>2. \A s \in Streams : Quiet(s)
  BY DEF Bridge!BridgeInit, Bridge!NoRequest, Quiet
<1>3. ClientShape /\ FramesKnown
  BY <1>2 DEF Bridge!BridgeInit, ClientShape, FramesKnown
<1> QED  BY <1>1, <1>3 DEF BridgeInv, StopInv, WireInv

LEMMA StopStutters ==
    StopInv /\ UNCHANGED <<up, desk, runtime, stopping, listener, ready, descriptor, thread, server>> => StopInv'
BY DEF StopInv, BridgeShape, OneListens, Listens, Bridge!Alive

LEMMA StopByCommand ==
    ASSUME StopInv, Bridge!Enable \/ Bridge!StartAgain \/ Bridge!StartBridge \/ Bridge!StartFails
                    \/ Bridge!Disable \/ Bridge!FinishStop \/ Bridge!Crash \/ Bridge!Restart
    PROVE  StopInv'
<1> USE DEF StopInv, BridgeShape, OneListens, Listens, Bridge!Alive
<1>1. CASE Bridge!Enable
  BY <1>1 DEF Bridge!Enable, Bridge!endpoint, Bridge!wires
<1>2. CASE Bridge!StartAgain
  BY <1>2 DEF Bridge!StartAgain, Bridge!Disabled, Bridge!wires
<1>3. CASE Bridge!StartBridge
  BY <1>3, BridgeConstants DEF Bridge!StartBridge, Bridge!wires
<1>4. CASE Bridge!StartFails
  <2>1. /\ runtime = NoInstance /\ desk = "starting" /\ desk' = "idle" /\ ready' = FALSE
        /\ UNCHANGED <<up, runtime, stopping, thread, server>>
    BY <1>4 DEF Bridge!StartFails, Bridge!Disabled, Bridge!wires
  <2>2. CASE descriptor' = NoInstance /\ UNCHANGED listener
    BY <2>1, <2>2, BridgeConstants
  <2>3. CASE \E i \in Instances : listener[i] = "none" /\ descriptor' = i /\ listener' = [listener EXCEPT ![i] = "ended"]
    <3>1. PICK i \in Instances : listener[i] = "none" /\ descriptor' = i /\ listener' = [listener EXCEPT ![i] = "ended"]
      BY <2>3
    <3>2. \A k \in Instances : k # i => listener'[k] = listener[k]
      BY <3>1
    <3>3. listener'[i] = "ended" /\ listener' \in [Instances -> {"none", "listening", "failed", "ended"}]
      BY <3>1
    <3>4. \A s \in Streams : thread[s] = "reading" => server[s] # i
      BY <3>1
    <3> QED  BY <2>1, <3>1, <3>2, <3>3, <3>4
  <2> QED  BY <1>4, <2>2, <2>3 DEF Bridge!StartFails
<1>5. CASE Bridge!Disable
  BY <1>5, BridgeConstants DEF Bridge!Disable, Bridge!endpoint, Bridge!wires
<1>6. CASE Bridge!FinishStop
  BY <1>6, BridgeConstants DEF Bridge!FinishStop, Bridge!Joined, Bridge!Disabled, Bridge!wires
<1>7. CASE Bridge!Crash
  <2>1. /\ desk' = "idle" /\ runtime' = NoInstance /\ stopping' = NoInstance /\ ready' = FALSE
        /\ UNCHANGED <<descriptor, server>>
    BY <1>7 DEF Bridge!Crash
  <2>2. /\ listener' \in [Instances -> {"none", "listening", "failed", "ended"}]
        /\ \A i \in Instances : listener'[i] \in {"none", "ended"}
    BY <1>7 DEF Bridge!Crash
  <2>3. /\ thread' \in [Streams -> {"none", "backlog", "reading", "ended"}]
        /\ \A s \in Streams : thread'[s] \in {"none", "ended"}
    BY <1>7 DEF Bridge!Crash
  <2> QED  BY <2>1, <2>2, <2>3
<1>8. CASE Bridge!Restart
  <2>1. /\ ~up /\ up' = TRUE /\ desk' \in {"starting", "idle"}
        /\ UNCHANGED <<runtime, stopping, listener, ready, descriptor, thread, server>>
    BY <1>8 DEF Bridge!Restart, Bridge!endpoint, Bridge!wires
  <2> QED  BY <2>1
<1> QED  BY <1>1, <1>2, <1>3, <1>4, <1>5, <1>6, <1>7, <1>8

LEMMA StopByOthers ==
    ASSUME StopInv, Bridge!Expire \/ \E p \in Profiles : Bridge!ApprovePairing(p) \/ Bridge!Pair(p) \/ Bridge!Refuse(p)
    PROVE  StopInv'
BY StopStutters DEF Bridge!Expire, Bridge!ApprovePairing, Bridge!Pair, Bridge!Refuse, Bridge!desktopVars,
   Bridge!endpoint, Bridge!wires

LEMMA StopByServer ==
    ASSUME StopInv, Bridge!ServerStep
    PROVE  StopInv'
<1>1. ASSUME NEW s \in Streams, Bridge!Accept(s) PROVE StopInv'
  <2>1. /\ thread[s] = "backlog" /\ listener[server[s]] = "listening"
        /\ UNCHANGED <<up, desk, runtime, stopping, listener, ready, descriptor, server>>
    BY <1>1 DEF Bridge!Accept, Bridge!desktopVars, Bridge!endpoint
  <2>2. PICK now \in {"reading", "ended"} : thread' = [thread EXCEPT ![s] = now]
    BY <1>1 DEF Bridge!Accept
  <2> QED  BY <1>1, <2>1, <2>2 DEF StopInv, BridgeShape, OneListens, Listens, Bridge!Alive
<1>2. ASSUME NEW s \in Streams, Bridge!Handle(s) PROVE StopInv'
  BY <1>2, StopStutters DEF Bridge!Handle, Bridge!desktopVars, Bridge!endpoint
<1>3. ASSUME NEW s \in Streams, Bridge!HandleTorn(s) PROVE StopInv'
  BY <1>3, StopStutters DEF Bridge!HandleTorn, Bridge!desktopVars, Bridge!endpoint
<1>4. ASSUME NEW s \in Streams, Bridge!EndThread(s) PROVE StopInv'
  BY <1>4 DEF Bridge!EndThread, StopInv, BridgeShape, OneListens, Listens, Bridge!Alive, Bridge!desktopVars, Bridge!endpoint
<1>5. ASSUME NEW i \in Instances, Bridge!AcceptFails(i) PROVE StopInv'
  BY <1>5 DEF Bridge!AcceptFails, StopInv, BridgeShape, OneListens, Listens, Bridge!Alive, Bridge!desktopVars, Bridge!wires
<1>6. ASSUME NEW i \in Instances, Bridge!ListenerEnds(i) PROVE StopInv'
  <2>1. /\ \A s \in Streams : server[s] = i => thread[s] # "reading"
        /\ listener' = [listener EXCEPT ![i] = "ended"] /\ ready' = FALSE /\ descriptor' = NoInstance
        /\ UNCHANGED <<up, desk, runtime, stopping, server>>
    BY <1>6 DEF Bridge!ListenerEnds, Bridge!Alive, Bridge!OfBridge, Bridge!desktopVars
  <2>2. /\ thread' \in [Streams -> {"none", "backlog", "reading", "ended"}]
        /\ \A s \in Streams : thread'[s] \in {thread[s], "ended"}
    BY <1>6 DEF Bridge!ListenerEnds, StopInv, BridgeShape
  <2> QED  BY <1>6, <2>1, <2>2 DEF StopInv, BridgeShape, OneListens, Listens, Bridge!Alive
<1> QED  BY <1>1, <1>2, <1>3, <1>4, <1>5, <1>6 DEF Bridge!ServerStep

LEMMA StopByClient ==
    ASSUME StopInv, Bridge!ClientStep
    PROVE  StopInv'
<1>1. ASSUME NEW kind, Bridge!Connect(kind) PROVE StopInv'
  <2>1. UNCHANGED <<up, desk, runtime, stopping, listener, ready, descriptor>>
    BY <1>1 DEF Bridge!Connect, Bridge!desktopVars, Bridge!endpoint
  <2>2. CASE UNCHANGED <<thread, server>>
    BY <2>1, <2>2, StopStutters
  <2>3. CASE /\ descriptor # NoInstance /\ listener[descriptor] \in {"listening", "failed"}
             /\ \E s \in Streams : /\ thread[s] = "none" /\ thread' = [thread EXCEPT ![s] = "backlog"]
                                   /\ server' = [server EXCEPT ![s] = descriptor]
    <3>1. PICK s \in Streams : /\ thread[s] = "none" /\ thread' = [thread EXCEPT ![s] = "backlog"]
                               /\ server' = [server EXCEPT ![s] = descriptor]
      BY <2>3
    <3>2. descriptor \in Instances
      BY <2>3 DEF StopInv, BridgeShape
    <3> QED  BY <2>1, <3>1, <3>2 DEF StopInv, BridgeShape, OneListens, Listens, Bridge!Alive
  <2> QED  BY <1>1, <2>2, <2>3 DEF Bridge!Connect
<1>2. ASSUME NEW kind, Bridge!Call(kind) \/ Bridge!FinishPairing(kind) PROVE StopInv'
  BY <1>2, StopStutters DEF Bridge!Call, Bridge!FinishPairing, Bridge!desktopVars, Bridge!endpoint
<1>3. CASE Bridge!GotPairing \/ Bridge!GotUnknown \/ Bridge!GotChallenge \/ Bridge!GotLease \/ Bridge!StillPending
           \/ Bridge!GotAnswer \/ Bridge!GotBeat \/ Bridge!ConnectFails \/ Bridge!TransportFails \/ Bridge!RestartClient
  <2>1. UNCHANGED <<up, desk, runtime, stopping, listener, ready, descriptor, thread, server>>
    BY <1>3 DEF Bridge!GotPairing, Bridge!GotUnknown, Bridge!GotChallenge, Bridge!GotLease, Bridge!StillPending,
       Bridge!GotAnswer, Bridge!GotBeat, Bridge!ConnectFails, Bridge!TransportFails, Bridge!RestartClient,
       Bridge!desktopVars, Bridge!endpoint
  <2> QED  BY <2>1, StopStutters
<1> QED  BY <1>1, <1>2, <1>3 DEF Bridge!ClientStep

LEMMA WireStutters ==
    WireInv /\ UNCHANGED <<thread, request, answers, bridge, fresh, point, goal, asked>> => WireInv'
BY DEF WireInv, ClientShape, FramesKnown, Quiet, OneFrame, Bridge!Waiting

LEMMA WireKeeps ==
    ASSUME WireInv, UNCHANGED <<request, answers, bridge, fresh, point, goal, asked>>,
           \A s \in Streams : thread'[s] = "none" <=> thread[s] = "none"
    PROVE  WireInv'
BY DEF WireInv, ClientShape, FramesKnown, Quiet, OneFrame, Bridge!Waiting

\* The stream the client waits on is one of its own; the other one is quiet.
LEMMA ClientWaits ==
    ASSUME WireInv, point # "idle"
    PROVE  /\ Bridge!Waiting \in Streams /\ Bridge!Waiting # NoStream /\ thread[Bridge!Waiting] # "none"
           /\ Bridge!Waiting = IF point \in {"hello", "proving"} THEN fresh ELSE bridge
           /\ OneFrame(Bridge!Waiting)
BY BridgeConstants DEF WireInv, ClientShape, FramesKnown, Bridge!Waiting

\* A frame is answered once, under its own number.
LEMMA WireServed ==
    ASSUME WireInv, NEW s \in Streams, thread[s] = "reading", request[s][2] # "none", NEW a, a[1] = request[s][1],
           answers' = [answers EXCEPT ![s] = Append(answers[s], a)], request' = [request EXCEPT ![s] = Bridge!NoRequest],
           UNCHANGED <<thread, bridge, fresh, point, goal, asked>>
    PROVE  WireInv'
<1>1. ClientShape'
  BY DEF WireInv, ClientShape
<1>2. \A t \in Streams : t # s => (Quiet(t) => Quiet(t)') /\ (OneFrame(t) => OneFrame(t)')
  BY DEF WireInv, ClientShape, Quiet, OneFrame
<1>3. OneFrame(s) => OneFrame(s)'
  <2> SUFFICES ASSUME OneFrame(s) PROVE OneFrame(s)'
    OBVIOUS
  <2>1. answers[s] = <<>> /\ request[s][1] = asked
    BY DEF OneFrame
  <2>2. answers'[s] = <<a>> /\ request'[s][2] = "none"
    BY <2>1 DEF WireInv, ClientShape, Bridge!NoRequest
  <2> QED  BY <2>1, <2>2 DEF OneFrame
<1>4. ~Quiet(s) /\ thread[s] # "none"
  BY DEF Quiet
<1>5. point # "idle" => OneFrame(Bridge!Waiting)'
  <2> SUFFICES ASSUME point # "idle" PROVE OneFrame(Bridge!Waiting)'
    OBVIOUS
  <2>1. Bridge!Waiting' = Bridge!Waiting
    BY DEF Bridge!Waiting
  <2>2. Bridge!Waiting \in Streams /\ OneFrame(Bridge!Waiting)
    BY ClientWaits
  <2>3. \A t \in Streams : OneFrame(t) => OneFrame(t)'
    BY <1>2, <1>3
  <2> QED  BY <2>1, <2>2, <2>3 DEF OneFrame
<1>6. FramesKnown'
  <2>1. bridge # NoStream => bridge \in Streams
    BY DEF WireInv, ClientShape
  <2> QED  BY <1>2, <1>4, <1>5, <2>1 DEF WireInv, FramesKnown, Quiet
<1> QED  BY <1>1, <1>6 DEF WireInv

LEMMA WireByServer ==
    ASSUME StopInv, WireInv, Bridge!ServerStep
    PROVE  WireInv'
<1>1. ASSUME NEW s \in Streams, Bridge!Accept(s) \/ Bridge!EndThread(s) PROVE WireInv'
  <2>1. UNCHANGED <<request, answers, bridge, fresh, point, goal, asked>>
    BY <1>1 DEF Bridge!Accept, Bridge!EndThread, Bridge!frames, Bridge!clientVars
  <2>2. \A t \in Streams : thread'[t] = "none" <=> thread[t] = "none"
    BY <1>1 DEF Bridge!Accept, Bridge!EndThread, StopInv, BridgeShape
  <2> QED  BY <2>1, <2>2, WireKeeps
<1>2. ASSUME NEW s \in Streams, Bridge!Handle(s) PROVE WireInv'
  <2>1. /\ thread[s] = "reading" /\ request[s][2] # "none" /\ request' = [request EXCEPT ![s] = Bridge!NoRequest]
        /\ UNCHANGED <<thread, bridge, fresh, point, goal, asked>>
    BY <1>2 DEF Bridge!Handle, Bridge!clientVars
  <2>2. PICK verdict, q : answers' = [answers EXCEPT ![s] = Append(answers[s], <<request[s][1], verdict, q>>)]
    BY <1>2, Zenon DEF Bridge!Handle, Bridge!DispatchHello, Bridge!DispatchProof, Bridge!DispatchCall
  <2> QED  BY <2>1, <2>2, WireServed
<1>3. ASSUME NEW s \in Streams, Bridge!HandleTorn(s) PROVE WireInv'
  <2>1. /\ thread[s] = "reading" /\ request[s][2] # "none" /\ request' = [request EXCEPT ![s] = Bridge!NoRequest]
        /\ answers' = [answers EXCEPT ![s] = Append(answers[s], <<request[s][1], "refused", NoProfile>>)]
        /\ UNCHANGED <<thread, bridge, fresh, point, goal, asked>>
    BY <1>3 DEF Bridge!HandleTorn, Bridge!clientVars
  <2> QED  BY <2>1, WireServed
<1>4. ASSUME NEW i \in Instances, Bridge!AcceptFails(i) \/ Bridge!ListenerEnds(i) PROVE WireInv'
  <2>1. UNCHANGED <<request, answers, bridge, fresh, point, goal, asked>>
    BY <1>4 DEF Bridge!AcceptFails, Bridge!ListenerEnds, Bridge!wires, Bridge!frames, Bridge!clientVars
  <2>2. \A t \in Streams : thread'[t] = "none" <=> thread[t] = "none"
    BY <1>4 DEF Bridge!AcceptFails, Bridge!ListenerEnds, Bridge!wires, StopInv, BridgeShape
  <2> QED  BY <2>1, <2>2, WireKeeps
<1> QED  BY <1>1, <1>2, <1>3, <1>4 DEF Bridge!ServerStep

LEMMA WireByDesktop ==
    ASSUME StopInv, WireInv, Bridge!DesktopStep
    PROVE  WireInv'
<1>1. CASE Bridge!Crash
  <2>1. UNCHANGED <<request, answers, bridge, fresh, point, goal, asked>>
    BY <1>1 DEF Bridge!Crash, Bridge!frames, Bridge!clientVars
  <2>2. \A t \in Streams : thread'[t] = "none" <=> thread[t] = "none"
    BY <1>1 DEF Bridge!Crash, StopInv, BridgeShape
  <2> QED  BY <2>1, <2>2, WireKeeps
<1>2. CASE Bridge!Enable \/ Bridge!StartAgain \/ Bridge!StartBridge \/ Bridge!StartFails \/ Bridge!Disable
           \/ Bridge!FinishStop \/ Bridge!Expire \/ Bridge!Restart
           \/ \E p \in Profiles : Bridge!ApprovePairing(p) \/ Bridge!Pair(p) \/ Bridge!Refuse(p)
  <2>1. UNCHANGED <<thread, request, answers, bridge, fresh, point, goal, asked>>
    BY <1>2 DEF Bridge!Enable, Bridge!StartAgain, Bridge!StartBridge, Bridge!StartFails, Bridge!Disable,
       Bridge!FinishStop, Bridge!Expire, Bridge!Restart, Bridge!ApprovePairing, Bridge!Pair, Bridge!Refuse,
       Bridge!wires, Bridge!frames, Bridge!clientVars
  <2> QED  BY <2>1, WireStutters
<1> QED  BY <1>1, <1>2 DEF Bridge!DesktopStep

\* An answer read is the only frame there was.
LEMMA WireRead ==
    ASSUME WireInv, point # "idle", Bridge!Answered, Bridge!Consumed
    PROVE  /\ answers' = [answers EXCEPT ![Bridge!Waiting] = <<>>]
           /\ request[Bridge!Waiting][2] = "none"
<1>1. OneFrame(Bridge!Waiting) /\ answers[Bridge!Waiting] # <<>>
  BY ClientWaits DEF Bridge!Answered
<1>2. PICK a : request[Bridge!Waiting][2] = "none" /\ answers[Bridge!Waiting] = <<a>>
  BY <1>1 DEF OneFrame
<1>3. Tail(answers[Bridge!Waiting]) = <<>>
  BY <1>2
<1> QED  BY <1>2, <1>3 DEF Bridge!Consumed

\* The client is done: what it keeps is quiet.
LEMMA WireRests ==
    ASSUME WireInv, point' = "idle", goal' = "none", fresh' = NoStream, bridge' \in {bridge, fresh, NoStream},
           UNCHANGED <<thread, request>>, DOMAIN answers' = DOMAIN answers,
           \A s \in Streams : Quiet(s) => answers'[s] = <<>>,
           bridge' # NoStream => request[bridge'][2] = "none" /\ answers'[bridge'] = <<>>
    PROVE  WireInv'
<1>1. ClientShape'
  BY DEF WireInv, ClientShape
<1>2. FramesKnown'
  BY DEF WireInv, ClientShape, FramesKnown, Quiet
<1> QED  BY <1>1, <1>2 DEF WireInv

\* The client sends on one of its connections and waits there.
LEMMA WireSends ==
    ASSUME WireInv, NEW s \in Streams, NEW kind, kind # "none", NEW p, Bridge!Send(s, kind, p), Quiet(s) \/ answers'[s] = <<>>,
           DOMAIN answers' = DOMAIN answers, \A t \in Streams : Quiet(t) => answers'[t] = <<>>,
           bridge' \in {bridge, fresh, s, NoStream}, fresh' \in {s, NoStream}, goal' \in {"call", "beat", "refresh"},
           \/ point' \in {"hello", "proving"} /\ fresh' = s /\ bridge' # s /\ (bridge' # NoStream => Quiet(bridge'))
           \/ point' \in {"finishing", "calling", "beating"} /\ bridge' = s /\ fresh' = NoStream,
           \A t \in Streams : t # s => thread'[t] = thread[t], thread'[s] # "none"
    PROVE  WireInv'
<1>1. /\ request' = [request EXCEPT ![s] = <<asked', kind, p>>] /\ s # NoStream
      /\ DOMAIN request = Streams /\ DOMAIN answers' = Streams
  BY BridgeConstants DEF Bridge!Send, WireInv, ClientShape
<1>2. request'[s][1] = asked' /\ request'[s][2] = kind /\ answers'[s] = <<>>
  BY <1>1 DEF Quiet
<1>3. \A t \in Streams : t # s => (Quiet(t) => request'[t][2] = "none" /\ answers'[t] = <<>>)
  BY <1>1 DEF Quiet
<1>4. ClientShape'
  BY <1>1 DEF WireInv, ClientShape
<1>5. Bridge!Waiting' = s
  BY DEF Bridge!Waiting
<1>6. OneFrame(s)'
  BY <1>2 DEF OneFrame
<1>7. FramesKnown'
  <2>1. point' # "idle" => OneFrame(Bridge!Waiting)'
    BY <1>5, <1>6 DEF OneFrame
  <2>2. \A t \in {bridge', fresh'} \ {NoStream} : thread'[t] # "none"
    BY DEF WireInv, ClientShape, FramesKnown
  <2>3. \A t \in Streams : thread'[t] = "none" => Quiet(t)'
    BY <1>3 DEF WireInv, FramesKnown, Quiet
  <2>4. bridge' # NoStream /\ point' \in {"idle", "hello", "proving"} => Quiet(bridge)'
    BY <1>3 DEF WireInv, ClientShape, Quiet
  <2> QED  BY <2>1, <2>2, <2>3, <2>4 DEF FramesKnown
<1> QED  BY <1>4, <1>7 DEF WireInv

LEMMA WireByCall ==
    ASSUME StopInv, WireInv, NEW kind \in {"call", "beat", "refresh"},
           Bridge!Call(kind) \/ Bridge!FinishPairing(kind) \/ Bridge!Connect(kind)
    PROVE  WireInv'
<1>1. point = "idle" /\ fresh = NoStream /\ (bridge # NoStream => bridge \in Streams /\ Quiet(bridge) /\ thread[bridge] # "none")
  BY DEF Bridge!Call, Bridge!FinishPairing, Bridge!Connect, WireInv, ClientShape, FramesKnown
<1>2. \A t \in Streams : Quiet(t) => answers[t] = <<>>
  BY DEF Quiet
<1>3. CASE Bridge!Call(kind)
  <2>1. /\ bridge # NoStream /\ Bridge!Send(bridge, kind, NoProfile) /\ UNCHANGED <<thread, answers, bridge, fresh>>
        /\ goal' = kind /\ point' \in {"calling", "beating"}
    BY <1>3 DEF Bridge!Call, Bridge!Current
  <2> QED  BY <1>1, <1>2, <2>1, WireSends
<1>4. CASE Bridge!FinishPairing(kind)
  <2>1. /\ bridge # NoStream /\ Bridge!Send(bridge, "prove", pending) /\ UNCHANGED <<thread, answers, bridge, fresh>>
        /\ goal' = kind /\ point' = "finishing"
    BY <1>4 DEF Bridge!FinishPairing, Bridge!Current
  <2> QED  BY <1>1, <1>2, <2>1, WireSends
<1>5. CASE Bridge!Connect(kind)
  <2>1. bridge' \in {bridge, NoStream} /\ UNCHANGED answers
    BY <1>5 DEF Bridge!Connect
  <2>2. ASSUME NEW s \in Streams, thread[s] = "none", fresh' = s, thread' = [thread EXCEPT ![s] = "backlog"],
               Bridge!Send(s, "hello", saved), goal' = kind, point' = "hello"
        PROVE  WireInv'
    <3>1. Quiet(s) /\ bridge' # s /\ (bridge' # NoStream => Quiet(bridge'))
      BY <1>1, <2>1, <2>2, BridgeConstants DEF WireInv, FramesKnown
    <3>2. thread'[s] = "backlog" /\ \A t \in Streams : t # s => thread'[t] = thread[t]
      BY <2>2 DEF StopInv, BridgeShape
    <3> QED  BY <1>1, <1>2, <2>1, <2>2, <3>1, <3>2, WireSends
  <2>3. CASE UNCHANGED <<thread, request, fresh, goal, point, asked>>
    <3>1. bridge' # NoStream => bridge' = bridge
      BY <2>1
    <3>2. ClientShape' /\ FramesKnown'
      BY <1>1, <2>1, <2>3 DEF WireInv, ClientShape, FramesKnown, Quiet
    <3> QED  BY <3>2 DEF WireInv
  <2> QED  BY <1>5, <2>2, <2>3 DEF Bridge!Connect
<1> QED  BY <1>3, <1>4, <1>5

LEMMA WireByAnswer ==
    ASSUME WireInv, Bridge!GotPairing \/ Bridge!GotUnknown \/ Bridge!GotChallenge \/ Bridge!GotLease
                    \/ Bridge!StillPending \/ Bridge!GotAnswer \/ Bridge!GotBeat
    PROVE  WireInv'
<1> DEFINE w == Bridge!Waiting
<1>1. point # "idle" /\ Bridge!Answered /\ Bridge!Consumed /\ UNCHANGED thread
  BY DEF Bridge!GotPairing, Bridge!GotUnknown, Bridge!GotChallenge, Bridge!GotLease, Bridge!StillPending,
     Bridge!GotAnswer, Bridge!GotBeat
<1>2. /\ w \in Streams /\ w # NoStream /\ thread[w] # "none" /\ w = IF point \in {"hello", "proving"} THEN fresh ELSE bridge
      /\ answers' = [answers EXCEPT ![w] = <<>>] /\ request[w][2] = "none"
  BY <1>1, ClientWaits, WireRead
<1>3. /\ point \in {"hello", "proving"} => w = fresh /\ bridge # fresh /\ (bridge # NoStream => Quiet(bridge))
      /\ point \in {"finishing", "calling", "beating"} => w = bridge /\ fresh = NoStream
      /\ goal \in {"call", "beat", "refresh"} /\ DOMAIN answers = Streams
      /\ bridge \in Streams \cup {NoStream}
  BY <1>1, <1>2 DEF WireInv, ClientShape, FramesKnown
<1> HIDE DEF w
<1>4. /\ DOMAIN answers' = DOMAIN answers /\ answers'[w] = <<>>
      /\ \A t \in Streams : Quiet(t) => answers'[t] = <<>>
  BY <1>2, <1>3 DEF Quiet
<1>5. CASE Bridge!GotPairing
  <2>1. point = "hello" /\ bridge' = fresh /\ fresh' = NoStream /\ point' = "idle" /\ goal' = "none" /\ UNCHANGED request
    BY <1>5 DEF Bridge!GotPairing, Bridge!Rest
  <2> QED  BY <1>1, <1>2, <1>3, <1>4, <2>1, WireRests
<1>6. CASE Bridge!GotUnknown
  <2>1. point = "hello" /\ Bridge!Send(fresh, "hello", NoProfile) /\ UNCHANGED <<bridge, fresh, point, goal>>
    BY <1>6 DEF Bridge!GotUnknown
  <2> QED  BY <1>1, <1>2, <1>3, <1>4, <2>1, WireSends
<1>7. CASE Bridge!GotChallenge
  <2>1. point = "hello" /\ Bridge!Send(fresh, "prove", saved) /\ point' = "proving" /\ UNCHANGED <<bridge, fresh, goal>>
    BY <1>7 DEF Bridge!GotChallenge
  <2> QED  BY <1>1, <1>2, <1>3, <1>4, <2>1, WireSends
<1>8. CASE Bridge!GotLease
  <2>1. bridge' = w /\ fresh' = NoStream /\ Bridge!Onward(w)
    BY <1>8 DEF Bridge!GotLease, w
  <2>2. CASE goal = "refresh"
    <3>1. point' = "idle" /\ goal' = "none" /\ UNCHANGED request
      BY <2>1, <2>2 DEF Bridge!Onward, Bridge!Rest
    <3>2. bridge' \in {bridge, fresh, NoStream}
      BY <1>1, <1>3, <2>1 DEF WireInv, ClientShape
    <3> QED  BY <1>1, <1>2, <1>3, <1>4, <2>1, <3>1, <3>2, WireRests
  <2>3. CASE goal # "refresh"
    <3>1. Bridge!Send(w, goal, NoProfile) /\ UNCHANGED goal /\ point' \in {"calling", "beating"}
      BY <2>1, <2>3 DEF Bridge!Onward
    <3>2. goal # "none"
      BY <1>3
    <3> QED  BY <1>1, <1>2, <1>3, <1>4, <2>1, <3>1, <3>2, WireSends
  <2> QED  BY <2>2, <2>3
<1>9. CASE Bridge!StillPending \/ Bridge!GotAnswer \/ Bridge!GotBeat
  <2>1. /\ point \in {"finishing", "calling", "beating"} /\ UNCHANGED <<bridge, fresh, request>>
        /\ point' = "idle" /\ goal' = "none"
    BY <1>9 DEF Bridge!StillPending, Bridge!GotAnswer, Bridge!GotBeat, Bridge!Rest
  <2> QED  BY <1>1, <1>2, <1>3, <1>4, <2>1, WireRests
<1> QED  BY <1>5, <1>6, <1>7, <1>8, <1>9

LEMMA WireByFailure ==
    ASSUME WireInv, Bridge!ConnectFails \/ Bridge!TransportFails \/ Bridge!RestartClient
    PROVE  WireInv'
<1>1. /\ point' = "idle" /\ goal' = "none" /\ UNCHANGED <<thread, request, answers>> /\ fresh' = NoStream
      /\ bridge' = NoStream \/ (point \in {"hello", "proving"} /\ bridge' = bridge)
  BY DEF Bridge!ConnectFails, Bridge!TransportFails, Bridge!RestartClient, Bridge!DroppedBridge, Bridge!Rest,
     Bridge!frames, WireInv, ClientShape
<1>2. \A t \in Streams : Quiet(t) => answers'[t] = <<>>
  BY <1>1 DEF Quiet
<1>3. bridge' # NoStream => request[bridge'][2] = "none" /\ answers'[bridge'] = <<>>
  BY <1>1 DEF WireInv, FramesKnown, Quiet
<1> QED  BY <1>1, <1>2, <1>3, WireRests

LEMMA BridgeStep == BridgeInv /\ Bridge!BridgeNext => BridgeInv'
<1> SUFFICES ASSUME StopInv, WireInv, Bridge!BridgeNext PROVE BridgeInv'
  BY DEF BridgeInv
<1>1. CASE Bridge!ClientStep
  BY <1>1, StopByClient, WireByCall, WireByAnswer, WireByFailure DEF Bridge!ClientStep, BridgeInv
<1>2. CASE Bridge!ServerStep
  BY <1>2, StopByServer, WireByServer DEF BridgeInv
<1>3. CASE Bridge!DesktopStep
  BY <1>3, StopByCommand, StopByOthers, WireByDesktop DEF Bridge!DesktopStep, BridgeInv
<1> QED  BY <1>1, <1>2, <1>3 DEF Bridge!BridgeNext

LEMMA BridgeStutters == BridgeInv /\ UNCHANGED bridgeVars /\ UNCHANGED desk => BridgeInv'
BY StopStutters, WireStutters DEF BridgeInv, bridgeVars

LEMMA BridgeIsQuiet == BridgeInv => Bridge!StoppedIsQuiet
BY BridgeConstants DEF BridgeInv, StopInv, BridgeShape, OneListens, Listens, Bridge!Alive, Bridge!StoppedIsQuiet

LEMMA BridgeAnswers == BridgeInv => Bridge!AnswersAreAsked
<1> SUFFICES ASSUME WireInv, NEW s \in {bridge, fresh} \ {NoStream}, NEW k \in 1..Len(answers[s])
             PROVE  answers[s][k][1] = asked /\ point # "idle"
  BY DEF BridgeInv, Bridge!AnswersAreAsked
<1>1. answers[s] # <<>>
  OBVIOUS
<1>2. ~Quiet(s)
  BY <1>1 DEF Quiet
<1>3. point # "idle" /\ s = Bridge!Waiting
  BY <1>2 DEF WireInv, ClientShape, FramesKnown, Bridge!Waiting
<1>4. PICK a : answers[s] = <<a>> /\ a[1] = asked
  BY <1>1, <1>3, ClientWaits DEF OneFrame
<1>5. k = 1
  BY <1>4
<1> QED  BY <1>3, <1>4, <1>5

--------------------------------------------------------------------------------
(* Folders delegated to agents.                                            *)

Owners == {Client} \X Profiles
Operations == {"create", "update", "enable", "disable", "repair", "revoke"}
Delegations == [owner : Owners, place : Folders, dir : Names, enabled : BOOLEAN, revision : Nat]
ProposalSteps == {"none", "looking", "proposed", "lookingAgain", "started", "over"}

FolderShape ==
    /\ granted \subseteq Owners
    /\ tree \in [Folders -> Names \cup {None}]
    /\ obstacle \in [Folders -> Folder!Obstacles \cup {None}]
    /\ delegated \in [Destinations -> Delegations \cup {None}]
    /\ picked \in [Destinations -> Names \cup {None}]
    /\ startedIn \in [Proposals -> ((Names \cup {None}) \X (Folder!Obstacles \cup {None})) \cup {None}]
    /\ proposal \in [Proposals -> [at : ProposalSteps, id : Destinations \cup {None}, owner : Owners \cup {None},
                                   record : Delegations \cup {None}, first : Delegations \cup {None}]]
    /\ desk \in [at : {"idle", "inspect", "store", "invalidate"}, op : Operations \cup {"none"},
                 id : Destinations \cup {None}, owner : Owners \cup {None},
                 place : Folders \cup {None}, dir : Names \cup {None}]

\* The user's command: what a creation is of was never picked, and what is stored of a
\* folder was found there.
DeskKnows ==
    /\ desk.at \in {"inspect", "store"} =>
          /\ desk.op \in Operations /\ desk.id \in Destinations /\ desk.owner \in Owners
          /\ desk.op = "create" => picked[desk.id] = None
          /\ desk.at = "inspect" \/ desk.op \in {"create", "repair"} => desk.place \in Folders
    /\ desk.at = "store" /\ desk.op \in {"create", "repair"} => desk.dir \in Names

\* `now` is `before` or a later revision of it, and the same revision is the same folder.
Follows(before, now) ==
    now # None =>
        /\ before.revision <= now.revision
        /\ before.revision = now.revision => before.place = now.place /\ before.dir = now.dir

\* What an export has found of its destination, and what became of it since.
ProposalKnows(x) ==
    LET p == proposal[x] IN
    /\ p.id \in Destinations => picked[p.id] # None
    /\ p.at \in {"looking", "proposed", "lookingAgain"} =>
          /\ p.id \in Destinations /\ p.record \in Delegations
          /\ p.record.owner = p.owner /\ p.record.enabled
    /\ p.at = "looking" => Follows(p.record, delegated[p.id])
    /\ p.at \in {"proposed", "lookingAgain"} => p.first \in Delegations /\ Follows(p.first, delegated[p.id])
    /\ p.at = "lookingAgain" => Follows(p.first, p.record)
    /\ startedIn[x] # None =>
          /\ p.at \in {"started", "over"}
          /\ p.record.place = p.first.place /\ p.record.dir = p.first.dir /\ startedIn[x] = <<p.first.dir, None>>
          /\ p.record.owner = p.owner /\ p.record.enabled

DelegatedArePicked == \A d \in Destinations : delegated[d] # None =>
    delegated[d].owner \in granted /\ delegated[d].dir = picked[d]
WithinLimit == \A owner \in Owners : Folder!Cardinality(Folder!OwnedBy(owner)) <= OwnerLimit

FolderInv ==
    /\ FolderShape
    /\ DeskKnows
    /\ \A x \in Proposals : ProposalKnows(x)
    /\ DelegatedArePicked
    /\ WithinLimit

\* The two copies of Cardinality are one.
LEMMA Counts == \A S : Folder!Cardinality(S) = Cardinality(S)
BY DEF Folder!Cardinality, Cardinality

LEMMA FolderStart == Folder!DestinationInit => FolderInv
<1> SUFFICES ASSUME Folder!DestinationInit PROVE FolderInv
  OBVIOUS
<1>1. FolderShape
  BY DEF Folder!DestinationInit, FolderShape, Owners, Folder!NoCommand, Folder!NoProposal, ProposalSteps
<1>2. DeskKnows /\ DelegatedArePicked
  BY DEF Folder!DestinationInit, DeskKnows, Folder!NoCommand, DelegatedArePicked
<1>3. \A x \in Proposals : ProposalKnows(x)
  BY FolderConstants DEF Folder!DestinationInit, ProposalKnows, Folder!NoProposal
<1>4. WithinLimit
  <2>1. \A owner : Folder!OwnedBy(owner) = {}
    BY DEF Folder!DestinationInit, Folder!OwnedBy, Folder!Of, Folder!Exists
  <2> QED  BY <2>1, Counts, FS_EmptySet, FolderConstants DEF WithinLimit
<1> QED  BY <1>1, <1>2, <1>3, <1>4 DEF FolderInv

\* No owner has more delegations when none is added.
LEMMA NoneAdded ==
  ASSUME FolderInv, \A d \in Destinations : delegated'[d] # None =>
                       delegated[d] # None /\ delegated'[d].owner = delegated[d].owner
  PROVE  WithinLimit'
<1> SUFFICES ASSUME NEW owner \in Owners PROVE (Folder!Cardinality(Folder!OwnedBy(owner)) <= OwnerLimit)'
  BY DEF WithinLimit, Owners
<1>1. Folder!OwnedBy(owner)' \subseteq Folder!OwnedBy(owner) /\ Folder!OwnedBy(owner) \subseteq Destinations
  BY DEF Folder!OwnedBy, Folder!Of, Folder!Exists
<1>2. IsFiniteSet(Folder!OwnedBy(owner))
  BY <1>1, FS_Subset, FolderConstants
<1>3. /\ Cardinality(Folder!OwnedBy(owner)') <= Cardinality(Folder!OwnedBy(owner))
      /\ Cardinality(Folder!OwnedBy(owner)') \in Nat /\ Cardinality(Folder!OwnedBy(owner)) \in Nat
  BY <1>1, <1>2, FS_Subset, FS_CardinalityType
<1>4. Cardinality(Folder!OwnedBy(owner)) <= OwnerLimit
  BY Counts DEF FolderInv, WithinLimit, Owners
<1> QED  BY <1>3, <1>4, Counts, FolderConstants

\* What does not concern the delegations and the exports leaves what is known of them.
LEMMA FolderFrame ==
  ASSUME FolderInv, FolderShape', DeskKnows', UNCHANGED <<delegated, picked, proposal, startedIn>>, granted \subseteq granted'
  PROVE  FolderInv'
<1>1. DelegatedArePicked'
  BY DEF FolderInv, DelegatedArePicked
<1>2. \A x \in Proposals : ProposalKnows(x)'
  BY DEF FolderInv, ProposalKnows, Follows
<1>3. WithinLimit'
  BY NoneAdded
<1> QED  BY <1>1, <1>2, <1>3 DEF FolderInv

\* The user's command up to the transaction.
LEMMA DeskSteps ==
  ASSUME FolderInv,
         \/ \E op \in Operations, d \in Destinations, owner \in Owners :
               \E place \in (IF op \in {"create", "repair"} THEN Folders ELSE {None}) : Folder!Begin(op, d, owner, place)
         \/ Folder!Inspect \/ Folder!StoreFails
  PROVE  FolderInv'
<1>1. ASSUME NEW op \in Operations, NEW d \in Destinations, NEW owner \in Owners,
             NEW place \in (IF op \in {"create", "repair"} THEN Folders ELSE {None}), Folder!Begin(op, d, owner, place)
      PROVE  FolderInv'
  <2>1. /\ UNCHANGED <<granted, tree, obstacle, delegated, proposal, startedIn, picked>>
        /\ (op = "create" => picked[d] = None) /\ (op = "enable" => delegated[d] # None)
        /\ desk' = [at |-> IF op \in {"create", "repair", "enable"} THEN "inspect" ELSE "store",
                    op |-> op, id |-> d, owner |-> owner, dir |-> None,
                    place |-> IF op = "enable" THEN delegated[d].place ELSE place]
    BY <1>1 DEF Folder!Begin, Folder!Unused, Folder!Of, Folder!Exists
  <2>2. PICK q \in Folders \cup {None} :
          q = (IF op = "enable" THEN delegated[d].place ELSE place)
          /\ (op \in {"create", "repair", "enable"} => q \in Folders)
    BY <2>1 DEF FolderInv, FolderShape, Delegations
  <2>3. PICK a \in {"inspect", "store"} :
          a = (IF op \in {"create", "repair", "enable"} THEN "inspect" ELSE "store")
    OBVIOUS
  <2>4. desk' = [at |-> a, op |-> op, id |-> d, owner |-> owner, dir |-> None, place |-> q]
    BY <2>1, <2>2, <2>3
  <2>5. FolderShape'
    BY <2>1, <2>4 DEF FolderInv, FolderShape
  <2>6. DeskKnows'
    BY <2>1, <2>2, <2>3, <2>4 DEF DeskKnows
  <2> QED  BY <2>1, <2>5, <2>6, FolderFrame
<1>2. ASSUME desk' = Folder!NoCommand, UNCHANGED <<granted, tree, obstacle, delegated, proposal, startedIn, picked>>
      PROVE  FolderInv'
  <2>1. FolderShape'
    BY <1>2 DEF FolderInv, FolderShape, Folder!NoCommand
  <2>2. DeskKnows'
    BY <1>2 DEF DeskKnows, Folder!NoCommand
  <2> QED  BY <1>2, <2>1, <2>2, FolderFrame
<1>3. CASE Folder!Inspect
  <2>1. /\ desk.at = "inspect" /\ UNCHANGED <<granted, tree, obstacle, delegated, proposal, startedIn, picked>>
        /\ \/ desk' = Folder!NoCommand
           \/ /\ Folder!Inspected(desk.place) # None
              /\ desk' = [desk EXCEPT !.at = "store", !.dir = Folder!Inspected(desk.place)]
    BY <1>3 DEF Folder!Inspect
  <2>2. desk.place \in Folders /\ Folder!Inspected(desk.place) \in Names \cup {None}
    BY <2>1 DEF Folder!Inspected, Folder!DirectoryIdentity, FolderInv, FolderShape, DeskKnows
  <2>3. CASE /\ Folder!Inspected(desk.place) # None
             /\ desk' = [desk EXCEPT !.at = "store", !.dir = Folder!Inspected(desk.place)]
    <3>1. FolderShape'
      BY <2>1, <2>2, <2>3 DEF FolderInv, FolderShape
    <3>2. DeskKnows'
      BY <2>1, <2>2, <2>3 DEF FolderInv, FolderShape, DeskKnows
    <3> QED  BY <2>1, <3>1, <3>2, FolderFrame
  <2> QED  BY <2>1, <2>3, <1>2
<1>4. CASE Folder!StoreFails
  BY <1>2, <1>4 DEF Folder!StoreFails
<1> QED  BY <1>1, <1>3, <1>4

\* Other programs, the user's projects and grants.
LEMMA WorldSteps ==
  ASSUME FolderInv,
         \/ \E place \in Folders : \/ \E what \in Folder!Obstacles \cup {None} : Folder!Spoil(place, what)
                                   \/ \E dir \in Names \cup {None} : Folder!Move(place, dir)
         \/ \E p \in Profiles : Folder!OpenProject(p)
         \/ \E owner \in Owners : Folder!Grant(owner) \/ Folder!Withdraw(owner)
  PROVE  FolderInv'
<1>1. ASSUME NEW place \in Folders, NEW what \in Folder!Obstacles \cup {None}, Folder!Spoil(place, what)
      PROVE  FolderInv'
  <2>1. /\ obstacle' = [obstacle EXCEPT ![place] = what]
        /\ UNCHANGED <<granted, tree, desk, delegated, proposal, startedIn, picked>>
    BY <1>1 DEF Folder!Spoil
  <2>2. FolderShape' /\ DeskKnows'
    BY <2>1 DEF FolderInv, FolderShape, DeskKnows
  <2> QED  BY <2>1, <2>2, FolderFrame
<1>2. ASSUME NEW place \in Folders, NEW dir \in Names \cup {None}, Folder!Move(place, dir)
      PROVE  FolderInv'
  <2>1. /\ tree' = [tree EXCEPT ![place] = dir]
        /\ UNCHANGED <<granted, obstacle, desk, delegated, proposal, startedIn, picked>>
    BY <1>2 DEF Folder!Move
  <2>2. FolderShape' /\ DeskKnows'
    BY <2>1 DEF FolderInv, FolderShape, DeskKnows
  <2> QED  BY <2>1, <2>2, FolderFrame
<1>3. ASSUME NEW p \in Profiles, Folder!OpenProject(p) PROVE FolderInv'
  <2>1. UNCHANGED <<granted, tree, obstacle, desk, delegated, proposal, startedIn, picked>>
    BY <1>3 DEF Folder!OpenProject
  <2>2. FolderShape' /\ DeskKnows'
    BY <2>1 DEF FolderInv, FolderShape, DeskKnows
  <2> QED  BY <2>1, <2>2, FolderFrame
<1>4. ASSUME NEW owner \in Owners, Folder!Grant(owner) PROVE FolderInv'
  <2>1. /\ granted' = granted \cup {owner}
        /\ UNCHANGED <<tree, obstacle, desk, delegated, proposal, startedIn, picked>>
    BY <1>4 DEF Folder!Grant
  <2>2. FolderShape' /\ DeskKnows'
    BY <2>1 DEF FolderInv, FolderShape, DeskKnows
  <2> QED  BY <2>1, <2>2, FolderFrame
<1>5. ASSUME NEW owner \in Owners, Folder!Withdraw(owner) PROVE FolderInv'
  <2>1. /\ granted' = granted \ {owner}
        /\ delegated' = [d \in Destinations |-> IF Folder!Of(d, owner) THEN None ELSE delegated[d]]
        /\ UNCHANGED <<tree, obstacle, desk, proposal, startedIn, picked>>
    BY <1>5 DEF Folder!Withdraw
  <2>2. \A d \in Destinations : delegated'[d] # None => delegated'[d] = delegated[d] /\ delegated[d].owner # owner
    BY <2>1 DEF Folder!Of, Folder!Exists
  <2>3. FolderShape'
    BY <2>1 DEF FolderInv, FolderShape
  <2>4. DeskKnows'
    BY <2>1 DEF FolderInv, DeskKnows
  <2>5. DelegatedArePicked'
    BY <2>1, <2>2 DEF FolderInv, DelegatedArePicked
  <2>6. \A x \in Proposals : ProposalKnows(x)'
    BY <2>1, <2>2 DEF FolderInv, ProposalKnows, Follows
  <2>7. WithinLimit'
    BY <2>2, NoneAdded
  <2> QED  BY <2>3, <2>4, <2>5, <2>6, <2>7 DEF FolderInv
<1> QED  BY <1>1, <1>2, <1>3, <1>4, <1>5

\* One delegation more, within the limit.
LEMMA OneAdded ==
  ASSUME FolderInv, NEW id \in Destinations, NEW new \in Delegations, delegated' = [delegated EXCEPT ![id] = new],
         Folder!Cardinality(Folder!OwnedBy(new.owner)) < OwnerLimit
  PROVE  \/ WithinLimit'
         \/ delegated[id] # None /\ delegated[id].owner # new.owner
<1> SUFFICES ASSUME NEW owner \in Owners, delegated[id] # None => delegated[id].owner = new.owner
             PROVE  (Folder!Cardinality(Folder!OwnedBy(owner)) <= OwnerLimit)'
  BY DEF WithinLimit, Owners
<1>1. \A d \in Destinations : delegated'[d] = IF d = id THEN new ELSE delegated[d]
  BY DEF FolderInv, FolderShape
<1>2. Folder!OwnedBy(owner) \subseteq Destinations /\ Folder!OwnedBy(owner)' \subseteq Destinations
  BY DEF Folder!OwnedBy
<1>3. /\ IsFiniteSet(Folder!OwnedBy(owner)) /\ Cardinality(Folder!OwnedBy(owner)) \in Nat
      /\ Cardinality(Folder!OwnedBy(owner)) <= OwnerLimit
  BY <1>2, FS_Subset, FS_CardinalityType, FolderConstants, Counts DEF FolderInv, WithinLimit, Owners
<1>4. CASE owner = new.owner
  <2>1. Folder!OwnedBy(owner)' \subseteq Folder!OwnedBy(owner) \cup {id}
    BY <1>1 DEF Folder!OwnedBy, Folder!Of, Folder!Exists
  <2>2. /\ IsFiniteSet(Folder!OwnedBy(owner) \cup {id})
        /\ Cardinality(Folder!OwnedBy(owner) \cup {id}) <= Cardinality(Folder!OwnedBy(owner)) + 1
    <3>1. IsFiniteSet(Folder!OwnedBy(owner) \cup {id})
      BY <1>3, FS_AddElement
    <3>2. CASE id \in Folder!OwnedBy(owner)
      <4>1. Folder!OwnedBy(owner) \cup {id} = Folder!OwnedBy(owner)
        BY <3>2
      <4>2. Cardinality(Folder!OwnedBy(owner) \cup {id}) = Cardinality(Folder!OwnedBy(owner))
        BY <4>1
      <4> QED  BY <1>3, <3>1, <4>2
    <3>3. CASE id \notin Folder!OwnedBy(owner)
      <4>1. Cardinality(Folder!OwnedBy(owner) \cup {id}) = Cardinality(Folder!OwnedBy(owner)) + 1
        BY <1>3, <3>3, FS_AddElement
      <4> QED  BY <1>3, <3>1, <4>1
    <3> QED  BY <3>2, <3>3
  <2>3. /\ Cardinality(Folder!OwnedBy(owner)') <= Cardinality(Folder!OwnedBy(owner) \cup {id})
        /\ Cardinality(Folder!OwnedBy(owner)') \in Nat /\ Cardinality(Folder!OwnedBy(owner) \cup {id}) \in Nat
    BY <2>1, <2>2, FS_Subset, FS_CardinalityType
  <2>4. Cardinality(Folder!OwnedBy(owner)) < OwnerLimit
    BY <1>4, Counts
  <2> QED  BY <1>3, <2>2, <2>3, <2>4, Counts, FolderConstants
<1>5. CASE owner # new.owner
  <2>1. Folder!OwnedBy(owner)' \subseteq Folder!OwnedBy(owner)
    BY <1>1, <1>5 DEF Folder!OwnedBy, Folder!Of, Folder!Exists
  <2>2. Cardinality(Folder!OwnedBy(owner)') <= Cardinality(Folder!OwnedBy(owner)) /\ Cardinality(Folder!OwnedBy(owner)') \in Nat
    BY <2>1, <1>3, FS_Subset, FS_CardinalityType
  <2> QED  BY <1>3, <2>2, Counts, FolderConstants
<1> QED  BY <1>4, <1>5

\* The transaction: a new delegation, a later revision of one, or none any more.
LEMMA StoreStep ==
  ASSUME FolderInv, Folder!Store PROVE FolderInv'
<1>0. PICK d, old : d = desk.id /\ old = delegated[desk.id]
  OBVIOUS
<1>1. /\ desk.at = "store" /\ desk.op \in Operations /\ d \in Destinations /\ desk.owner \in Owners
      /\ desk.op = "create" => picked[d] = None
      /\ desk.op \in {"create", "repair"} => desk.place \in Folders /\ desk.dir \in Names
      /\ UNCHANGED <<granted, tree, obstacle, proposal, startedIn>>
      /\ None \notin Delegations /\ None \notin Names
  BY <1>0, FolderConstants DEF Folder!Store, FolderInv, DeskKnows, Delegations, Owners
<1>2. CASE UNCHANGED <<delegated, picked>> /\ desk' = Folder!NoCommand
  <2>1. FolderShape' /\ DeskKnows'
    BY <1>1, <1>2 DEF FolderInv, FolderShape, DeskKnows, Folder!NoCommand
  <2> QED  BY <1>1, <1>2, <2>1, FolderFrame
<1>3. CASE /\ IF desk.op = "create" THEN Folder!MayCreate ELSE Folder!Of(d, desk.owner)
           /\ delegated' = [delegated EXCEPT ![d] = Folder!StoredRecord]
           /\ picked' = (IF desk.op \in {"create", "repair"} THEN [picked EXCEPT ![d] = desk.dir] ELSE picked)
           /\ desk' = (IF desk.op = "create" THEN Folder!NoCommand ELSE [desk EXCEPT !.at = "invalidate"])
  <2>1. old \in Delegations \cup {None} /\ (desk.op # "create" => old \in Delegations /\ old.owner = desk.owner)
    BY <1>0, <1>1, <1>3 DEF FolderInv, FolderShape, Folder!Of, Folder!Exists
  <2>2. desk.op = "create" => old = None
    BY <1>0, <1>1, <2>1 DEF FolderInv, DelegatedArePicked, Delegations
  <2>3. PICK new \in Delegations \cup {None} :
          /\ new = Folder!StoredRecord
          /\ new # None => new \in Delegations /\ new.owner = desk.owner
          /\ desk.op = "create" => new # None
          /\ new # None /\ desk.op # "create" => new.revision > old.revision
          /\ new # None => new.dir = IF desk.op \in {"create", "repair"} THEN desk.dir ELSE old.dir
    <3>1. CASE desk.op = "create"
      <4>1. PICK r \in Delegations :
              /\ r = [owner |-> desk.owner, place |-> desk.place, dir |-> desk.dir, enabled |-> TRUE, revision |-> 1]
              /\ r.owner = desk.owner /\ r.dir = desk.dir
        <5>1. [owner |-> desk.owner, place |-> desk.place, dir |-> desk.dir, enabled |-> TRUE, revision |-> 1] \in Delegations
          BY <1>1, <3>1 DEF Delegations
        <5> QED  BY <5>1
      <4>2. r = Folder!StoredRecord
        BY <3>1, <4>1 DEF Folder!StoredRecord
      <4> QED  BY <1>1, <3>1, <4>1, <4>2
    <3>2. CASE desk.op \in {"update", "enable", "disable", "repair"}
      <4>1. old \in Delegations /\ old.owner = desk.owner
        BY <2>1, <3>2
      <4>2. PICK r \in Delegations :
              /\ Folder!StoredRecord = Folder!Bumped(r)
              /\ r.owner = desk.owner /\ r.revision = old.revision
              /\ r.dir = IF desk.op \in {"create", "repair"} THEN desk.dir ELSE old.dir
        <5>1. CASE desk.op = "update"
          BY <1>0, <4>1, <5>1 DEF Folder!StoredRecord
        <5>2. CASE desk.op = "enable"
          <6>1. [old EXCEPT !.enabled = TRUE] \in Delegations
            BY <4>1 DEF Delegations
          <6> QED  BY <1>0, <4>1, <5>2, <6>1 DEF Folder!StoredRecord, Delegations
        <5>3. CASE desk.op = "disable"
          <6>1. [old EXCEPT !.enabled = FALSE] \in Delegations
            BY <4>1 DEF Delegations
          <6> QED  BY <1>0, <4>1, <5>3, <6>1 DEF Folder!StoredRecord, Delegations
        <5>4. CASE desk.op = "repair"
          <6>1. [old EXCEPT !.place = desk.place, !.dir = desk.dir, !.enabled = TRUE] \in Delegations
            BY <1>1, <4>1, <5>4 DEF Delegations
          <6> QED  BY <1>0, <4>1, <5>4, <6>1 DEF Folder!StoredRecord, Delegations
        <5> QED  BY <3>2, <5>1, <5>2, <5>3, <5>4
      <4>3. PICK r1 \in Delegations :
              /\ r1 = Folder!Bumped(r) /\ r1.revision = r.revision + 1 /\ r.revision \in Nat
              /\ r1.owner = r.owner /\ r1.dir = r.dir
        <5>1. [r EXCEPT !.revision = @ + 1] \in Delegations
          BY DEF Delegations
        <5> QED  BY <5>1 DEF Delegations, Folder!Bumped
      <4> QED  BY <1>1, <3>2, <4>2, <4>3
    <3>3. CASE desk.op = "revoke"
      <4>1. Folder!StoredRecord = None
        BY <3>3 DEF Folder!StoredRecord
      <4> QED  BY <3>3, <4>1
    <3> QED  BY <1>1, <3>1, <3>2, <3>3 DEF Operations
  <2>4. /\ delegated' = [delegated EXCEPT ![d] = new] /\ delegated'[d] = new
        /\ \A e \in Destinations : e # d => delegated'[e] = delegated[e] /\ picked'[e] = picked[e]
        /\ picked'[d] = IF desk.op \in {"create", "repair"} THEN desk.dir ELSE picked[d]
        /\ picked' \in [Destinations -> Names \cup {None}]
    BY <1>0, <1>1, <1>3, <2>3 DEF FolderInv, FolderShape
  <2>5. FolderShape'
    <3>1. delegated' \in [Destinations -> Delegations \cup {None}]
      BY <2>3, <2>4 DEF FolderInv, FolderShape
    <3>2. desk'.at \in {"idle", "invalidate"} /\
          desk' \in [at : {"idle", "inspect", "store", "invalidate"}, op : Operations \cup {"none"},
                     id : Destinations \cup {None}, owner : Owners \cup {None},
                     place : Folders \cup {None}, dir : Names \cup {None}]
      BY <1>3 DEF FolderInv, FolderShape, Folder!NoCommand
    <3> QED  BY <1>1, <2>4, <3>1, <3>2 DEF FolderInv, FolderShape
  <2>6. DeskKnows'
    BY <1>3 DEF DeskKnows, FolderInv, FolderShape, Folder!NoCommand
  <2>7. DelegatedArePicked'
    <3>1. new # None => new.owner \in granted /\ new.dir = picked'[d]
      <4>1. CASE desk.op = "create"
        BY <1>3, <2>3, <2>4, <4>1 DEF Folder!MayCreate
      <4>2. CASE desk.op # "create"
        <5>1. old.owner \in granted /\ old.dir = picked[d]
          BY <1>0, <1>1, <2>1, <4>2 DEF FolderInv, DelegatedArePicked
        <5> QED  BY <2>1, <2>3, <2>4, <4>2, <5>1
      <4> QED  BY <4>1, <4>2
    <3> QED  BY <1>1, <2>4, <3>1 DEF FolderInv, DelegatedArePicked
  <2>8. ASSUME NEW x \in Proposals PROVE ProposalKnows(x)'
    <3>1. ProposalKnows(x) /\ UNCHANGED <<proposal, startedIn>>
      BY <1>1 DEF FolderInv
    <3>2. CASE proposal[x].id # d
      <4>1. proposal[x].id \in Destinations => /\ delegated'[proposal[x].id] = delegated[proposal[x].id]
                                               /\ picked'[proposal[x].id] = picked[proposal[x].id]
        BY <2>4, <3>2
      <4> QED  BY <3>1, <4>1 DEF ProposalKnows
    <3>3. CASE proposal[x].id = d
      <4>1. desk.op # "create" /\ picked[d] # None
        BY <1>1, <3>1, <3>3 DEF ProposalKnows
      <4>2. picked'[d] # None
        BY <1>1, <2>4, <4>1
      <4>3. \A before \in Delegations : Follows(before, old) => Follows(before, new)
        BY <1>1, <2>1, <2>3, <4>1 DEF Follows, Delegations
      <4> QED  BY <1>0, <3>1, <3>3, <4>2, <4>3, <2>4 DEF ProposalKnows
    <3> QED  BY <3>2, <3>3
  <2>9. WithinLimit'
    <3>1. CASE desk.op = "create"
      <4>1. new \in Delegations /\ new.owner = desk.owner
        BY <2>3, <3>1
      <4>2. Folder!Cardinality(Folder!OwnedBy(new.owner)) < OwnerLimit
        BY <1>3, <3>1, <4>1 DEF Folder!MayCreate
      <4> QED  BY <1>0, <1>1, <2>2, <2>4, <3>1, <4>1, <4>2, OneAdded
    <3>2. CASE desk.op # "create"
      BY <1>0, <1>1, <2>1, <2>3, <2>4, <3>2, NoneAdded
    <3> QED  BY <3>1, <3>2
  <2> QED  BY <2>5, <2>6, <2>7, <2>8, <2>9 DEF FolderInv
<1> QED  BY <1>0, <1>2, <1>3 DEF Folder!Store

\* A step of one export; the others, and the delegations, stay what they are.
LEMMA ExportTurn ==
  ASSUME FolderInv, NEW x \in Proposals, NEW p,
         p \in [at : ProposalSteps, id : Destinations \cup {None}, owner : Owners \cup {None},
                record : Delegations \cup {None}, first : Delegations \cup {None}],
         proposal' = [proposal EXCEPT ![x] = p],
         UNCHANGED <<granted, tree, obstacle, delegated, desk, picked>>,
         startedIn' \in [Proposals -> ((Names \cup {None}) \X (Folder!Obstacles \cup {None})) \cup {None}],
         \A y \in Proposals : y # x => startedIn'[y] = startedIn[y],
         ProposalKnows(x)'
  PROVE  FolderInv'
<1>1. \A y \in Proposals : y # x => proposal'[y] = proposal[y]
  BY DEF FolderInv, FolderShape
<1>2. FolderShape'
  BY DEF FolderInv, FolderShape
<1>3. DeskKnows' /\ DelegatedArePicked'
  BY DEF FolderInv, DeskKnows, DelegatedArePicked
<1>4. ASSUME NEW y \in Proposals PROVE ProposalKnows(y)'
  <2>1. CASE y # x
    BY <1>1, <2>1 DEF FolderInv, ProposalKnows, Follows
  <2>2. CASE y = x
    BY <2>2 DEF ProposalKnows
  <2> QED  BY <2>1, <2>2
<1>5. WithinLimit'
  BY NoneAdded
<1> QED  BY <1>2, <1>3, <1>4, <1>5 DEF FolderInv

\* The steps of exports.
LEMMA ExportSteps ==
  ASSUME FolderInv, NEW x \in Proposals,
         \/ \E d \in Destinations, owner \in Owners : Folder!Propose(x, d, owner)
         \/ Folder!Look(x) \/ Folder!Start(x) \/ Folder!Confirm(x)
  PROVE  FolderInv'
<1> DEFINE Proposed == [at : ProposalSteps, id : Destinations \cup {None}, owner : Owners \cup {None},
                        record : Delegations \cup {None}, first : Delegations \cup {None}]
<1>1. PICK p \in Proposed : p = proposal[x]
  BY DEF FolderInv, FolderShape
<1>2. ProposalKnows(x) /\ None \notin Delegations /\ None \notin Names
  BY FolderConstants DEF FolderInv, Delegations, Owners
\* An export that is over keeps what it found.
<1>3. ASSUME NEW at \in {"looking", "proposed", "lookingAgain", "none"}, p.at = at, proposal' = [proposal EXCEPT ![x].at = "over"],
             UNCHANGED <<granted, tree, obstacle, delegated, desk, picked, startedIn>>
      PROVE  FolderInv'
  <2>1. PICK q \in Proposed : /\ q = [p EXCEPT !.at = "over"] /\ q.at = "over" /\ q.id = p.id
    <3>1. [p EXCEPT !.at = "over"] \in Proposed
      BY DEF ProposalSteps
    <3> QED  BY <3>1
  <2>2. proposal' = [proposal EXCEPT ![x] = q] /\ proposal'[x] = q
    BY <1>1, <1>3, <2>1 DEF FolderInv, FolderShape
  <2>3. startedIn[x] = None
    BY <1>1, <1>2, <1>3 DEF ProposalKnows
  <2>4. ProposalKnows(x)'
    BY <1>1, <1>2, <1>3, <2>1, <2>2, <2>3 DEF ProposalKnows
  <2> QED  BY <1>3, <2>1, <2>2, <2>4, ExportTurn DEF FolderInv, FolderShape
\* The record found is the destination's own, and enabled.
<1>4. ASSUME NEW next \in {"looking", "lookingAgain"}, NEW d \in Destinations, NEW owner \in Owners,
             Folder!Found(x, next, d, owner), Folder!Of(d, owner), delegated[d].enabled
      PROVE  \E q \in Proposed : /\ proposal' = [proposal EXCEPT ![x] = q] /\ proposal'[x] = q
                                 /\ q.at = next /\ q.id = d /\ q.owner = owner /\ q.first = p.first
                                 /\ q.record = delegated[d] /\ q.record \in Delegations
                                 /\ q.record.owner = owner /\ q.record.enabled /\ picked[d] # None
  <2>1. delegated[d] \in Delegations /\ delegated[d].owner = owner /\ delegated[d].dir = picked[d]
    BY <1>4 DEF Folder!Of, Folder!Exists, FolderInv, FolderShape, DelegatedArePicked
  <2>2. picked[d] # None
    BY <1>2, <2>1 DEF Delegations
  <2>3. PICK q \in Proposed : /\ q = [p EXCEPT !.at = next, !.id = d, !.owner = owner, !.record = delegated[d]]
                              /\ q.at = next /\ q.id = d /\ q.owner = owner /\ q.record = delegated[d] /\ q.first = p.first
    <3>1. [p EXCEPT !.at = next, !.id = d, !.owner = owner, !.record = delegated[d]] \in Proposed
      BY <2>1 DEF ProposalSteps
    <3> QED  BY <3>1
  <2>4. proposal' = [proposal EXCEPT ![x] = q]
    BY <1>1, <1>4, <2>3 DEF Folder!Found, FolderInv, FolderShape
  <2>5. proposal'[x] = q
    BY <2>4 DEF FolderInv, FolderShape
  <2> QED  BY <1>4, <2>1, <2>2, <2>3, <2>4, <2>5
<1>5. ASSUME NEW next, NEW d, NEW owner, Folder!Found(x, next, d, owner), ~(Folder!Of(d, owner) /\ delegated[d].enabled)
      PROVE  proposal' = [proposal EXCEPT ![x].at = "over"]
  BY <1>5 DEF Folder!Found
<1>6. ASSUME NEW d \in Destinations, NEW owner \in Owners, Folder!Propose(x, d, owner) PROVE FolderInv'
  <2>1. /\ p.at = "none" /\ Folder!Found(x, "looking", d, owner)
        /\ UNCHANGED <<granted, tree, obstacle, delegated, desk, picked, startedIn>>
    BY <1>1, <1>6 DEF Folder!Propose
  <2>2. CASE Folder!Of(d, owner) /\ delegated[d].enabled
    <3>1. PICK q \in Proposed : /\ proposal' = [proposal EXCEPT ![x] = q] /\ proposal'[x] = q
                                /\ q.at = "looking" /\ q.id = d /\ q.owner = owner
                                /\ q.record = delegated[d] /\ q.record \in Delegations
                                /\ q.record.owner = owner /\ q.record.enabled /\ picked[d] # None
      BY <1>4, <2>1, <2>2
    <3>2. Follows(q.record, delegated[d])
      BY <3>1 DEF Follows, Delegations
    <3>3. startedIn[x] = None
      BY <1>1, <1>2, <2>1 DEF ProposalKnows
    <3>4. ProposalKnows(x)'
      BY <2>1, <3>1, <3>2, <3>3 DEF ProposalKnows
    <3> QED  BY <2>1, <3>1, <3>4, ExportTurn DEF FolderInv, FolderShape
  <2> QED  BY <1>3, <1>5, <2>1, <2>2
<1>7. CASE Folder!Look(x)
  <2>1. /\ p.at = "looking" /\ UNCHANGED <<granted, tree, obstacle, delegated, desk, picked, startedIn>>
        /\ proposal' = [proposal EXCEPT ![x] = IF Folder!StillThere(p.record)
                                               THEN [p EXCEPT !.at = "proposed", !.first = p.record]
                                               ELSE [p EXCEPT !.at = "over"]]
    BY <1>1, <1>7 DEF Folder!Look
  <2>2. CASE Folder!StillThere(p.record)
    <3>1. PICK q \in Proposed : /\ q = [p EXCEPT !.at = "proposed", !.first = p.record]
                                /\ q.at = "proposed" /\ q.id = p.id /\ q.owner = p.owner /\ q.record = p.record /\ q.first = p.record
      <4>1. [p EXCEPT !.at = "proposed", !.first = p.record] \in Proposed
        BY DEF ProposalSteps
      <4> QED  BY <4>1
    <3>2. proposal' = [proposal EXCEPT ![x] = q] /\ proposal'[x] = q
      BY <2>1, <2>2, <3>1 DEF FolderInv, FolderShape
    <3>3. ProposalKnows(x)'
      BY <1>1, <1>2, <2>1, <3>1, <3>2 DEF ProposalKnows, Follows
    <3> QED  BY <2>1, <3>1, <3>2, <3>3, ExportTurn DEF FolderInv, FolderShape
  <2>3. CASE ~Folder!StillThere(p.record)
    <3>1. proposal' = [proposal EXCEPT ![x].at = "over"]
      BY <1>1, <2>1, <2>3
    <3> QED  BY <1>3, <2>1, <3>1
  <2> QED  BY <2>2, <2>3
<1>8. CASE Folder!Start(x)
  <2>1. /\ p.at = "proposed" /\ UNCHANGED <<granted, tree, obstacle, delegated, desk, picked, startedIn>>
        /\ Folder!Found(x, "lookingAgain", p.id, p.owner) \/ proposal' = [proposal EXCEPT ![x].at = "over"]
    BY <1>1, <1>8 DEF Folder!Start
  <2>2. /\ p.id \in Destinations /\ p.owner \in Owners /\ p.first \in Delegations /\ Follows(p.first, delegated[p.id])
        /\ startedIn[x] = None
    BY <1>1, <1>2, <2>1 DEF ProposalKnows, Delegations
  <2>3. CASE Folder!Found(x, "lookingAgain", p.id, p.owner) /\ Folder!Of(p.id, p.owner) /\ delegated[p.id].enabled
    <3>1. PICK q \in Proposed : /\ proposal' = [proposal EXCEPT ![x] = q] /\ proposal'[x] = q
                                /\ q.at = "lookingAgain" /\ q.id = p.id /\ q.owner = p.owner /\ q.first = p.first
                                /\ q.record = delegated[p.id] /\ q.record \in Delegations
                                /\ q.record.owner = p.owner /\ q.record.enabled /\ picked[p.id] # None
      BY <1>4, <2>2, <2>3
    <3>2. ProposalKnows(x)'
      BY <2>1, <2>2, <3>1 DEF ProposalKnows
    <3> QED  BY <2>1, <3>1, <3>2, ExportTurn DEF FolderInv, FolderShape
  <2> QED  BY <1>3, <1>5, <2>1, <2>3
<1>9. CASE Folder!Confirm(x)
  <2>1. /\ p.at = "lookingAgain" /\ UNCHANGED <<granted, tree, obstacle, delegated, desk, picked>>
        /\ \/ proposal' = [proposal EXCEPT ![x].at = "over"] /\ UNCHANGED startedIn
           \/ /\ Folder!StillThere(p.record) /\ p.record.revision = p.first.revision
              /\ proposal' = [proposal EXCEPT ![x].at = "started"]
              /\ startedIn' = [startedIn EXCEPT ![x] = <<Folder!DirectoryIdentity(p.record.place), obstacle[p.record.place]>>]
    BY <1>1, <1>9 DEF Folder!Confirm
  <2>2. CASE /\ Folder!StillThere(p.record) /\ p.record.revision = p.first.revision
             /\ proposal' = [proposal EXCEPT ![x].at = "started"]
             /\ startedIn' = [startedIn EXCEPT ![x] = <<Folder!DirectoryIdentity(p.record.place), obstacle[p.record.place]>>]
    <3>1. /\ p.id \in Destinations /\ picked[p.id] # None /\ p.record \in Delegations /\ p.first \in Delegations
          /\ p.record.owner = p.owner /\ p.record.enabled
          /\ p.record.place = p.first.place /\ p.record.dir = p.first.dir
      BY <1>1, <1>2, <2>1, <2>2 DEF ProposalKnows, Follows
    <3>2. PICK q \in Proposed : /\ q = [p EXCEPT !.at = "started"] /\ q.at = "started" /\ q.id = p.id
                                /\ q.owner = p.owner /\ q.record = p.record /\ q.first = p.first
      <4>1. [p EXCEPT !.at = "started"] \in Proposed
        BY DEF ProposalSteps
      <4> QED  BY <4>1
    <3>3. proposal' = [proposal EXCEPT ![x] = q] /\ proposal'[x] = q
      BY <1>1, <2>2, <3>2 DEF FolderInv, FolderShape
    <3>4. /\ p.record.place \in Folders /\ p.record.dir \in Names
          /\ Folder!DirectoryIdentity(p.record.place) = p.record.dir /\ obstacle[p.record.place] = None
      <4>1. p.record.place \in Folders /\ p.record.dir \in Names /\ Folder!Inspected(p.record.place) = p.record.dir
        BY <2>2, <3>1 DEF Delegations, Folder!StillThere
      <4>2. obstacle[p.record.place] \in Folder!Obstacles \cup {None}
        BY <4>1 DEF FolderInv, FolderShape
      <4> QED  BY <1>2, <4>1, <4>2 DEF Folder!Inspected, Folder!Obstacles, Folder!Substituted, Folder!Remote, Folder!Protected
    <3>5. /\ startedIn' \in [Proposals -> ((Names \cup {None}) \X (Folder!Obstacles \cup {None})) \cup {None}]
          /\ startedIn'[x] = <<p.first.dir, None>>
          /\ \A y \in Proposals : y # x => startedIn'[y] = startedIn[y]
      BY <2>2, <3>1, <3>4 DEF FolderInv, FolderShape
    <3>6. ProposalKnows(x)'
      BY <2>1, <3>1, <3>2, <3>3, <3>5 DEF ProposalKnows
    <3> QED  BY <2>1, <3>2, <3>3, <3>5, <3>6, ExportTurn
  <2> QED  BY <1>3, <2>1, <2>2
<1> QED  BY <1>6, <1>7, <1>8, <1>9

\* Exports of a destination that changed are over.
LEMMA InvalidateStep ==
  ASSUME FolderInv, Folder!Invalidate PROVE FolderInv'
<1>1. /\ UNCHANGED <<granted, tree, obstacle, delegated, startedIn, picked>> /\ desk' = Folder!NoCommand
      /\ proposal' = [x \in Proposals |->
           IF proposal[x].id = desk.id /\ proposal[x].at \in {"proposed", "started"}
           THEN [proposal[x] EXCEPT !.at = "over"] ELSE proposal[x]]
  BY DEF Folder!Invalidate
<1>2. \A x \in Proposals :
        /\ [proposal[x] EXCEPT !.at = "over"] \in [at : ProposalSteps, id : Destinations \cup {None}, owner : Owners \cup {None},
                                   record : Delegations \cup {None}, first : Delegations \cup {None}]
        /\ [proposal[x] EXCEPT !.at = "over"].at = "over" /\ [proposal[x] EXCEPT !.at = "over"].id = proposal[x].id
        /\ [proposal[x] EXCEPT !.at = "over"].owner = proposal[x].owner
        /\ [proposal[x] EXCEPT !.at = "over"].record = proposal[x].record
        /\ [proposal[x] EXCEPT !.at = "over"].first = proposal[x].first
  BY DEF FolderInv, FolderShape, ProposalSteps
<1>3. FolderShape'
  BY <1>1, <1>2 DEF FolderInv, FolderShape, Folder!NoCommand
<1>4. DeskKnows' /\ DelegatedArePicked'
  BY <1>1 DEF FolderInv, DeskKnows, DelegatedArePicked, Folder!NoCommand
<1>5. ASSUME NEW x \in Proposals PROVE ProposalKnows(x)'
  <2>1. \/ proposal'[x] = proposal[x]
        \/ /\ proposal'[x].at = "over" /\ proposal'[x].id = proposal[x].id /\ proposal'[x].owner = proposal[x].owner
           /\ proposal'[x].record = proposal[x].record /\ proposal'[x].first = proposal[x].first
    BY <1>1, <1>2
  <2>2. ProposalKnows(x)
    BY DEF FolderInv
  <2> QED  BY <1>1, <2>1, <2>2 DEF ProposalKnows
<1>6. WithinLimit'
  BY <1>1, NoneAdded
<1> QED  BY <1>3, <1>4, <1>5, <1>6 DEF FolderInv

LEMMA FolderStep == FolderInv /\ Folder!DestinationNext => FolderInv'
BY DeskSteps, StoreStep, InvalidateStep, ExportSteps, WorldSteps DEF Folder!DestinationNext, Operations, Owners

LEMMA FolderShows == FolderInv => Folder!StartsWherePicked
<1> SUFFICES ASSUME FolderInv PROVE Folder!StartsWherePicked
  OBVIOUS
<1>1. \A d \in Destinations : Folder!Exists(d) => delegated[d].owner \in granted /\ delegated[d].dir = picked[d]
  BY DEF FolderInv, DelegatedArePicked, Folder!Exists
<1>2. \A owner \in {Client} \X Profiles : Folder!Cardinality(Folder!OwnedBy(owner)) <= OwnerLimit
  BY DEF FolderInv, WithinLimit, Owners
<1>3. ASSUME NEW x \in Proposals, startedIn[x] # None
      PROVE  LET first == proposal[x].first  now == proposal[x].record IN
             /\ now.place = first.place /\ now.dir = first.dir /\ startedIn[x] = <<first.dir, None>>
             /\ now.owner = proposal[x].owner /\ now.enabled
  BY <1>3 DEF FolderInv, ProposalKnows
<1> QED  BY <1>1, <1>2, <1>3 DEF Folder!StartsWherePicked

--------------------------------------------------------------------------------
(* The parts side by side.                                                 *)

AgentsInv ==
    /\ focus = "setup" => SetupInv /\ Hosts = {"desktop", "cli", "skill"}
    /\ focus = "list" => SetupInv /\ Hosts = {"cli"}
    /\ focus = "bridge" => BridgeInv
    /\ focus = "folder" => FolderInv

LEMMA FolderStutters == FolderInv /\ UNCHANGED folderVars /\ UNCHANGED desk => FolderInv'
<1> SUFFICES ASSUME FolderInv, UNCHANGED folderVars, UNCHANGED desk PROVE FolderInv'
  OBVIOUS
<1>1. FolderShape' /\ DeskKnows'
  BY DEF FolderInv, FolderShape, DeskKnows, folderVars
<1> QED  BY <1>1, FolderFrame DEF folderVars

LEMMA AgentsStep ==
    ASSUME AgentsInv, [DesktopNext]_vars
    PROVE  /\ AgentsInv'
           /\ [(focus = "setup" => Setup!KeepsForeign) /\ (focus = "list" => Lists!KeepsForeign)]_setupVars
<1>1. CASE DesktopNext
  <2>1. /\ UNCHANGED focus
        /\ focus = "setup" => Setup!SetupNext
        /\ focus = "list" => Lists!SetupNext
        /\ focus = "bridge" => Bridge!BridgeNext
        /\ focus = "folder" => Folder!DestinationNext
    BY <1>1 DEF DesktopNext
  <2> QED  BY <2>1, SetupStep, ListsStep, BridgeStep, FolderStep DEF AgentsInv
<1>2. CASE UNCHANGED vars
  <2>1. UNCHANGED <<focus, desk>> /\ UNCHANGED setupVars /\ UNCHANGED bridgeVars /\ UNCHANGED folderVars
    BY <1>2 DEF vars
  <2> QED  BY <2>1, SetupStutters, BridgeStutters, FolderStutters DEF AgentsInv
<1> QED  BY <1>1, <1>2

LEMMA AgentsInvariant == DesktopSpec => []AgentsInv
<1>1. DesktopInit => AgentsInv
  BY SetupStart, BridgeStart, FolderStart DEF DesktopInit, AgentsInv
<1>2. AgentsInv /\ [DesktopNext]_vars => AgentsInv'
  BY AgentsStep
<1> QED  BY <1>1, <1>2, PTL DEF DesktopSpec

\* What applying a change reported about a host is so until somebody changes that host: done
\* means the host holds the entry the receipt names, reverted or restored that entry and
\* receipt are as they were.  For one change at a time of any host and for several of one
\* list, whatever step fails and whoever edits the host between two of them (agent_setup.rs).
THEOREM SetupReportsAreTrue == DesktopSpec => []ReportsAreTrue
<1>1. AgentsInv => ReportsAreTrue
  BY SetupReports DEF AgentsInv, ReportsAreTrue
<1> QED  BY <1>1, AgentsInvariant, PTL

\* No step of Tarik changes other settings of a host or an entry that is not Tarik's, unless
\* it was changed after Tarik last looked (agent_setup.rs).
THEOREM SetupKeepsForeign == DesktopSpec => ForeignIsKept
<1>1. AgentsInv /\ [DesktopNext]_vars =>
         [(focus = "setup" => Setup!KeepsForeign) /\ (focus = "list" => Lists!KeepsForeign)]_setupVars
  BY AgentsStep
<1> QED  BY <1>1, AgentsInvariant, PTL DEF DesktopSpec, ForeignIsKept

\* Once stopping the bridge has returned no listener and no connection thread of it is left
\* and the endpoint is not ready; while a bridge runs, bridge.json names that bridge or none.
\* For any number of instances, connections and commands, with crashes, failed starts and
\* listeners that fail, in any order (agent_bridge.rs).
THEOREM BridgeStopsQuietly == DesktopSpec => []StoppedIsQuiet
<1>1. AgentsInv => StoppedIsQuiet
  BY BridgeIsQuiet DEF AgentsInv, StoppedIsQuiet
<1> QED  BY <1>1, AgentsInvariant, PTL

\* Every frame under way to the client on a connection it uses answers the request it waits
\* for, although nobody compares the numbers: what failed on the way took its connection
\* with it (bridge.rs and server.rs of tarik-mcp).
THEOREM BridgeAnswersAreAsked == DesktopSpec => []AnswersAreAsked
<1>1. AgentsInv => AnswersAreAsked
  BY BridgeAnswers DEF AgentsInv, AnswersAreAsked
<1> QED  BY <1>1, AgentsInvariant, PTL

\* Delegations are of the folder their owner picked last, of owners who have the grant and
\* no more than the limit; and an export starts in the folder it was proposed for, which
\* is still there and fit (agent_destinations.rs, resolve_for_export and start_locked).
THEOREM ExportsStartWherePicked == DesktopSpec => []StartsWherePicked
<1>1. AgentsInv => StartsWherePicked
  BY FolderShows DEF AgentsInv, StartsWherePicked
<1> QED  BY <1>1, AgentsInvariant, PTL

================================================================================

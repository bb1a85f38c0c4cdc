------------------------------ MODULE ConfigFile ------------------------------
(***************************************************************************)
(* config.json, the keychain and the tasks that rewrite them (config.rs,   *)
(* secret_store.rs, post_config of ui_server.rs, the mode callback and the *)
(* start of main.rs).                                                      *)
(*                                                                         *)
(* write_config reads the file, merges and calls fs::write, which          *)
(* truncates first; no lock spans the three.  decode_config takes a file   *)
(* it cannot parse for an empty one, so a truncated file reads as          *)
(* Defaults.  A rewrite runs on a thread of its own and is not cut short   *)
(* by a timeout, only by a crash.  Encryption at rest changes none of this *)
(* while the master key stays the same, and is left out.                   *)
(***************************************************************************)
EXTENDS Naturals

CONSTANTS
    Accounts,    \* the secrets: vtApiKey and apiToken
    Required,    \* those the daemon does not start without
    Clearable,   \* those the API clears when it is sent an empty string
    Values,      \* what a secret may be
    Places,      \* what watchPath and quarantinePath may be
    Env,         \* the secrets given by environment variables
    Posts,       \* the bodies of POST /api/config
    Writers,     \* requests that may rewrite the file
    Boot,        \* the rewrite that the migration makes at start-up
    MaxRestarts, MaxEdits

Absent == "absent"
Blank  == ""
Mask   == "masked"        \* what GET /api/config shows instead of a secret
Modes == {"active", "scan_paused", "monitoring_disabled"}
Backends == {"file", "keychain"}

Secret == Values \cup {Absent, Blank}

\* RawConfig; the paths stand for every ordinary setting.
Configs == [key : [Accounts -> Secret], backend : Backends \cup {Absent},
            mode : Modes \cup {Absent}, paths : Places \cup {Absent}]

ASSUME ConfigAssumption ==
    /\ Required \subseteq Accounts /\ Clearable \subseteq Accounts \ Required
    /\ {Absent, Blank, Mask} \cap Values = {} /\ Absent \notin Places
    /\ Env \in [Accounts -> Values \cup {Absent}]
    /\ Posts \subseteq [key : [Accounts -> Values \cup {Absent, Blank, Mask}],
                        backend : Backends \cup {Absent}, paths : Places \cup {Absent}]
    /\ Boot \notin Writers
    /\ MaxRestarts \in Nat /\ MaxEdits \in Nat

VARIABLES
    disk,       \* config.json, as decode_config reads it
    store,      \* the keychain items
    unlocked,   \* the keychain can be used in this run of the daemon
    proc,       \* where the daemon stands
    live,       \* its resolved configuration
    todo,       \* secrets the migration still has to store
    blanks,     \* secrets it will blank in the file
    step,       \* where each rewrite stands
    upd,        \* the fields it updates
    buf,        \* what it is going to write
    restarts, edits,
    \* Observation only: no guard reads these.
    given,      \* secrets that the user has given and not cleared
    acked,      \* the file as it should be, by every rewrite that finished
    spoiled,    \* what went wrong with the file: "race", "crash", "migration"
    migrated    \* the migration of this run went through

start   == <<unlocked, live, todo, blanks>>
rewrite == <<step, upd, buf>>
bounds  == <<restarts, edits>>
seen    == <<given, acked, spoiled, migrated>>
vars    == <<disk, store, proc, start, rewrite, bounds, seen>>

Defaults == [key |-> [a \in Accounts |-> Absent], backend |-> Absent, mode |-> Absent,
             paths |-> Absent]

Starting == {"plan", "store", "blank", "check"}

Tasks == Writers \cup {Boot}

TypeOK ==
    /\ disk \in Configs /\ acked \in Configs
    /\ store \in [Accounts -> Values \cup {Absent}]
    /\ unlocked \in BOOLEAN /\ migrated \in BOOLEAN
    /\ proc \in {"off", "up", "refused"} \cup Starting
    /\ live \in [key : [Accounts -> Values \cup {Blank}], backend : Backends, mode : Modes,
                 paths : Places \cup {Absent}]
    /\ todo \subseteq Accounts /\ blanks \subseteq Accounts
    /\ step \in [Tasks -> {"idle", "begun", "read", "truncated", "done"}]
    /\ upd \in [Tasks -> Configs] /\ buf \in [Tasks -> Configs]
    /\ restarts \in 0..MaxRestarts /\ edits \in 0..MaxEdits
    /\ given \subseteq Accounts
    /\ spoiled \subseteq {"race", "crash", "migration"}

-------------------------------------------------------------------------------
(* The functions of config.rs and secret_store.rs.                          *)

Over(new, old) == IF new # Absent THEN new ELSE old

\* merge_raw: only the provided keys change.
MergeRaw(c, u) ==
    [key     |-> [a \in Accounts |-> Over(u.key[a], c.key[a])],
     backend |-> Over(u.backend, c.backend),
     mode    |-> Over(u.mode, c.mode),
     paths   |-> Over(u.paths, c.paths)]

\* resolve: file over environment over default.  A blank value is a value.
FromFile(c, a) == LET v == Over(c.key[a], Env[a]) IN IF v = Absent THEN Blank ELSE v

Backend(c) == IF c.backend = "keychain" THEN "keychain" ELSE "file"

\* Mutant: the overlay is forgotten.
OverlayMutant(c, a, open) == FromFile(c, a)

\* apply_secret_store: a stored secret wins; with a keychain that cannot be read
\* the file and the environment must do.
Overlay(c, a, open) ==
    IF Backend(c) = "keychain" /\ open /\ store[a] # Absent THEN store[a] ELSE FromFile(c, a)

Resolved(c, open) ==
    [key |-> [a \in Accounts |-> Overlay(c, a, open)], backend |-> Backend(c),
     mode |-> IF c.mode = Absent THEN "active" ELSE c.mode, paths |-> c.paths]

InFile == {a \in Accounts : disk.key[a] \notin {Absent, Blank}}
InStore == {a \in Accounts : store[a] # Absent}

\* plan_secret_migration: what to store, and what to blank.
PlannedWrites == InFile \ InStore
PlannedBlanks == InFile

\* Mutant: the mask that the settings page sends back is taken for a new secret.
ShouldUpdateMutant(a, v) == v \notin {Absent, Blank} \/ (v = Blank /\ a \in Clearable)

\* should_update_secret_field, and the empty apiToken that clears it.
ShouldUpdate(a, v) == v \notin {Absent, Blank, Mask} \/ (v = Blank /\ a \in Clearable)

\* The update that blanks what was migrated.
Blanked == [Defaults EXCEPT !.key = [a \in Accounts |-> IF a \in blanks THEN Blank ELSE Absent]]

\* KeychainStore: set stores or overwrites; delete, for a blank, finds nothing odd in
\* an item that is not there.
Keychain(A, asked) ==
    [a \in Accounts |-> IF a \notin A THEN store[a]
                        ELSE IF asked[a] = Blank THEN Absent ELSE asked[a]]

Init ==
    /\ disk \in {c \in Configs : c.mode = "active" /\ c.paths # Absent
                                /\ \A a \in Accounts : c.key[a] # Blank}
    /\ \A a \in Required : disk.key[a] # Absent
    /\ store = [a \in Accounts |-> Absent]
    /\ unlocked = TRUE /\ proc = "off"
    /\ live = Resolved(disk, FALSE)
    /\ todo = {} /\ blanks = {}
    /\ step = [t \in Tasks |-> "idle"]
    /\ upd = [t \in Tasks |-> Defaults] /\ buf = [t \in Tasks |-> Defaults]
    /\ restarts = 0 /\ edits = 0
    /\ given = InFile /\ acked = disk
    /\ spoiled = {} /\ migrated = FALSE

-------------------------------------------------------------------------------
(* write_config, by whichever task: read and merge, truncate, write.        *)

InFlight(t) == step[t] \in {"begun", "read", "truncated"}

\* Task t is about to call write_config with the fields u.
Begin(t, u) ==
    /\ step' = [step EXCEPT ![t] = "begun"]
    /\ upd' = [upd EXCEPT ![t] = u]
    /\ spoiled' = IF \E x \in Tasks \ {t} : InFlight(x) THEN spoiled \cup {"race"} ELSE spoiled
    /\ UNCHANGED <<disk, buf>>

RewriteFrame == UNCHANGED <<store, proc, start, upd, bounds, given, acked, spoiled, migrated>>

\* Mutant: the file is not read again before it is replaced.
ReadFileMutant(t) ==
    /\ step[t] = "begun"
    /\ step' = [step EXCEPT ![t] = "read"]
    /\ buf' = [buf EXCEPT ![t] = MergeRaw(Defaults, upd[t])]
    /\ UNCHANGED disk /\ RewriteFrame

ReadFile(t) ==
    /\ step[t] = "begun"
    /\ step' = [step EXCEPT ![t] = "read"]
    /\ buf' = [buf EXCEPT ![t] = MergeRaw(disk, upd[t])]
    /\ UNCHANGED disk /\ RewriteFrame

Truncate(t) ==
    /\ step[t] = "read"
    /\ step' = [step EXCEPT ![t] = "truncated"]
    /\ disk' = Defaults
    /\ UNCHANGED buf /\ RewriteFrame

\* The new content is written; the request is answered.
WriteFile(t) ==
    /\ step[t] = "truncated"
    /\ step' = [step EXCEPT ![t] = "done"]
    /\ disk' = buf[t]
    /\ acked' = MergeRaw(acked, upd[t])
    /\ given' = given \cup {a \in Accounts : upd[t].key[a] \in Values}
    /\ upd' = [upd EXCEPT ![t] = Defaults] /\ buf' = [buf EXCEPT ![t] = Defaults]
    /\ UNCHANGED <<store, proc, start, bounds, spoiled, migrated>>

-------------------------------------------------------------------------------
(* A start of the daemon: load, run_secret_migration, the checks of main.   *)

StartFrame == UNCHANGED <<bounds, given, acked>>

\* load.  A locked keychain is locked for the whole run.
Load ==
    /\ proc = "off"
    /\ unlocked' \in BOOLEAN
    /\ live' = Resolved(disk, unlocked')
    /\ proc' = IF Backend(disk) = "keychain" THEN "plan" ELSE "check"
    /\ migrated' = FALSE
    /\ UNCHANGED <<disk, store, todo, blanks, rewrite, spoiled>> /\ StartFrame

\* migrate_secrets_to_keychain reads both places and plans; without a keychain, or
\* with nothing to move, it is over.
Plan ==
    /\ proc = "plan"
    /\ todo' = PlannedWrites /\ blanks' = PlannedBlanks
    /\ proc' = IF unlocked /\ PlannedBlanks # {} THEN "store" ELSE "check"
    /\ migrated' = (unlocked /\ PlannedBlanks = {})
    /\ UNCHANGED <<disk, store, unlocked, live, rewrite, spoiled>> /\ StartFrame

\* Mutant: what was set is not read back.
StoreOneMutant ==
    /\ proc = "store"
    /\ \E a \in todo :
        /\ store' \in {store, [store EXCEPT ![a] = disk.key[a]]}
        /\ todo' = todo \ {a}
    /\ UNCHANGED <<disk, unlocked, proc, live, blanks, rewrite, spoiled, migrated>>
    /\ StartFrame

\* One secret is set and read back.  If the keychain kept nothing, or failed, the
\* migration stops here.
StoreOne ==
    /\ proc = "store"
    /\ \E a \in todo :
        /\ store' \in {store, [store EXCEPT ![a] = disk.key[a]]}
        /\ \/ store'[a] = disk.key[a] /\ todo' = todo \ {a} /\ UNCHANGED proc
           \/ proc' = "check" /\ UNCHANGED todo
    /\ UNCHANGED <<disk, unlocked, live, blanks, rewrite, spoiled, migrated>> /\ StartFrame

\* All are confirmed: a write_config blanks the plaintext.
BlankPlaintext ==
    /\ proc = "store" /\ todo = {}
    /\ proc' = "blank"
    /\ Begin(Boot, Blanked)
    /\ UNCHANGED <<store, start, migrated>> /\ StartFrame

MigrationEnds ==
    /\ proc = "blank" /\ step[Boot] = "done"
    /\ proc' = "check" /\ migrated' = TRUE
    /\ UNCHANGED <<disk, store, start, rewrite, spoiled>> /\ StartFrame

\* main refuses to run without its key and its folders.
Check ==
    /\ proc = "check"
    /\ proc' = IF live.paths # Absent /\ \A a \in Required : live.key[a] # Blank
               THEN "up" ELSE "refused"
    /\ UNCHANGED <<disk, store, start, rewrite, spoiled, migrated>> /\ StartFrame

-------------------------------------------------------------------------------
(* The daemon at work.                                                      *)

\* Mutant: the secrets also stay among the updates.
StrippedMutant(p, asked) == [Defaults EXCEPT !.key = asked, !.backend = p.backend, !.paths = p.paths]

\* route_secrets_to_store takes the secrets out of the updates.
Stripped(p, asked) == [Defaults EXCEPT !.backend = p.backend, !.paths = p.paths]

\* post_config.  With the keychain backend the secrets go there, one after the
\* other; an error answers 500 before config.json is touched.
Post(w) ==
    /\ proc = "up" /\ step[w] = "idle"
    /\ \E p \in Posts :
        LET asked  == [a \in Accounts |-> IF ShouldUpdate(a, p.key[a]) THEN p.key[a] ELSE Absent]
            routed == {a \in Accounts : asked[a] # Absent}
            cleared == {a \in Accounts : asked[a] = Blank}
        IN  IF live.backend = "file"
            THEN /\ Begin(w, [Defaults EXCEPT !.key = asked, !.backend = p.backend,
                                              !.paths = p.paths])
                 /\ given' = given \ cleared /\ UNCHANGED store
            ELSE \/ /\ Begin(w, Stripped(p, asked))
                    /\ store' = Keychain(routed, asked) /\ given' = (given \ cleared) \cup (routed \ cleared)
                 \/ \E A \in SUBSET routed \ {routed} :
                    /\ store' = Keychain(A, asked) /\ given' = (given \ cleared) \cup (A \ cleared)
                    /\ step' = [step EXCEPT ![w] = "done"]
                    /\ UNCHANGED <<disk, upd, buf, spoiled>>
    /\ UNCHANGED <<proc, start, bounds, acked, migrated>>

\* Mutant: the callback is called before the mode is compared and swapped.
SetModeMutant(w) ==
    /\ proc = "up" /\ step[w] = "idle"
    /\ \E m \in Modes : Begin(w, [Defaults EXCEPT !.mode = m]) /\ UNCHANGED live
    /\ UNCHANGED <<store, proc, unlocked, todo, blanks, bounds, given, acked, migrated>>

\* Watcher::set_mode: the mode in memory, then the callback that writes it.
SetMode(w) ==
    /\ proc = "up" /\ step[w] = "idle"
    /\ \E m \in Modes \ {live.mode} :
        /\ live' = [live EXCEPT !.mode = m]
        /\ Begin(w, [Defaults EXCEPT !.mode = m])
    /\ UNCHANGED <<store, proc, unlocked, todo, blanks, bounds, given, acked, migrated>>

-------------------------------------------------------------------------------
(* Outside: the process dies (or has refused) and is started again; its     *)
(* owner writes a secret into the file while it is down.                    *)

Restart ==
    /\ proc # "off" /\ restarts < MaxRestarts
    /\ restarts' = restarts + 1 /\ proc' = "off"
    /\ step' = [t \in Tasks |-> IF t = Boot THEN "idle" ELSE IF InFlight(t) THEN "done" ELSE step[t]]
    /\ upd' = [t \in Tasks |-> Defaults] /\ buf' = [t \in Tasks |-> Defaults]
    /\ spoiled' = spoiled
        \cup (IF \E w \in Writers : step[w] = "truncated" THEN {"crash"} ELSE {})
        \cup (IF step[Boot] = "truncated" THEN {"migration"} ELSE {})
    /\ UNCHANGED <<disk, store, start, edits, given, acked, migrated>>

EditFile ==
    /\ proc = "off" /\ edits < MaxEdits
    /\ edits' = edits + 1
    /\ \E a \in Accounts, v \in Values :
        /\ disk' = [disk EXCEPT !.key[a] = v]
        /\ acked' = [acked EXCEPT !.key[a] = v]
        /\ given' = given \cup {a}
    /\ UNCHANGED <<store, proc, start, rewrite, restarts, spoiled, migrated>>

Next ==
    \/ \E t \in Tasks : ReadFile(t) \/ Truncate(t) \/ WriteFile(t)
    \/ Load \/ Plan \/ StoreOne \/ BlankPlaintext \/ MigrationEnds \/ Check
    \/ \E w \in Writers : Post(w) \/ SetMode(w)
    \/ Restart \/ EditFile

Spec == Init /\ [][Next]_vars

-------------------------------------------------------------------------------
(* Properties.                                                              *)

\* No secret is lost: what the user has given and not cleared is in config.json
\* or in the keychain, through every start, migration and change of backend, with
\* a crash at any step of them and a keychain that fails; unless two requests
\* rewrote the file at once, or a crash cut a request's rewrite short.
SecretHasAPlace ==
    spoiled \subseteq {"migration"} /\ (\A w \in Writers : step[w] # "truncated") =>
        given \subseteq InFile \cup InStore

\* ui_server.rs:468, secrets never land in config.json as plaintext: once a
\* migration has gone through, none is there, whatever is posted meanwhile.
NoPlaintextOnceMigrated == proc = "up" /\ migrated => InFile = {}

\* An answered update stays: while no rewrite is under way the file is what all the
\* updates say that were ever answered, over crashes too, unless it was spoiled.
UpdatesStay == spoiled = {} /\ (\A t \in Tasks : ~InFlight(t)) => disk = acked

\* The mode in force is the mode on disk, and so that of the next start, whenever
\* no rewrite is under way.
ModeIsPersisted ==
    spoiled = {} /\ proc = "up" /\ (\A t \in Tasks : ~InFlight(t)) =>
        live.mode = Resolved(disk, FALSE).mode

\* A configuration the daemon ran with lets it start again, after any crash and any
\* updates, unless the file was spoiled, the keychain cannot be read, or the user
\* went back to the file backend while the key was in the keychain.
StartsAgain ==
    proc = "refused" =>
        spoiled # {} \/ (unlocked = FALSE) \/ (live.backend = "file" /\ Required \ InFile # {})

\* docs/security-hardening.md:50: if the keychain is unreadable the daemon "falls
\* back to file/env values rather than crashing".
UnreadableKeychainFallsBack ==
    proc = "refused" /\ ~unlocked /\ live.paths # Absent => \E a \in Required : Env[a] = Absent
===============================================================================

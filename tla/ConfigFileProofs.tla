--------------------------- MODULE ConfigFileProofs ---------------------------
(***************************************************************************)
(* Theorems about ConfigFile, for any secrets, values, folders, request    *)
(* bodies, environment and number of requests, restarts and edits.         *)
(*                                                                         *)
(* The invariants build on each other.  Turns says who may be rewriting    *)
(* the file at which stage of the daemon's life, and that two rewrites at  *)
(* once are noticed; Moving what the migration has reached; Written what   *)
(* an answered update is worth; Kept where each secret is, down to the     *)
(* buffer of a rewrite that has truncated the file; Clean that a migrated  *)
(* file holds no secret, nor does what is about to replace it.             *)
(***************************************************************************)
EXTENDS ConfigFile, TLAPS

\* A request rewrites the file while the daemon is up, the migration before.
Turns ==
    /\ \A w \in Writers : InFlight(w) => proc = "up"
    /\ InFlight(Boot) => proc = "blank"
    /\ proc = "blank" => InFlight(Boot) \/ step[Boot] = "done"
    /\ "race" \notin spoiled => \A t, x \in Tasks : InFlight(t) /\ InFlight(x) => t = x

\* The secrets that a configuration spells out.
Spelled(c) == {a \in Accounts : c.key[a] \notin {Absent, Blank}}

\* With the keychain backend no request writes a secret to the file.
Routed ==
    /\ proc \in {"plan", "store", "blank"} => live.backend = "keychain"
    /\ live.backend = "keychain" => \A w \in Writers : InFlight(w) =>
           \A a \in Accounts : upd[w].key[a] = Absent

\* From the plan to the blanked file.
Moving ==
    /\ proc = "store" => /\ todo \subseteq InFile /\ InFile \subseteq todo \cup InStore
                         /\ blanks = InFile
    /\ proc = "blank" =>
        /\ step[Boot] \in {"begun", "read"} => InFile \subseteq InStore /\ blanks = InFile
        /\ InFlight(Boot) => upd[Boot] = Blanked
        /\ step[Boot] \in {"read", "truncated"} => Spelled(buf[Boot]) = {}
        /\ step[Boot] \in {"truncated", "done"} => InFile = {}

\* A file that nothing spoiled is the sum of the answered updates, or about to be.
Written ==
    spoiled = {} =>
        /\ (\A t \in Tasks : step[t] # "truncated") => disk = acked
        /\ \A t \in Tasks : step[t] \in {"read", "truncated"} => buf[t] = MergeRaw(acked, upd[t])

\* Where the secrets are: in the file or the keychain, and in what replaces the file.
Kept ==
    spoiled \subseteq {"migration"} =>
        /\ SecretHasAPlace
        /\ \A w \in Writers :
            /\ step[w] \in {"read", "truncated"} => given \subseteq Spelled(buf[w]) \cup InStore
            /\ step[w] \in {"read", "truncated"} =>
                   \A a \in Accounts : upd[w].key[a] \in Values => a \in Spelled(buf[w])
            /\ InFlight(w) => \A a \in given : upd[w].key[a] # Blank

\* Once migrated the file spells out no secret, and will not.
Clean ==
    /\ proc \in {"plan", "store", "blank"} => ~migrated
    /\ migrated /\ proc \in {"check", "up"} =>
        /\ live.backend = "keychain" /\ InFile = {}
        /\ \A w \in Writers : step[w] \in {"read", "truncated"} => Spelled(buf[w]) = {}

ModeOf(c) == IF c.mode = Absent THEN "active" ELSE c.mode

\* The mode in memory is that of the file, with the rewrite under way.
Moded ==
    spoiled = {} /\ proc \in Starting \cup {"up"} =>
        /\ (\A t \in Tasks : ~InFlight(t)) => live.mode = ModeOf(acked)
        /\ \A t \in Tasks : InFlight(t) => live.mode = ModeOf(MergeRaw(acked, upd[t]))

\* What the daemon loads is enough to run with.
Startable ==
    /\ Required \subseteq given /\ acked.paths # Absent
    /\ proc \in Starting =>
        /\ spoiled = {} => live.paths # Absent
        /\ spoiled = {} /\ unlocked /\ live.backend = "keychain" =>
               \A a \in Required : live.key[a] # Blank
        /\ live.backend = "file" => \A a \in Accounts : live.key[a] = FromFile(disk, a)

ConfigInv ==
    /\ Turns /\ Routed /\ Moving /\ Written /\ Kept /\ Clean /\ Moded /\ Startable /\ StartsAgain

-------------------------------------------------------------------------------
(* The operators.                                                           *)

LEMMA Strings ==
    /\ Absent \notin Values /\ Blank \notin Values /\ Mask \notin Values
    /\ Absent # Blank /\ Absent # Mask /\ Blank # Mask
    /\ Absent \notin Places /\ Absent \notin Backends /\ Absent \notin Modes
    /\ Required \subseteq Accounts /\ Clearable \subseteq Accounts \ Required
    /\ Boot \notin Writers /\ Boot \in Tasks /\ Writers \subseteq Tasks
    /\ Tasks = Writers \cup {Boot}
BY ConfigAssumption DEF ConfigAssumption, Absent, Blank, Mask, Backends, Modes, Tasks

LEMMA DefaultsFacts ==
    /\ Defaults \in Configs
    /\ Defaults.mode = Absent /\ \A a \in Accounts : Defaults.key[a] = Absent
    /\ Spelled(Defaults) = {}
BY DEF Defaults, Configs, Secret, Spelled

LEMMA MergeFacts ==
    ASSUME NEW c \in Configs, NEW u \in Configs
    PROVE  /\ MergeRaw(c, u) \in Configs
           /\ MergeRaw(c, u).mode = Over(u.mode, c.mode)
           /\ MergeRaw(c, u).paths = Over(u.paths, c.paths)
           /\ \A a \in Accounts : MergeRaw(c, u).key[a] = Over(u.key[a], c.key[a])
BY DEF MergeRaw, Over, Configs

\* A merge keeps every secret that the update does not blank, and adds its own.
LEMMA MergeSpelled ==
    ASSUME NEW c \in Configs, NEW u \in Configs, NEW a \in Accounts
    PROVE  /\ a \in Spelled(c) /\ u.key[a] # Blank => a \in Spelled(MergeRaw(c, u))
           /\ u.key[a] \in Values => a \in Spelled(MergeRaw(c, u))
           /\ a \in Spelled(MergeRaw(c, u)) => a \in Spelled(c) \/ u.key[a] \notin {Absent, Blank}
           /\ u.key[a] = Blank => a \notin Spelled(MergeRaw(c, u))
BY MergeFacts, Strings DEF Spelled, Over

LEMMA FromFileFacts ==
    ASSUME NEW c \in Configs, NEW a \in Accounts
    PROVE  /\ FromFile(c, a) \in Values \cup {Blank}
           /\ a \in Spelled(c) => FromFile(c, a) # Blank
<1>1. c.key[a] \in Values \cup {Absent, Blank}  BY DEF Configs, Secret
<1>2. Env[a] \in Values \cup {Absent}  BY ConfigAssumption DEF ConfigAssumption
<1> QED  BY <1>1, <1>2, Strings DEF FromFile, Over, Spelled

Lives == [key : [Accounts -> Values \cup {Blank}], backend : Backends, mode : Modes,
          paths : Places \cup {Absent}]

LEMMA ResolvedFacts ==
    ASSUME TypeOK, NEW c \in Configs, NEW open \in BOOLEAN
    PROVE  /\ Resolved(c, open) \in Lives
           /\ Resolved(c, open).backend = Backend(c)
           /\ Resolved(c, open).mode = ModeOf(c) /\ Resolved(c, open).paths = c.paths
           /\ \A a \in Accounts : Resolved(c, open).key[a] = Overlay(c, a, open)
<1>1. ASSUME NEW a \in Accounts PROVE Overlay(c, a, open) \in Values \cup {Blank}
  BY FromFileFacts DEF Overlay, TypeOK
<1>2. Backend(c) \in Backends  BY DEF Backend, Backends
<1>3. ModeOf(c) \in Modes /\ c.paths \in Places \cup {Absent}  BY DEF ModeOf, Configs, Modes
<1> QED  BY <1>1, <1>2, <1>3 DEF Resolved, Lives, ModeOf

LEMMA BlankedFacts ==
    /\ Blanked \in Configs /\ Blanked.mode = Absent
    /\ \A a \in Accounts : Blanked.key[a] = IF a \in blanks THEN Blank ELSE Absent
BY DefaultsFacts DEF Blanked, Defaults, Configs, Secret

LEMMA FileIs == InFile = Spelled(disk) /\ InFile' = Spelled(disk')
BY DEF InFile, Spelled

-------------------------------------------------------------------------------
(* What each action does, task by task.                                     *)

Begins(t, u) ==
    /\ step'[t] = "begun" /\ upd'[t] = u
    /\ \A x \in Tasks : x # t => step'[x] = step[x] /\ upd'[x] = upd[x]
    /\ spoiled' = IF \E x \in Tasks \ {t} : InFlight(x) THEN spoiled \cup {"race"} ELSE spoiled
    /\ UNCHANGED <<disk, buf>>

LEMMA BeginBegins ==
    ASSUME TypeOK, NEW t \in Tasks, NEW u \in Configs, Begin(t, u)
    PROVE  /\ Begins(t, u)
           /\ step' \in [Tasks -> {"idle", "begun", "read", "truncated", "done"}]
           /\ upd' \in [Tasks -> Configs]
           /\ spoiled' \subseteq {"race", "crash", "migration"}
BY DEF TypeOK, Begin, Begins

LEMMA ReadReads ==
    ASSUME TypeOK, NEW t \in Tasks, ReadFile(t)
    PROVE  /\ step[t] = "begun" /\ step'[t] = "read" /\ buf'[t] = MergeRaw(disk, upd[t])
           /\ \A x \in Tasks : x # t => step'[x] = step[x] /\ buf'[x] = buf[x]
           /\ UNCHANGED <<disk, upd, store, proc, unlocked, live, todo, blanks, restarts,
                          edits, given, acked, spoiled, migrated>>
BY DEF TypeOK, ReadFile, RewriteFrame, start, bounds

LEMMA TruncateTruncates ==
    ASSUME TypeOK, NEW t \in Tasks, Truncate(t)
    PROVE  /\ step[t] = "read" /\ step'[t] = "truncated" /\ disk' = Defaults
           /\ \A x \in Tasks : x # t => step'[x] = step[x]
           /\ UNCHANGED <<buf, upd, store, proc, unlocked, live, todo, blanks, restarts,
                          edits, given, acked, spoiled, migrated>>
BY DEF TypeOK, Truncate, RewriteFrame, start, bounds

LEMMA WriteWrites ==
    ASSUME TypeOK, NEW t \in Tasks, WriteFile(t)
    PROVE  /\ step[t] = "truncated" /\ step'[t] = "done" /\ disk' = buf[t]
           /\ acked' = MergeRaw(acked, upd[t])
           /\ given' = given \cup {a \in Accounts : upd[t].key[a] \in Values}
           /\ \A x \in Tasks : x # t =>
                  step'[x] = step[x] /\ upd'[x] = upd[x] /\ buf'[x] = buf[x]
           /\ UNCHANGED <<store, proc, unlocked, live, todo, blanks, restarts, edits,
                          spoiled, migrated>>
BY DEF TypeOK, WriteFile, start, bounds

\* The keychain takes some secrets of a request, and nothing that is still given is lost.
Stores ==
    /\ store' \in [Accounts -> Values \cup {Absent}]
    /\ given' \subseteq Accounts
    /\ \A a \in given' : a \in InStore' \/ (a \in given /\ (a \in InStore => a \in InStore'))
    /\ Required \cap given \subseteq given'

LEMMA KeychainStores ==
    ASSUME TypeOK, NEW R \in SUBSET Accounts, NEW A \in SUBSET R, NEW asked,
           \A a \in R : asked[a] \in Values \cup {Blank},
           \A a \in R : asked[a] = Blank => a \in Clearable,
           store' = Keychain(A, asked),
           given' = (given \ {a \in R : asked[a] = Blank}) \cup
                        (A \ {a \in R : asked[a] = Blank})
    PROVE  Stores
<1>1. \A a \in Accounts :
        store'[a] = IF a \notin A THEN store[a]
                    ELSE IF asked[a] = Blank THEN Absent ELSE asked[a]
  BY DEF Keychain
<1>2. store' \in [Accounts -> Values \cup {Absent}]  BY DEF Keychain, TypeOK
<1>3. given' \subseteq Accounts  BY DEF TypeOK
<1>4. ASSUME NEW a \in given'
      PROVE  a \in InStore' \/ (a \in given /\ (a \in InStore => a \in InStore'))
  <2>1. CASE a \in A
    BY <1>1, <1>3, <1>4, <2>1, Strings DEF InStore
  <2>2. CASE a \notin A
    BY <1>1, <1>3, <1>4, <2>2 DEF InStore
  <2> QED  BY <2>1, <2>2
<1>5. Required \cap given \subseteq given'  BY Strings
<1> QED  BY <1>2, <1>3, <1>4, <1>5 DEF Stores

LEMMA PostPosts ==
    ASSUME TypeOK, NEW w \in Writers, Post(w)
    PROVE  /\ proc = "up" /\ step[w] = "idle" /\ Stores
           /\ UNCHANGED <<proc, unlocked, live, todo, blanks, restarts, edits, acked,
                          migrated, disk, buf>>
           /\ \/ \E u \in Configs :
                    /\ Begin(w, u) /\ u.mode = Absent /\ \A a \in given' : u.key[a] # Blank
                    /\ live.backend = "keychain" => \A a \in Accounts : u.key[a] = Absent
              \/ /\ step' = [step EXCEPT ![w] = "done"] /\ UNCHANGED <<upd, spoiled>>
                 /\ live.backend = "keychain"
<1> DEFINE Asked(p) == [a \in Accounts |-> IF ShouldUpdate(a, p.key[a]) THEN p.key[a] ELSE Absent]
           Routes(asked) == {a \in Accounts : asked[a] # Absent}
           Clears(asked) == {a \in Accounts : asked[a] = Blank}
<1>1. PICK p \in Posts :
        IF live.backend = "file"
        THEN /\ Begin(w, [Defaults EXCEPT !.key = Asked(p), !.backend = p.backend,
                                          !.paths = p.paths])
             /\ given' = given \ Clears(Asked(p)) /\ UNCHANGED store
        ELSE \/ /\ Begin(w, Stripped(p, Asked(p)))
                /\ store' = Keychain(Routes(Asked(p)), Asked(p))
                /\ given' = (given \ Clears(Asked(p))) \cup (Routes(Asked(p)) \ Clears(Asked(p)))
             \/ \E A \in SUBSET Routes(Asked(p)) \ {Routes(Asked(p))} :
                /\ store' = Keychain(A, Asked(p))
                /\ given' = (given \ Clears(Asked(p))) \cup (A \ Clears(Asked(p)))
                /\ step' = [step EXCEPT ![w] = "done"]
                /\ UNCHANGED <<disk, upd, buf, spoiled>>
  BY DEF Post
<1>2. PICK asked \in [Accounts -> Secret] : asked = Asked(p)
  <2>1. p.key \in [Accounts -> Values \cup {Absent, Blank, Mask}]
    BY ConfigAssumption DEF ConfigAssumption
  <2>2. \A a \in Accounts : ShouldUpdate(a, p.key[a]) => p.key[a] \in Values \cup {Blank}
    BY <2>1, Strings DEF ShouldUpdate
  <2> QED  BY <2>2 DEF Secret
<1>3. \A a \in Accounts : asked[a] = Blank => a \in Clearable
  BY <1>2, Strings DEF ShouldUpdate
<1>4. p.backend \in Backends \cup {Absent} /\ p.paths \in Places \cup {Absent}
  BY ConfigAssumption DEF ConfigAssumption
<1> DEFINE Routed1 == {a \in Accounts : asked[a] # Absent}
           Cleared == {a \in Accounts : asked[a] = Blank}
           Straight == [Defaults EXCEPT !.key = asked, !.backend = p.backend,
                                        !.paths = p.paths]
<1>5. \/ /\ live.backend = "file" /\ Begin(w, Straight)
         /\ given' = given \ Cleared /\ UNCHANGED store
      \/ /\ live.backend # "file" /\ Begin(w, Stripped(p, asked))
         /\ store' = Keychain(Routed1, asked)
         /\ given' = (given \ Cleared) \cup (Routed1 \ Cleared)
      \/ /\ live.backend # "file"
         /\ \E A \in SUBSET Routed1 :
                /\ store' = Keychain(A, asked)
                /\ given' = (given \ Cleared) \cup (A \ Cleared)
                /\ step' = [step EXCEPT ![w] = "done"]
                /\ UNCHANGED <<disk, upd, buf, spoiled>>
  BY <1>1, <1>2
<1>6. /\ proc = "up" /\ step[w] = "idle"
      /\ UNCHANGED <<proc, unlocked, live, todo, blanks, restarts, edits, acked, migrated>>
      /\ live.backend # "file" => live.backend = "keychain"
      /\ live.backend = "file" => live.backend # "keychain"
  BY DEF Post, start, bounds, TypeOK, Backends
<1>7. Cleared = {a \in Routed1 : asked[a] = Blank}  BY Strings
<1>8. \A a \in Routed1 : asked[a] \in Values \cup {Blank}  BY DEF Secret
<1>9. ASSUME NEW A \in SUBSET Routed1, store' = Keychain(A, asked),
             given' = (given \ Cleared) \cup (A \ Cleared)
      PROVE  Stores
  BY <1>3, <1>7, <1>8, <1>9, KeychainStores
<1>10. ASSUME live.backend = "file", Begin(w, Straight), given' = given \ Cleared,
              UNCHANGED store
       PROVE  /\ Straight \in Configs /\ Straight.mode = Absent
              /\ \A a \in given' : Straight.key[a] # Blank
              /\ Stores
  <2>1. /\ Straight \in Configs /\ Straight.mode = Absent /\ Straight.key = asked
    BY <1>4 DEF Defaults, Configs
  <2>2. given' \subseteq Accounts  BY <1>10 DEF TypeOK
  <2>3. \A a \in given' : asked[a] # Blank  BY <1>10, <2>2
  <2>4. InStore' = InStore  BY <1>10 DEF InStore
  <2>5. Required \cap given \subseteq given'  BY <1>3, <1>10, Strings
  <2> QED  BY <1>10, <2>1, <2>2, <2>3, <2>4, <2>5 DEF Stores, TypeOK
<1>11. /\ Stripped(p, asked) \in Configs /\ Stripped(p, asked).mode = Absent
       /\ \A a \in Accounts : Stripped(p, asked).key[a] = Absent
  BY <1>4 DEF Stripped, Defaults, Configs, Secret
<1> HIDE DEF Straight, Routed1, Cleared
<1>12. CASE live.backend = "file"
  <2>1. Begin(w, Straight) /\ given' = given \ Cleared /\ UNCHANGED store
    BY <1>5, <1>12
  <2>2. PICK u \in Configs : u = Straight  BY <1>10, <1>12, <2>1
  <2> QED  BY <1>6, <1>10, <1>12, <2>1, <2>2 DEF Begin
<1>13. CASE live.backend # "file" /\ Begin(w, Stripped(p, asked))
            /\ store' = Keychain(Routed1, asked)
            /\ given' = (given \ Cleared) \cup (Routed1 \ Cleared)
  <2>1. Stores  BY <1>9, <1>13
  <2>2. PICK u \in Configs : u = Stripped(p, asked)  BY <1>11
  <2>3. given' \subseteq Accounts  BY <2>1 DEF Stores
  <2>4. \A a \in given' : u.key[a] # Blank  BY <1>11, <2>2, <2>3, Strings
  <2> QED  BY <1>6, <1>11, <1>13, <2>1, <2>2, <2>4 DEF Begin
<1>14. CASE live.backend # "file" /\ \E A \in SUBSET Routed1 :
                /\ store' = Keychain(A, asked)
                /\ given' = (given \ Cleared) \cup (A \ Cleared)
                /\ step' = [step EXCEPT ![w] = "done"]
                /\ UNCHANGED <<disk, upd, buf, spoiled>>
  BY <1>6, <1>9, <1>14
<1> QED  BY <1>5, <1>12, <1>13, <1>14

\* One secret goes from the file to the keychain, or the keychain keeps nothing.
LEMMA StoreStores ==
    ASSUME TypeOK, StoreOne, todo \subseteq InFile
    PROVE  /\ store' \in [Accounts -> Values \cup {Absent}] /\ InStore \subseteq InStore'
           /\ todo' \subseteq todo /\ todo \subseteq todo' \cup InStore'
           /\ proc = "store" /\ proc' \in {"store", "check"}
           /\ UNCHANGED <<disk, unlocked, live, blanks, step, upd, buf, spoiled, migrated,
                          restarts, edits, given, acked>>
<1>1. PICK a \in todo :
        /\ store' \in {store, [store EXCEPT ![a] = disk.key[a]]}
        /\ \/ store'[a] = disk.key[a] /\ todo' = todo \ {a} /\ UNCHANGED proc
           \/ proc' = "check" /\ UNCHANGED todo
  BY DEF StoreOne
<1>2. a \in Accounts /\ disk.key[a] \in Values /\ disk.key[a] # Absent
  BY DEF InFile, TypeOK, Configs, Secret
<1>3. /\ store' \in [Accounts -> Values \cup {Absent}]
      /\ \A b \in Accounts : store'[b] = store[b] \/ (b = a /\ store'[b] = disk.key[a])
  BY <1>1, <1>2 DEF TypeOK
<1>4. InStore \subseteq InStore'  BY <1>2, <1>3 DEF InStore
<1>5. store'[a] = disk.key[a] => a \in InStore'  BY <1>2 DEF InStore
<1>6. /\ proc = "store" /\ proc' \in {"store", "check"}
      /\ UNCHANGED <<disk, unlocked, live, blanks, step, upd, buf, spoiled, migrated,
                     restarts, edits, given, acked>>
  BY <1>1 DEF StoreOne, StartFrame, rewrite, bounds
<1> QED  BY <1>1, <1>3, <1>4, <1>5, <1>6

\* The mode in memory changes at once, the file by a rewrite.
LEMMA ModeSets ==
    ASSUME TypeOK, NEW w \in Writers, SetMode(w)
    PROVE  /\ proc = "up" /\ step[w] = "idle"
           /\ \E m \in Modes : \E u \in Configs :
                /\ Begin(w, u) /\ u.mode = m /\ live'.mode = m
                /\ \A a \in Accounts : u.key[a] = Absent
           /\ live' \in Lives /\ live'.backend = live.backend
           /\ UNCHANGED <<store, proc, unlocked, todo, blanks, restarts, edits, given, acked,
                          migrated>>
<1>1. PICK m \in Modes :
        live' = [live EXCEPT !.mode = m] /\ Begin(w, [Defaults EXCEPT !.mode = m])
  BY DEF SetMode
<1>2. PICK u \in Configs : u = [Defaults EXCEPT !.mode = m]
  BY DEF Defaults, Configs, Secret
<1>3. u.mode = m /\ \A a \in Accounts : u.key[a] = Absent
  BY <1>2 DEF Defaults
<1>4. live \in Lives  BY DEF TypeOK, Lives
<1>5. live' \in Lives /\ live'.mode = m /\ live'.backend = live.backend
  BY <1>1, <1>4 DEF Lives
<1> QED  BY <1>1, <1>2, <1>3, <1>5 DEF SetMode, bounds

\* The owner's edit adds one secret to the file.
LEMMA EditEdits ==
    ASSUME TypeOK, EditFile
    PROVE  /\ proc = "off" /\ disk' \in Configs /\ acked' \in Configs
           /\ given' \subseteq Accounts /\ given' \subseteq given \cup InFile'
           /\ given \subseteq given' /\ InFile \subseteq InFile'
           /\ (disk = acked => disk' = acked')
           /\ disk'.mode = disk.mode /\ acked'.mode = acked.mode
           /\ acked'.paths = acked.paths
           /\ edits' \in 0..MaxEdits
           /\ UNCHANGED <<store, proc, unlocked, live, todo, blanks, step, upd, buf, restarts,
                          spoiled, migrated>>
<1>1. PICK a \in Accounts, v \in Values :
        /\ disk' = [disk EXCEPT !.key[a] = v]
        /\ acked' = [acked EXCEPT !.key[a] = v]
        /\ given' = given \cup {a}
  BY DEF EditFile
<1>2. ASSUME NEW c \in Configs
      PROVE  /\ [c EXCEPT !.key[a] = v] \in Configs
             /\ [c EXCEPT !.key[a] = v].mode = c.mode
             /\ [c EXCEPT !.key[a] = v].paths = c.paths
             /\ a \in Spelled([c EXCEPT !.key[a] = v])
             /\ Spelled(c) \subseteq Spelled([c EXCEPT !.key[a] = v])
  <2>1. PICK k \in [Accounts -> Secret] : k = [c.key EXCEPT ![a] = v]
    BY DEF Configs, Secret
  <2>2. [c EXCEPT !.key[a] = v] = [c EXCEPT !.key = k]
    BY <2>1 DEF Configs
  <2>3. PICK d \in Configs : d = [c EXCEPT !.key = k]
    BY DEF Configs
  <2>4. d.key = k /\ d.mode = c.mode /\ d.paths = c.paths  BY <2>3 DEF Configs
  <2>5. k[a] = v /\ \A b \in Accounts : b # a => k[b] = c.key[b]
    BY <2>1 DEF Configs
  <2> QED  BY <2>2, <2>3, <2>4, <2>5, Strings DEF Spelled
<1>3. disk \in Configs /\ acked \in Configs  BY DEF TypeOK
<1>4. /\ proc = "off" /\ edits' = edits + 1 /\ edits < MaxEdits
      /\ UNCHANGED <<store, proc, unlocked, live, todo, blanks, step, upd, buf, restarts,
                     spoiled, migrated>>
  BY DEF EditFile, start, rewrite
<1>5. edits' \in 0..MaxEdits  BY <1>4, ConfigAssumption DEF TypeOK, ConfigAssumption
<1> QED  BY <1>1, <1>2, <1>3, <1>4, <1>5, FileIs DEF TypeOK

LEMMA RestartRestarts ==
    ASSUME TypeOK, Restart
    PROVE  /\ proc' = "off"
           /\ \A t \in Tasks : ~InFlight(t)' /\ upd'[t] = Defaults /\ buf'[t] = Defaults
           /\ step' \in [Tasks -> {"idle", "begun", "read", "truncated", "done"}]
           /\ upd' \in [Tasks -> Configs] /\ buf' \in [Tasks -> Configs]
           /\ spoiled \subseteq spoiled' /\ spoiled' \subseteq {"race", "crash", "migration"}
           /\ "crash" \notin spoiled' => \A w \in Writers : step[w] # "truncated"
           /\ "migration" \notin spoiled' => step[Boot] # "truncated"
           /\ ("race" \in spoiled') = ("race" \in spoiled)
           /\ restarts' \in 0..MaxRestarts
           /\ UNCHANGED <<disk, store, unlocked, live, todo, blanks, edits, given, acked,
                          migrated>>
<1>1. /\ proc' = "off" /\ restarts' = restarts + 1 /\ restarts < MaxRestarts
      /\ step' = [t \in Tasks |-> IF t = Boot THEN "idle"
                                  ELSE IF InFlight(t) THEN "done" ELSE step[t]]
      /\ upd' = [t \in Tasks |-> Defaults] /\ buf' = [t \in Tasks |-> Defaults]
      /\ spoiled' = spoiled
            \cup (IF \E w \in Writers : step[w] = "truncated" THEN {"crash"} ELSE {})
            \cup (IF step[Boot] = "truncated" THEN {"migration"} ELSE {})
      /\ UNCHANGED <<disk, store, unlocked, live, todo, blanks, edits, given, acked, migrated>>
  BY DEF Restart, start
<1>2. restarts' \in 0..MaxRestarts  BY <1>1, ConfigAssumption DEF TypeOK, ConfigAssumption
<1>3. \A t \in Tasks : ~InFlight(t)'  BY <1>1 DEF InFlight
<1>4. step' \in [Tasks -> {"idle", "begun", "read", "truncated", "done"}]
  BY <1>1 DEF TypeOK
<1>5. upd' \in [Tasks -> Configs] /\ buf' \in [Tasks -> Configs]  BY <1>1, DefaultsFacts
<1>6. /\ spoiled \subseteq spoiled' /\ spoiled' \subseteq {"race", "crash", "migration"}
      /\ "crash" \notin spoiled' => \A w \in Writers : step[w] # "truncated"
      /\ "migration" \notin spoiled' => step[Boot] # "truncated"
      /\ ("race" \in spoiled') = ("race" \in spoiled)
  BY <1>1 DEF TypeOK
<1> QED  BY <1>1, <1>2, <1>3, <1>4, <1>5, <1>6

-------------------------------------------------------------------------------
(* Type correctness.                                                        *)

Steps == {"idle", "begun", "read", "truncated", "done"}

LEMMA TypeNext ==
    ASSUME TypeOK, Moving, Next
    PROVE  TypeOK'
<1>0. /\ disk \in Configs /\ acked \in Configs
      /\ store \in [Accounts -> Values \cup {Absent}]
      /\ unlocked \in BOOLEAN /\ migrated \in BOOLEAN
      /\ proc \in {"off", "up", "refused"} \cup Starting
      /\ live \in Lives
      /\ todo \subseteq Accounts /\ blanks \subseteq Accounts
      /\ step \in [Tasks -> Steps]
      /\ upd \in [Tasks -> Configs] /\ buf \in [Tasks -> Configs]
      /\ restarts \in 0..MaxRestarts /\ edits \in 0..MaxEdits
      /\ given \subseteq Accounts
      /\ spoiled \subseteq {"race", "crash", "migration"}
  BY DEF TypeOK, Lives, Steps
<1> DEFINE FileOK == /\ disk' \in Configs /\ acked' \in Configs /\ given' \subseteq Accounts
                     /\ store' \in [Accounts -> Values \cup {Absent}]
           TasksOK == /\ step' \in [Tasks -> Steps]
                      /\ upd' \in [Tasks -> Configs] /\ buf' \in [Tasks -> Configs]
                      /\ spoiled' \subseteq {"race", "crash", "migration"}
           StartOK == /\ unlocked' \in BOOLEAN /\ migrated' \in BOOLEAN /\ live' \in Lives
                      /\ proc' \in {"off", "up", "refused"} \cup Starting
                      /\ todo' \subseteq Accounts /\ blanks' \subseteq Accounts
           BoundsOK == restarts' \in 0..MaxRestarts /\ edits' \in 0..MaxEdits
           Goal == FileOK /\ TasksOK /\ StartOK /\ BoundsOK
<1>1. SUFFICES Goal  BY DEF TypeOK, Lives, Steps
<1>2. ASSUME NEW t \in Tasks, ReadFile(t) PROVE Goal
  <2>1. MergeRaw(disk, upd[t]) \in Configs  BY <1>0, MergeFacts
  <2>2. TasksOK
    BY <1>0, <1>2, <2>1 DEF ReadFile, RewriteFrame, Steps
  <2> QED  BY <1>0, <1>2, <2>2, ReadReads
<1>3. ASSUME NEW t \in Tasks, Truncate(t) PROVE Goal
  <2>1. TasksOK  BY <1>0, <1>3 DEF Truncate, RewriteFrame, Steps
  <2> QED  BY <1>0, <1>3, <2>1, TruncateTruncates, DefaultsFacts
<1>4. ASSUME NEW t \in Tasks, WriteFile(t) PROVE Goal
  <2>1. TasksOK  BY <1>0, <1>4, DefaultsFacts DEF WriteFile, Steps
  <2>2. MergeRaw(acked, upd[t]) \in Configs  BY <1>0, MergeFacts
  <2> QED  BY <1>0, <1>4, <2>1, <2>2, WriteWrites
<1>5. CASE Load
  <2>1. Resolved(disk, unlocked') \in Lives  BY <1>0, <1>5, ResolvedFacts DEF Load
  <2> QED  BY <1>0, <1>5, <2>1 DEF Load, StartFrame, rewrite, bounds, Starting
<1>6. CASE Plan
  <2>1. PlannedWrites \subseteq Accounts /\ PlannedBlanks \subseteq Accounts
    BY DEF PlannedWrites, PlannedBlanks, InFile
  <2> QED
    BY <1>0, <1>6, <2>1 DEF Plan, StartFrame, rewrite, bounds, Starting
<1>7. CASE StoreOne
  <2>1. todo \subseteq InFile  BY <1>7 DEF StoreOne, Moving
  <2> QED  BY <1>0, <1>7, <2>1, StoreStores DEF Starting
<1>8. CASE BlankPlaintext
  <2>1. Boot \in Tasks /\ Blanked \in Configs /\ Begin(Boot, Blanked)
    BY <1>8, Strings, BlankedFacts DEF BlankPlaintext
  <2>2. TasksOK /\ UNCHANGED disk
    BY <1>0, <2>1, BeginBegins DEF Begins, Steps
  <2> QED
    BY <1>0, <1>8, <2>2 DEF BlankPlaintext, StartFrame, start, bounds, Starting
<1>9. CASE MigrationEnds \/ Check
  BY <1>0, <1>9 DEF MigrationEnds, Check, StartFrame, start, rewrite, bounds, Starting
<1>10. ASSUME NEW w \in Writers, Post(w) PROVE Goal
  <2>1. w \in Tasks  BY Strings
  <2>2. TasksOK
    <3>1. CASE \E u \in Configs : Begin(w, u)
      BY <1>0, <2>1, <3>1, BeginBegins DEF Begins, Steps
    <3>2. CASE /\ step' = [step EXCEPT ![w] = "done"] /\ UNCHANGED <<upd, spoiled, buf>>
      BY <1>0, <2>1, <3>2 DEF Steps
    <3> QED  BY <1>10, <3>1, <3>2, PostPosts
  <2> QED  BY <1>0, <1>10, <2>2, PostPosts DEF Stores
<1>11. ASSUME NEW w \in Writers, SetMode(w) PROVE Goal
  <2>1. w \in Tasks  BY Strings
  <2>2. PICK u \in Configs : Begin(w, u)  BY <1>11, ModeSets
  <2>3. TasksOK /\ UNCHANGED disk  BY <1>0, <2>1, <2>2, BeginBegins DEF Begins, Steps
  <2> QED  BY <1>0, <1>11, <2>3, ModeSets
<1>12. CASE Restart  BY <1>0, <1>12, RestartRestarts DEF Steps
<1>13. CASE EditFile  BY <1>0, <1>13, EditEdits
<1> QED
  BY <1>2, <1>3, <1>4, <1>5, <1>6, <1>7, <1>8, <1>9, <1>10, <1>11, <1>12, <1>13 DEF Next

-------------------------------------------------------------------------------
(* Whose turn it is.                                                        *)

\* Loading, planning and checking touch neither the file nor the keychain.
LEMMA StartsLeave ==
    ASSUME Load \/ Plan \/ MigrationEnds \/ Check
    PROVE  /\ UNCHANGED <<disk, store, step, upd, buf, spoiled, given, acked, restarts, edits>>
           /\ ~Load => UNCHANGED <<unlocked, live>>
           /\ Load => proc = "off" /\ proc' \in {"plan", "check"}
           /\ Plan => proc = "plan" /\ proc' \in {"store", "check"}
           /\ MigrationEnds => proc = "blank" /\ proc' = "check" /\ step[Boot] = "done"
           /\ Check => proc = "check" /\ proc' \in {"up", "refused"}
BY DEF Load, Plan, MigrationEnds, Check, StartFrame, start, rewrite, bounds

\* A rewrite that is noticed to be alone is the only one.
LEMMA Alone ==
    ASSUME Turns, "race" \notin spoiled, NEW t \in Tasks, InFlight(t)
    PROVE  \A x \in Tasks : x # t => step[x] \notin {"begun", "read", "truncated"}
BY DEF Turns, InFlight

LEMMA BlankBegins ==
    ASSUME TypeOK, Turns, BlankPlaintext
    PROVE  /\ proc = "store" /\ proc' = "blank" /\ todo = {}
           /\ \A t \in Tasks : ~InFlight(t)
           /\ step'[Boot] = "begun" /\ upd'[Boot] = Blanked
           /\ \A x \in Writers : step'[x] = step[x] /\ upd'[x] = upd[x]
           /\ UNCHANGED <<disk, buf, store, unlocked, live, todo, blanks, migrated, given,
                          acked, spoiled>>
<1>1. /\ proc = "store" /\ proc' = "blank" /\ todo = {} /\ Begin(Boot, Blanked)
      /\ UNCHANGED <<store, unlocked, live, todo, blanks, migrated, given, acked>>
  BY DEF BlankPlaintext, start, StartFrame
<1>2. Begins(Boot, Blanked)  BY <1>1, BeginBegins, BlankedFacts, Strings
<1>3. \A t \in Tasks : ~InFlight(t)  BY <1>1, Strings DEF Turns
<1>4. \A x \in Writers : x \in Tasks /\ x # Boot  BY Strings
<1> QED  BY <1>1, <1>2, <1>3, <1>4 DEF Begins

LEMMA TurnsNext ==
    ASSUME TypeOK, Moving, Turns, Next
    PROVE  Turns'
<1>1. ASSUME NEW t \in Tasks, ReadFile(t) \/ Truncate(t) PROVE Turns'
  <2>1. \A x \in Tasks : InFlight(x)' = InFlight(x)
    BY <1>1, ReadReads, TruncateTruncates DEF InFlight
  <2>2. UNCHANGED <<proc, spoiled>> /\ step[t] # "done" /\ step'[t] # "done"
        /\ \A x \in Tasks : x # t => step'[x] = step[x]
    BY <1>1, ReadReads, TruncateTruncates
  <2> QED  BY <2>1, <2>2, Strings DEF Turns
<1>2. ASSUME NEW t \in Tasks, WriteFile(t) PROVE Turns'
  <2>1. /\ UNCHANGED <<proc, spoiled>> /\ step'[t] = "done"
        /\ \A x \in Tasks : x # t => step'[x] = step[x]
    BY <1>2, WriteWrites
  <2>2. \A x \in Tasks : InFlight(x)' => InFlight(x)  BY <2>1 DEF InFlight
  <2>3. step'[Boot] = step[Boot] \/ step'[Boot] = "done"  BY <2>1, Strings
  <2> QED  BY <2>1, <2>2, <2>3, Strings DEF Turns, InFlight
<1>3. CASE Load \/ Plan \/ MigrationEnds \/ Check
  <2>1. UNCHANGED <<step, spoiled>>  BY <1>3, StartsLeave
  <2>2. \A t \in Tasks : ~InFlight(t)
    BY <1>3, StartsLeave, Strings DEF Turns, InFlight
  <2>3. proc' # "blank"  BY <1>3, StartsLeave
  <2> QED  BY <2>1, <2>2, <2>3, Strings DEF Turns, InFlight
<1>4. CASE StoreOne
  <2>1. todo \subseteq InFile  BY <1>4 DEF StoreOne, Moving
  <2>2. UNCHANGED <<step, spoiled>> /\ proc = "store" /\ proc' \in {"store", "check"}
    BY <1>4, <2>1, StoreStores
  <2>3. \A t \in Tasks : ~InFlight(t)  BY <2>2, Strings DEF Turns
  <2> QED  BY <2>2, <2>3, Strings DEF Turns, InFlight
<1>5. CASE BlankPlaintext
  <2>1. /\ proc' = "blank" /\ \A t \in Tasks : ~InFlight(t)
        /\ step'[Boot] = "begun" /\ \A x \in Writers : step'[x] = step[x]
    BY <1>5, BlankBegins
  <2> QED  BY <2>1, Strings DEF Turns, InFlight
<1>6. ASSUME NEW w \in Writers, Post(w) \/ SetMode(w) PROVE Turns'
  <2>1. proc = "up" /\ UNCHANGED proc /\ w \in Tasks
    BY <1>6, PostPosts, ModeSets, Strings
  <2>2. CASE \E u \in Configs : Begin(w, u)
    <3>1. PICK u \in Configs : Begins(w, u)  BY <2>1, <2>2, BeginBegins
    <3>2. /\ step'[w] = "begun" /\ \A x \in Tasks : x # w => step'[x] = step[x]
          /\ "race" \notin spoiled' => \A x \in Tasks : x # w => ~InFlight(x)
      BY <3>1 DEF Begins
    <3>3. step'[Boot] = step[Boot]  BY <3>2, Strings
    <3> QED  BY <2>1, <3>2, <3>3, Strings DEF Turns, InFlight
  <2>3. CASE step' = [step EXCEPT ![w] = "done"] /\ UNCHANGED spoiled
    <3>1. step'[w] = "done" /\ \A x \in Tasks : x # w => step'[x] = step[x]
      BY <2>1, <2>3 DEF TypeOK
    <3>2. \A x \in Tasks : InFlight(x)' => InFlight(x)  BY <3>1 DEF InFlight
    <3> QED  BY <2>1, <2>3, <3>1, <3>2, Strings DEF Turns
  <2> QED  BY <1>6, <2>2, <2>3, PostPosts, ModeSets
<1>7. CASE Restart  BY <1>7, RestartRestarts, Strings DEF Turns
<1>8. CASE EditFile
  <2>1. UNCHANGED <<step, spoiled, proc>>  BY <1>8, EditEdits
  <2> QED  BY <2>1 DEF Turns, InFlight
<1> QED
  BY <1>1, <1>2, <1>3, <1>4, <1>5, <1>6, <1>7, <1>8 DEF Next

-------------------------------------------------------------------------------
(* The migration, and where secrets are written.                            *)

LEMMA MovingNext ==
    ASSUME TypeOK, Moving, Turns, Next
    PROVE  Moving'
<1>0. Boot \in Tasks /\ disk \in Configs /\ upd \in [Tasks -> Configs]
  BY Strings DEF TypeOK
<1>1. ASSUME NEW t \in Tasks, ReadFile(t) \/ Truncate(t) \/ WriteFile(t) PROVE Moving'
  <2>1. InFlight(t) /\ UNCHANGED <<proc, store, todo, blanks>>
    BY <1>1, ReadReads, TruncateTruncates, WriteWrites DEF InFlight
  <2>2. CASE t \in Writers  BY <2>1, <2>2 DEF Turns, Moving
  <2>3. CASE t = Boot
    <3>1. proc = "blank" /\ proc' = "blank"  BY <2>1, <2>3 DEF Turns
    <3>2. Blanked' = Blanked /\ InStore' = InStore  BY <2>1 DEF Blanked, Defaults, InStore
    <3>3. CASE ReadFile(t)
      <4>1. /\ step[Boot] = "begun" /\ step'[Boot] = "read" /\ UNCHANGED <<disk, upd>>
            /\ buf'[Boot] = MergeRaw(disk, upd[Boot])
        BY <2>3, <3>3, ReadReads
      <4>2. upd[Boot] = Blanked /\ InFile \subseteq InStore /\ blanks = InFile
        BY <3>1, <4>1 DEF Moving, InFlight
      <4>3. Spelled(MergeRaw(disk, Blanked)) = {}
        <5>1. ASSUME NEW a \in Accounts, a \in Spelled(MergeRaw(disk, Blanked)) PROVE FALSE
          BY <1>0, <4>2, <5>1, MergeSpelled, BlankedFacts, FileIs, Strings
        <5> QED  BY <5>1 DEF Spelled
      <4>4. Spelled(buf'[Boot]) = {}  BY <4>1, <4>2, <4>3
      <4> QED  BY <2>1, <3>1, <3>2, <4>1, <4>2, <4>4, FileIs DEF Moving, Spelled
    <3>4. CASE Truncate(t)
      <4>1. /\ step[Boot] = "read" /\ step'[Boot] = "truncated" /\ disk' = Defaults
            /\ UNCHANGED <<buf, upd>>
        BY <2>3, <3>4, TruncateTruncates
      <4>2. InFile' = {}  BY <4>1, FileIs, DefaultsFacts
      <4> QED  BY <2>1, <3>1, <3>2, <4>1, <4>2 DEF Moving, InFlight, Spelled
    <3>5. CASE WriteFile(t)
      <4>1. step[Boot] = "truncated" /\ step'[Boot] = "done" /\ disk' = buf[Boot]
        BY <2>3, <3>5, WriteWrites
      <4>2. InFile' = {}  BY <3>1, <4>1, FileIs DEF Moving
      <4> QED  BY <3>1, <4>1, <4>2 DEF Moving, InFlight
    <3> QED  BY <1>1, <3>3, <3>4, <3>5
  <2> QED  BY <2>2, <2>3, Strings
<1>2. CASE Load \/ MigrationEnds \/ Check
  BY <1>2, StartsLeave DEF Moving
<1>3. CASE Plan
  <2>1. /\ todo' = InFile \ InStore /\ blanks' = InFile /\ UNCHANGED <<disk, store>>
        /\ proc' # "blank"
    BY <1>3, StartsLeave DEF Plan, PlannedWrites, PlannedBlanks
  <2>2. InFile' = InFile /\ InStore' = InStore  BY <2>1 DEF InFile, InStore
  <2> QED  BY <2>1, <2>2 DEF Moving
<1>4. CASE StoreOne
  <2>1. todo \subseteq InFile /\ InFile \subseteq todo \cup InStore /\ blanks = InFile
    BY <1>4 DEF StoreOne, Moving
  <2>2. /\ todo' \subseteq todo /\ todo \subseteq todo' \cup InStore' /\ InStore \subseteq InStore'
        /\ UNCHANGED <<disk, blanks>> /\ proc' # "blank"
    BY <1>4, <2>1, StoreStores
  <2>3. InFile' = InFile  BY <2>2 DEF InFile
  <2> QED  BY <2>1, <2>2, <2>3 DEF Moving
<1>5. CASE BlankPlaintext
  <2>1. /\ proc = "store" /\ proc' = "blank" /\ todo = {}
        /\ step'[Boot] = "begun" /\ upd'[Boot] = Blanked
        /\ UNCHANGED <<disk, store, blanks>>
    BY <1>5, BlankBegins
  <2>2. InFile' = InFile /\ InStore' = InStore /\ Blanked' = Blanked
    BY <2>1 DEF InFile, InStore, Blanked, Defaults
  <2> QED  BY <2>1, <2>2 DEF Moving
<1>6. ASSUME NEW w \in Writers, Post(w) \/ SetMode(w) PROVE Moving'
  BY <1>6, PostPosts, ModeSets DEF Moving
<1>7. CASE Restart \/ EditFile  BY <1>7, RestartRestarts, EditEdits DEF Moving
<1> QED
  BY <1>1, <1>2, <1>3, <1>4, <1>5, <1>6, <1>7 DEF Next

LEMMA RoutedNext ==
    ASSUME TypeOK, Moving, Turns, Routed, Next
    PROVE  Routed'
<1>1. ASSUME NEW t \in Tasks, ReadFile(t) \/ Truncate(t) PROVE Routed'
  <2>1. /\ UNCHANGED <<proc, live, upd>> /\ InFlight(t)
        /\ \A x \in Tasks : x # t => step'[x] = step[x]
    BY <1>1, ReadReads, TruncateTruncates DEF InFlight
  <2>2. \A x \in Writers : InFlight(x)' => InFlight(x)  BY <2>1, Strings DEF InFlight
  <2> QED  BY <2>1, <2>2 DEF Routed
<1>2. ASSUME NEW t \in Tasks, WriteFile(t) PROVE Routed'
  <2>1. /\ UNCHANGED <<proc, live>> /\ step'[t] = "done"
        /\ \A x \in Tasks : x # t => step'[x] = step[x] /\ upd'[x] = upd[x]
    BY <1>2, WriteWrites
  <2>2. \A x \in Writers : InFlight(x)' => InFlight(x) /\ upd'[x] = upd[x]
    BY <2>1, Strings DEF InFlight
  <2> QED  BY <2>1, <2>2 DEF Routed
<1>3. CASE Load
  <2>1. \A w \in Writers : ~InFlight(w)'
    BY <1>3, StartsLeave DEF Turns, InFlight
  <2>2. live'.backend = Backend(disk)
        /\ (proc' = IF Backend(disk) = "keychain" THEN "plan" ELSE "check")
    BY <1>3, ResolvedFacts DEF Load, TypeOK
  <2> QED  BY <2>1, <2>2 DEF Routed
<1>4. CASE Plan \/ MigrationEnds \/ Check
  <2>1. /\ UNCHANGED <<live, step, upd>>
        /\ proc' \in {"plan", "store", "blank"} => proc = "plan"
    BY <1>4, StartsLeave DEF Load, Plan, MigrationEnds, Check
  <2> QED  BY <2>1 DEF Routed, InFlight
<1>5. CASE StoreOne
  <2>1. todo \subseteq InFile  BY <1>5 DEF StoreOne, Moving
  <2>2. UNCHANGED <<live, step, upd>> /\ proc = "store"  BY <1>5, <2>1, StoreStores
  <2> QED  BY <2>2 DEF Routed, InFlight
<1>6. CASE BlankPlaintext
  BY <1>6, BlankBegins DEF Routed, InFlight
<1>7. ASSUME NEW w \in Writers, Post(w) PROVE Routed'
  <2>1. proc = "up" /\ UNCHANGED <<proc, live>> /\ w \in Tasks  BY <1>7, PostPosts, Strings
  <2>2. CASE \E u \in Configs :
               /\ Begin(w, u)
               /\ live.backend = "keychain" => \A a \in Accounts : u.key[a] = Absent
    <3>1. PICK u \in Configs :
              /\ Begins(w, u)
              /\ live.backend = "keychain" => \A a \in Accounts : u.key[a] = Absent
      BY <2>1, <2>2, BeginBegins
    <3>2. \A x \in Writers : x # w => step'[x] = step[x] /\ upd'[x] = upd[x]
      BY <3>1, Strings DEF Begins
    <3> QED  BY <2>1, <3>1, <3>2 DEF Routed, InFlight, Begins
  <2>3. CASE step' = [step EXCEPT ![w] = "done"] /\ UNCHANGED upd
    <3>1. \A x \in Writers : InFlight(x)' => InFlight(x)
      BY <2>1, <2>3, Strings DEF InFlight, TypeOK
    <3> QED  BY <2>1, <2>3, <3>1 DEF Routed
  <2> QED  BY <1>7, <2>2, <2>3, PostPosts
<1>8. ASSUME NEW w \in Writers, SetMode(w) PROVE Routed'
  <2>1. /\ proc = "up" /\ UNCHANGED proc /\ live'.backend = live.backend /\ w \in Tasks
    BY <1>8, ModeSets, Strings
  <2>2. PICK u \in Configs : Begins(w, u) /\ \A a \in Accounts : u.key[a] = Absent
    BY <1>8, <2>1, ModeSets, BeginBegins
  <2>3. \A x \in Writers : x # w => step'[x] = step[x] /\ upd'[x] = upd[x]
    BY <2>2, Strings DEF Begins
  <2> QED  BY <2>1, <2>2, <2>3 DEF Routed, InFlight, Begins
<1>9. CASE Restart  BY <1>9, RestartRestarts, Strings DEF Routed
<1>10. CASE EditFile  BY <1>10, EditEdits DEF Routed, InFlight
<1> QED
  BY <1>1, <1>2, <1>3, <1>4, <1>5, <1>6, <1>7, <1>8, <1>9, <1>10 DEF Next

\* A file is never spoiled and then found whole again.
LEMMA SpoiledGrows ==
    ASSUME TypeOK, Moving, Turns, Next
    PROVE  spoiled \subseteq spoiled'
<1>1. ASSUME NEW w \in Writers, Post(w) \/ SetMode(w) PROVE spoiled \subseteq spoiled'
  <2>1. CASE \E u \in Configs : Begin(w, u)
    <3>1. PICK u \in Configs : Begin(w, u)  BY <2>1
    <3> QED  BY <3>1 DEF Begin
  <2> QED  BY <1>1, <2>1, PostPosts, ModeSets
<1>2. CASE StoreOne  BY <1>2 DEF StoreOne
<1> QED
  BY <1>1, <1>2, ReadReads, TruncateTruncates, WriteWrites, StartsLeave, BlankBegins,
     RestartRestarts, EditEdits DEF Next

-------------------------------------------------------------------------------
(* What an answered update is worth.                                        *)

\* A request begins a rewrite, or is over already.
LEMMA RequestBegins ==
    ASSUME TypeOK, Turns, NEW w \in Writers, Post(w) \/ SetMode(w)
    PROVE  /\ proc = "up" /\ proc' = "up" /\ step[w] = "idle" /\ w \in Tasks
           /\ UNCHANGED <<disk, buf, acked, unlocked, migrated>>
           /\ live'.backend = live.backend
           /\ \A x \in Tasks : x # w => step'[x] = step[x] /\ upd'[x] = upd[x]
           /\ \/ /\ step'[w] = "begun" /\ upd'[w] \in Configs
                 /\ "race" \notin spoiled' => \A x \in Tasks : ~InFlight(x)
              \/ step'[w] = "done" /\ UNCHANGED <<upd, spoiled>> /\ Post(w)
<1>1. /\ proc = "up" /\ proc' = "up" /\ step[w] = "idle" /\ w \in Tasks
      /\ UNCHANGED <<acked, unlocked, migrated>> /\ live'.backend = live.backend
  BY PostPosts, ModeSets, Strings
<1>2. CASE \E u \in Configs : Begin(w, u)
  <2>1. PICK u \in Configs : Begins(w, u)  BY <1>1, <1>2, BeginBegins
  <2>2. "race" \notin spoiled' => \A x \in Tasks : ~InFlight(x)
    BY <1>1, <2>1 DEF Begins, InFlight
  <2> QED  BY <1>1, <2>1, <2>2 DEF Begins
<1>3. CASE step' = [step EXCEPT ![w] = "done"] /\ UNCHANGED <<upd, spoiled, disk, buf>> /\ Post(w)
  <2>1. step'[w] = "done" /\ \A x \in Tasks : x # w => step'[x] = step[x]
    BY <1>1, <1>3 DEF TypeOK
  <2> QED  BY <1>1, <1>3, <2>1
<1> QED  BY <1>2, <1>3, PostPosts, ModeSets

LEMMA WrittenNext ==
    ASSUME TypeOK, Moving, Turns, Written, Next
    PROVE  Written'
<1> SUFFICES ASSUME spoiled' = {}
             PROVE  /\ (\A t \in Tasks : step'[t] # "truncated") => disk' = acked'
                    /\ \A t \in Tasks : step'[t] \in {"read", "truncated"} =>
                           buf'[t] = MergeRaw(acked', upd'[t])
  BY DEF Written, MergeRaw
<1>0. /\ spoiled = {} /\ "race" \notin spoiled
      /\ (\A t \in Tasks : step[t] # "truncated") => disk = acked
      /\ \A t \in Tasks : step[t] \in {"read", "truncated"} => buf[t] = MergeRaw(acked, upd[t])
  BY SpoiledGrows DEF Written
<1>1. ASSUME NEW t \in Tasks, InFlight(t)
      PROVE  \A x \in Tasks : x # t => step[x] \notin {"begun", "read", "truncated"}
  BY <1>0, <1>1, Alone
<1>2. ASSUME NEW t \in Tasks, ReadFile(t)
      PROVE  disk' = acked' /\ \A x \in Tasks : step'[x] \in {"read", "truncated"} =>
                                   buf'[x] = MergeRaw(acked', upd'[x])
  <2>1. /\ step[t] = "begun" /\ buf'[t] = MergeRaw(disk, upd[t])
        /\ \A x \in Tasks : x # t => step'[x] = step[x]
        /\ UNCHANGED <<disk, acked, upd>>
    BY <1>2, ReadReads
  <2>2. \A x \in Tasks : x # t => step[x] \notin {"begun", "read", "truncated"}
    BY <1>1, <2>1 DEF InFlight
  <2>3. disk = acked  BY <1>0, <2>1, <2>2
  <2> QED  BY <2>1, <2>2, <2>3
<1>3. ASSUME NEW t \in Tasks, Truncate(t)
      PROVE  step'[t] = "truncated" /\ \A x \in Tasks : step'[x] \in {"read", "truncated"} =>
                                           buf'[x] = MergeRaw(acked', upd'[x])
  <2>1. /\ step[t] = "read" /\ step'[t] = "truncated"
        /\ \A x \in Tasks : x # t => step'[x] = step[x]
        /\ UNCHANGED <<buf, acked, upd>>
    BY <1>3, TruncateTruncates
  <2> QED  BY <1>0, <2>1
<1>4. ASSUME NEW t \in Tasks, WriteFile(t)
      PROVE  disk' = acked' /\ \A x \in Tasks : step'[x] \notin {"read", "truncated"}
  <2>1. /\ step[t] = "truncated" /\ step'[t] = "done" /\ disk' = buf[t]
        /\ acked' = MergeRaw(acked, upd[t]) /\ \A x \in Tasks : x # t => step'[x] = step[x]
    BY <1>4, WriteWrites
  <2>2. \A x \in Tasks : x # t => step[x] \notin {"begun", "read", "truncated"}
    BY <1>1, <2>1 DEF InFlight
  <2> QED  BY <1>0, <2>1, <2>2
<1>5. ASSUME UNCHANGED <<disk, acked, buf, step, upd>>
      PROVE  /\ (\A t \in Tasks : step'[t] # "truncated") => disk' = acked'
             /\ \A t \in Tasks : step'[t] \in {"read", "truncated"} =>
                    buf'[t] = MergeRaw(acked', upd'[t])
  BY <1>0, <1>5
<1>6. CASE StoreOne
  <2>1. todo \subseteq InFile  BY <1>6 DEF StoreOne, Moving
  <2> QED  BY <1>5, <1>6, <2>1, StoreStores
<1>7. CASE BlankPlaintext
  <2>1. /\ \A t \in Tasks : ~InFlight(t)
        /\ step'[Boot] = "begun" /\ \A x \in Writers : step'[x] = step[x]
        /\ UNCHANGED <<disk, acked>>
    BY <1>7, BlankBegins
  <2> QED  BY <1>0, <2>1, Strings DEF InFlight
<1>8. ASSUME NEW w \in Writers, Post(w) \/ SetMode(w)
      PROVE  /\ (\A t \in Tasks : step'[t] # "truncated") => disk' = acked'
             /\ \A t \in Tasks : step'[t] \in {"read", "truncated"} =>
                    buf'[t] = MergeRaw(acked', upd'[t])
  <2>1. /\ w \in Tasks /\ step[w] = "idle" /\ step'[w] \in {"begun", "done"}
        /\ UNCHANGED <<disk, buf, acked>>
        /\ \A x \in Tasks : x # w => step'[x] = step[x] /\ upd'[x] = upd[x]
    BY <1>8, RequestBegins
  <2> QED  BY <1>0, <2>1
<1>9. CASE Restart
  <2>1. /\ UNCHANGED <<disk, acked>> /\ \A t \in Tasks : ~InFlight(t)'
        /\ \A w \in Writers : step[w] # "truncated"
        /\ step[Boot] # "truncated"
    BY <1>9, RestartRestarts
  <2> QED  BY <1>0, <2>1, Strings DEF InFlight
<1>10. CASE EditFile
  <2>1. proc = "off" /\ (disk = acked => disk' = acked') /\ UNCHANGED step
    BY <1>10, EditEdits
  <2>2. \A t \in Tasks : ~InFlight(t)  BY <2>1, Strings DEF Turns
  <2> QED  BY <1>0, <2>1, <2>2 DEF InFlight
<1> QED
  BY <1>2, <1>3, <1>4, <1>5, <1>6, <1>7, <1>8, <1>9, <1>10, StartsLeave DEF Next

LEMMA ModedNext ==
    ASSUME TypeOK, Moving, Turns, Written, Moded, Next
    PROVE  Moded'
<1> SUFFICES ASSUME spoiled' = {}, proc' \in Starting \cup {"up"}
             PROVE  /\ (\A t \in Tasks : ~InFlight(t)') => live'.mode = ModeOf(acked')
                    /\ \A t \in Tasks : InFlight(t)' =>
                           live'.mode = ModeOf(MergeRaw(acked', upd'[t]))
  BY DEF Moded, ModeOf, MergeRaw
<1>0. /\ spoiled = {} /\ "race" \notin spoiled /\ "race" \notin spoiled'
      /\ proc \in Starting \cup {"up"} =>
            /\ (\A t \in Tasks : ~InFlight(t)) => live.mode = ModeOf(acked)
            /\ \A t \in Tasks : InFlight(t) => live.mode = ModeOf(MergeRaw(acked, upd[t]))
  BY SpoiledGrows DEF Moded
<1>1. acked \in Configs /\ upd \in [Tasks -> Configs]  BY DEF TypeOK
<1>2. ASSUME NEW t \in Tasks, ReadFile(t) \/ Truncate(t)
      PROVE  /\ (\A x \in Tasks : ~InFlight(x)') => live'.mode = ModeOf(acked')
             /\ \A x \in Tasks : InFlight(x)' =>
                    live'.mode = ModeOf(MergeRaw(acked', upd'[x]))
  <2>1. UNCHANGED <<proc, live, acked, upd>> /\ \A x \in Tasks : InFlight(x)' = InFlight(x)
    BY <1>2, ReadReads, TruncateTruncates DEF InFlight
  <2> QED  BY <1>0, <2>1
<1>3. ASSUME NEW t \in Tasks, WriteFile(t)
      PROVE  live'.mode = ModeOf(acked') /\ \A x \in Tasks : ~InFlight(x)'
  <2>1. /\ InFlight(t) /\ step'[t] = "done" /\ acked' = MergeRaw(acked, upd[t])
        /\ UNCHANGED <<live, proc>> /\ \A x \in Tasks : x # t => step'[x] = step[x]
    BY <1>3, WriteWrites DEF InFlight
  <2>2. \A x \in Tasks : x # t => step[x] \notin {"begun", "read", "truncated"}
    BY <1>0, <2>1, Alone
  <2> QED  BY <1>0, <2>1, <2>2 DEF InFlight
<1>4. CASE Load
  <2>1. \A t \in Tasks : ~InFlight(t) /\ ~InFlight(t)' /\ step[t] # "truncated"
    BY <1>4, StartsLeave, Strings DEF Turns, InFlight
  <2>2. disk = acked /\ UNCHANGED acked  BY <1>0, <1>4, <2>1, StartsLeave DEF Written
  <2>3. live'.mode = ModeOf(disk)  BY <1>4, ResolvedFacts DEF Load, TypeOK
  <2> QED  BY <2>1, <2>2, <2>3
<1>5. CASE Plan \/ MigrationEnds \/ Check
  <2>1. UNCHANGED <<live, acked, step, upd>> /\ proc \in Starting
    BY <1>5, StartsLeave DEF Plan, MigrationEnds, Check, Load, Starting
  <2> QED  BY <1>0, <2>1 DEF InFlight
<1>6. CASE StoreOne
  <2>1. todo \subseteq InFile  BY <1>6 DEF StoreOne, Moving
  <2>2. UNCHANGED <<live, acked, step, upd>> /\ proc \in Starting
    BY <1>6, <2>1, StoreStores DEF Starting
  <2> QED  BY <1>0, <2>2 DEF InFlight
<1>7. CASE BlankPlaintext
  <2>1. /\ proc \in Starting /\ \A t \in Tasks : ~InFlight(t)
        /\ step'[Boot] = "begun" /\ upd'[Boot] = Blanked
        /\ \A x \in Writers : step'[x] = step[x]
        /\ UNCHANGED <<live, acked>>
    BY <1>7, BlankBegins DEF Starting
  <2>2. ModeOf(MergeRaw(acked, Blanked)) = ModeOf(acked)
    BY <1>1, MergeFacts, BlankedFacts DEF ModeOf, Over
  <2> QED  BY <1>0, <2>1, <2>2, Strings DEF InFlight
<1>8. ASSUME NEW w \in Writers, Post(w) \/ SetMode(w)
      PROVE  /\ (\A x \in Tasks : ~InFlight(x)') => live'.mode = ModeOf(acked')
             /\ \A x \in Tasks : InFlight(x)' =>
                    live'.mode = ModeOf(MergeRaw(acked', upd'[x]))
  <2>1. /\ proc = "up" /\ step[w] = "idle" /\ w \in Tasks
        /\ UNCHANGED acked
        /\ \A x \in Tasks : x # w => step'[x] = step[x] /\ upd'[x] = upd[x]
        /\ \/ step'[w] = "begun" /\ \A x \in Tasks : ~InFlight(x)
           \/ step'[w] = "done" /\ UNCHANGED <<upd, spoiled>> /\ Post(w)
    BY <1>0, <1>8, RequestBegins
  <2>2. CASE step'[w] = "done" /\ Post(w)
    <3>1. UNCHANGED live  BY <2>2, PostPosts
    <3> QED  BY <1>0, <2>1, <2>2, <3>1 DEF InFlight
  <2>3. CASE step'[w] = "begun"
    <3>1. live.mode = ModeOf(acked)  BY <1>0, <2>1, <2>3
    <3>2. \A x \in Tasks : InFlight(x)' => x = w  BY <2>1, <2>3 DEF InFlight
    <3>3. InFlight(w)'  BY <2>3 DEF InFlight
    <3>4. live'.mode = ModeOf(MergeRaw(acked, upd'[w]))
      <4>1. CASE Post(w)
        <5>1. step' # [step EXCEPT ![w] = "done"]  BY <2>1, <2>3 DEF TypeOK
        <5>2. PICK u \in Configs : Begin(w, u) /\ u.mode = Absent /\ UNCHANGED live
          BY <4>1, <5>1, PostPosts
        <5>3. upd'[w] = u  BY <2>1, <5>2, BeginBegins DEF Begins
        <5> QED  BY <1>1, <3>1, <5>2, <5>3, MergeFacts DEF ModeOf, Over
      <4>2. CASE SetMode(w)
        <5>1. PICK m \in Modes, u \in Configs :
                Begin(w, u) /\ u.mode = m /\ live'.mode = m
          BY <4>2, ModeSets
        <5>2. upd'[w] = u  BY <2>1, <5>1, BeginBegins DEF Begins
        <5> QED  BY <1>1, <5>1, <5>2, MergeFacts, Strings DEF ModeOf, Over
      <4> QED  BY <1>8, <4>1, <4>2
    <3> QED  BY <2>1, <3>2, <3>3, <3>4
  <2> QED  BY <2>1, <2>2, <2>3
<1>9. ~Restart  BY RestartRestarts DEF Starting
<1>10. ~EditFile  BY EditEdits DEF Starting
<1> QED
  BY <1>2, <1>3, <1>4, <1>5, <1>6, <1>7, <1>8, <1>9, <1>10 DEF Next

-------------------------------------------------------------------------------
(* No secret is lost.                                                       *)

LEMMA KeptNext ==
    ASSUME TypeOK, Moving, Turns, Routed, Kept, Next
    PROVE  Kept'
<1> DEFINE Whole == (\A w \in Writers : step[w] # "truncated") => given \subseteq InFile \cup InStore
           Safe(w) == /\ step[w] \in {"read", "truncated"} =>
                             given \subseteq Spelled(buf[w]) \cup InStore
                      /\ step[w] \in {"read", "truncated"} =>
                             \A a \in Accounts : upd[w].key[a] \in Values => a \in Spelled(buf[w])
                      /\ InFlight(w) => \A a \in given : upd[w].key[a] # Blank
<1> SUFFICES ASSUME spoiled' \subseteq {"migration"}
             PROVE  Whole' /\ \A w \in Writers : Safe(w)'
  BY DEF Kept, SecretHasAPlace, Spelled
<1>0. /\ "race" \notin spoiled /\ "race" \notin spoiled'
      /\ Whole /\ \A w \in Writers : Safe(w)
  BY SpoiledGrows DEF Kept, SecretHasAPlace
<1>1. /\ given \subseteq Accounts /\ disk \in Configs
      /\ upd \in [Tasks -> Configs] /\ buf \in [Tasks -> Configs]
  BY DEF TypeOK
<1>2. ASSUME \A w \in Writers : ~InFlight(w), \A w \in Writers : ~InFlight(w)',
             given' \subseteq InFile' \cup InStore'
      PROVE  Whole' /\ \A w \in Writers : Safe(w)'
  BY <1>2 DEF InFlight
<1>3. (\A w \in Writers : ~InFlight(w)) => given \subseteq InFile \cup InStore
  BY <1>0 DEF InFlight
<1>4. ASSUME NEW t \in Tasks, ReadFile(t) \/ Truncate(t) \/ WriteFile(t)
      PROVE  Whole' /\ \A w \in Writers : Safe(w)'
  <2>1. InFlight(t) /\ UNCHANGED store /\ \A x \in Tasks : x # t => step'[x] = step[x]
    BY <1>4, ReadReads, TruncateTruncates, WriteWrites DEF InFlight
  <2>2. \A x \in Tasks : x # t => ~InFlight(x) /\ ~InFlight(x)'
    BY <1>0, <2>1, Alone DEF InFlight
  <2>3. InStore' = InStore  BY <2>1 DEF InStore
  <2>4. CASE t = Boot
    <3>1. \A w \in Writers : ~InFlight(w) /\ ~InFlight(w)'  BY <2>2, <2>4, Strings
    <3>2. given \subseteq InFile \cup InStore /\ proc = "blank"
      BY <1>3, <2>1, <2>4, <3>1 DEF Turns
    <3>3. CASE ReadFile(t)
      <4>1. UNCHANGED <<disk, given>>  BY <3>3, ReadReads
      <4>2. given' \subseteq InFile' \cup InStore'  BY <2>3, <3>2, <4>1, FileIs
      <4> QED  BY <1>2, <3>1, <4>2
    <3>4. CASE Truncate(t)
      <4>1. step[Boot] = "read" /\ UNCHANGED given  BY <2>4, <3>4, TruncateTruncates
      <4>2. InFile \subseteq InStore  BY <3>2, <4>1 DEF Moving
      <4>3. given' \subseteq InFile' \cup InStore'  BY <2>3, <3>2, <4>1, <4>2
      <4> QED  BY <1>2, <3>1, <4>3
    <3>5. CASE WriteFile(t)
      <4>1. /\ step[Boot] = "truncated"
            /\ given' = given \cup {a \in Accounts : upd[Boot].key[a] \in Values}
        BY <2>4, <3>5, WriteWrites
      <4>2. InFile = {} /\ upd[Boot] = Blanked  BY <3>2, <4>1 DEF Moving, InFlight
      <4>3. given' = given  BY <4>1, <4>2, BlankedFacts, Strings
      <4>4. given' \subseteq InFile' \cup InStore'  BY <2>3, <3>2, <4>2, <4>3
      <4> QED  BY <1>2, <3>1, <4>4
    <3> QED  BY <1>4, <3>3, <3>4, <3>5
  <2>5. CASE t \in Writers
    <3>1. \A w \in Writers : w # t => Safe(w)'  BY <2>2, Strings DEF InFlight
    <3>2. Safe(t)  BY <1>0, <2>5
    <3>3. CASE ReadFile(t)
      <4>1. /\ step[t] = "begun" /\ buf'[t] = MergeRaw(disk, upd[t])
            /\ UNCHANGED <<disk, given, upd>>
        BY <3>3, ReadReads
      <4>2. given \subseteq InFile \cup InStore
        BY <1>0, <2>2, <4>1, Strings DEF InFlight
      <4>3. Whole'  BY <2>3, <4>1, <4>2, FileIs
      <4>4. \A a \in given : upd[t].key[a] # Blank  BY <2>1, <3>2
      <4>5. upd[t] \in Configs  BY <1>1
      <4>6. given' \subseteq Spelled(buf'[t]) \cup InStore'
        BY <1>1, <2>3, <4>1, <4>2, <4>4, <4>5, FileIs, MergeSpelled
      <4>7. \A a \in Accounts : upd'[t].key[a] \in Values => a \in Spelled(buf'[t])
        BY <1>1, <4>1, <4>5, MergeSpelled
      <4>8. Safe(t)'  BY <4>1, <4>4, <4>6, <4>7 DEF Spelled
      <4> QED  BY <3>1, <4>3, <4>8
    <3>4. CASE Truncate(t)
      <4>1. /\ step[t] = "read" /\ step'[t] = "truncated" /\ UNCHANGED <<buf, given, upd>>
        BY <3>4, TruncateTruncates
      <4>2. Safe(t)'  BY <2>1, <2>3, <3>2, <4>1 DEF Spelled
      <4>3. Whole'  BY <2>5, <4>1
      <4> QED  BY <3>1, <4>2, <4>3
    <3>5. CASE WriteFile(t)
      <4>1. /\ step[t] = "truncated" /\ step'[t] = "done" /\ disk' = buf[t]
            /\ given' = given \cup {a \in Accounts : upd[t].key[a] \in Values}
        BY <3>5, WriteWrites
      <4>2. given' \subseteq InFile' \cup InStore'  BY <2>3, <3>2, <4>1, FileIs
      <4>3. Safe(t)'  BY <4>1 DEF InFlight
      <4> QED  BY <3>1, <4>2, <4>3
    <3> QED  BY <1>4, <3>3, <3>4, <3>5
  <2> QED  BY <2>4, <2>5, Strings
<1>5. ASSUME UNCHANGED <<disk, given, step, upd, buf>>, InStore \subseteq InStore'
      PROVE  Whole' /\ \A w \in Writers : Safe(w)'
  <2>1. Whole'  BY <1>0, <1>5, FileIs
  <2>2. ASSUME NEW w \in Writers PROVE Safe(w)'
    <3>1. Safe(w)  BY <1>0
    <3> QED  BY <1>5, <3>1 DEF InFlight, Spelled
  <2> QED  BY <2>1, <2>2
<1>6. CASE StoreOne
  <2>1. todo \subseteq InFile  BY <1>6 DEF StoreOne, Moving
  <2> QED  BY <1>5, <1>6, <2>1, StoreStores
<1>7. CASE Load \/ Plan \/ MigrationEnds \/ Check
  <2>1. InStore' = InStore  BY <1>7, StartsLeave DEF InStore
  <2> QED  BY <1>5, <1>7, <2>1, StartsLeave
<1>8. CASE BlankPlaintext
  <2>1. /\ \A t \in Writers : ~InFlight(t) /\ ~InFlight(t)'
        /\ UNCHANGED <<disk, store, given>>
    BY <1>8, BlankBegins, Strings DEF InFlight
  <2>2. InStore' = InStore  BY <2>1 DEF InStore
  <2> QED  BY <1>2, <1>3, <2>1, <2>2, FileIs
<1>9. ASSUME NEW w \in Writers, Post(w) PROVE Whole' /\ \A x \in Writers : Safe(x)'
  <2>1. /\ step[w] = "idle" /\ w \in Tasks /\ UNCHANGED <<disk, buf>>
        /\ \A x \in Tasks : x # w => step'[x] = step[x] /\ upd'[x] = upd[x]
    BY <1>9, RequestBegins
  <2>2. \A a \in given' : a \in InStore' \/ (a \in given /\ (a \in InStore => a \in InStore'))
    BY <1>9, PostPosts DEF Stores
  <2>3. Whole'
    <3>1. CASE \A x \in Writers : step'[x] # "truncated"
      <4>1. given \subseteq InFile \cup InStore  BY <1>0, <2>1, <3>1, Strings
      <4> QED  BY <2>1, <2>2, <4>1, FileIs
    <3> QED  BY <3>1
  <2>4. CASE \E u \in Configs : Begin(w, u) /\ \A a \in given' : u.key[a] # Blank
    <3>1. PICK u \in Configs : Begins(w, u) /\ \A a \in given' : u.key[a] # Blank
      BY <2>1, <2>4, BeginBegins
    <3>2. \A x \in Tasks : x # w => ~InFlight(x)'
      BY <1>0, <3>1 DEF Begins, InFlight
    <3>3. step'[w] = "begun" /\ upd'[w] = u  BY <3>1 DEF Begins
    <3>4. \A x \in Writers : Safe(x)'
      BY <3>1, <3>2, <3>3, Strings DEF InFlight
    <3> QED  BY <2>3, <3>4
  <2>5. CASE step' = [step EXCEPT ![w] = "done"] /\ live.backend = "keychain" /\ UNCHANGED upd
    <3>1. step'[w] = "done"  BY <2>1, <2>5 DEF TypeOK
    <3>2. given' \subseteq Accounts  BY <1>9, PostPosts DEF Stores
    <3>3. ASSUME NEW x \in Writers PROVE Safe(x)'
      <4>1. CASE x = w  BY <3>1, <4>1 DEF InFlight
      <4>2. CASE x # w
        <5>1. step'[x] = step[x] /\ Safe(x) /\ x \in Tasks  BY <1>0, <2>1, <4>2, Strings
        <5>2. InFlight(x)' => \A a \in Accounts : upd'[x].key[a] # Blank
          BY <2>5, <5>1, Strings DEF Routed, InFlight
        <5>3. step'[x] \in {"read", "truncated"} =>
                  /\ given' \subseteq Spelled(buf[x]) \cup InStore'
                  /\ \A a \in Accounts : upd'[x].key[a] \in Values => a \in Spelled(buf[x])
          BY <2>2, <2>5, <5>1
        <5> QED  BY <2>1, <3>2, <5>2, <5>3 DEF Spelled
      <4> QED  BY <4>1, <4>2
    <3> QED  BY <2>3, <3>3
  <2> QED  BY <1>9, <2>4, <2>5, PostPosts
<1>10. ASSUME NEW w \in Writers, SetMode(w) PROVE Whole' /\ \A x \in Writers : Safe(x)'
  <2>1. w \in Tasks /\ step[w] = "idle" /\ UNCHANGED <<given, store>>
    BY <1>10, ModeSets, Strings
  <2>2. PICK u \in Configs : Begins(w, u) /\ \A a \in Accounts : u.key[a] = Absent
    BY <1>10, <2>1, ModeSets, BeginBegins
  <2>3. /\ \A x \in Tasks : ~InFlight(x) /\ (x # w => ~InFlight(x)')
        /\ step'[w] = "begun" /\ upd'[w] = u /\ UNCHANGED disk
    BY <1>0, <2>1, <2>2 DEF Begins, InFlight
  <2>4. given \subseteq InFile \cup InStore /\ InStore' = InStore
    BY <1>3, <2>1, <2>3, Strings DEF InStore
  <2>5. Whole'  BY <2>1, <2>3, <2>4, FileIs
  <2>6. \A x \in Writers : Safe(x)'
    BY <1>1, <2>1, <2>2, <2>3, Strings DEF InFlight
  <2> QED  BY <2>5, <2>6
<1>11. CASE Restart
  <2>1. /\ UNCHANGED <<disk, store, given>> /\ \A t \in Tasks : ~InFlight(t)'
        /\ \A w \in Writers : step[w] # "truncated"
    BY <1>11, RestartRestarts
  <2>2. InStore' = InStore  BY <2>1 DEF InStore
  <2>3. given' \subseteq InFile' \cup InStore'  BY <1>0, <2>1, <2>2, FileIs
  <2> QED  BY <2>1, <2>3, Strings DEF InFlight
<1>12. CASE EditFile
  <2>1. /\ proc = "off" /\ UNCHANGED <<step, store>>
        /\ given' \subseteq given \cup InFile' /\ InFile \subseteq InFile'
    BY <1>12, EditEdits
  <2>2. \A t \in Writers : ~InFlight(t) /\ ~InFlight(t)'  BY <2>1 DEF Turns, InFlight
  <2>3. InStore' = InStore  BY <2>1 DEF InStore
  <2> QED  BY <1>2, <1>3, <2>1, <2>2, <2>3
<1> QED
  BY <1>4, <1>6, <1>7, <1>8, <1>9, <1>10, <1>11, <1>12 DEF Next

-------------------------------------------------------------------------------
(* No plaintext once migrated, and the next start.                          *)

LEMMA CleanNext ==
    ASSUME TypeOK, Moving, Turns, Routed, Clean, Next
    PROVE  Clean'
<1> DEFINE Bare == /\ live.backend = "keychain" /\ InFile = {}
                   /\ \A w \in Writers : step[w] \in {"read", "truncated"} => Spelled(buf[w]) = {}
           Goal == /\ proc' \in {"plan", "store", "blank"} => ~migrated'
                   /\ migrated' /\ proc' \in {"check", "up"} => Bare'
<1> SUFFICES Goal  BY DEF Clean, Spelled
<1>0. /\ proc \in {"plan", "store", "blank"} => ~migrated
      /\ migrated /\ proc \in {"check", "up"} => Bare
  BY DEF Clean
<1>1. /\ disk \in Configs /\ upd \in [Tasks -> Configs]  BY DEF TypeOK
<1>2. ASSUME NEW t \in Tasks, ReadFile(t) \/ Truncate(t) \/ WriteFile(t) PROVE Goal
  <2>1. /\ InFlight(t) /\ UNCHANGED <<proc, live, migrated>>
        /\ \A x \in Tasks : x # t => step'[x] = step[x]
    BY <1>2, ReadReads, TruncateTruncates, WriteWrites DEF InFlight
  <2>2. CASE t = Boot
    <3>1. proc = "blank"  BY <2>1, <2>2 DEF Turns
    <3> QED  BY <1>0, <2>1, <3>1
  <2>3. CASE t \in Writers /\ ~migrated
    <3>1. proc = "up"  BY <2>1, <2>3 DEF Turns
    <3> QED  BY <2>1, <2>3, <3>1
  <2>4. CASE t \in Writers /\ migrated
    <3>1. proc = "up" /\ Bare  BY <1>0, <2>1, <2>4 DEF Turns
    <3>2. CASE ReadFile(t)
      <4>1. /\ buf'[t] = MergeRaw(disk, upd[t]) /\ UNCHANGED disk
            /\ \A x \in Tasks : x # t => buf'[x] = buf[x]
        BY <3>2, ReadReads
      <4>2. \A a \in Accounts : upd[t].key[a] = Absent  BY <2>1, <2>4, <3>1 DEF Routed
      <4>3. Spelled(MergeRaw(disk, upd[t])) = {}
        <5>1. upd[t] \in Configs /\ Spelled(disk) = {}  BY <1>1, <3>1, FileIs
        <5>2. ASSUME NEW a \in Accounts, a \in Spelled(MergeRaw(disk, upd[t])) PROVE FALSE
          BY <1>1, <4>2, <5>1, <5>2, MergeSpelled
        <5> QED  BY <5>2 DEF Spelled
      <4>4. \A w \in Writers : step'[w] \in {"read", "truncated"} => Spelled(buf'[w]) = {}
        BY <2>1, <3>1, <4>1, <4>3, Strings
      <4>5. InFile' = {}  BY <3>1, <4>1, FileIs
      <4> QED  BY <2>1, <3>1, <4>4, <4>5 DEF Spelled
    <3>3. CASE Truncate(t)
      <4>1. disk' = Defaults /\ UNCHANGED buf /\ step[t] = "read"  BY <3>3, TruncateTruncates
      <4>2. InFile' = {}  BY <4>1, FileIs, DefaultsFacts
      <4> QED  BY <2>1, <2>4, <3>1, <4>1, <4>2, Strings DEF Spelled
    <3>4. CASE WriteFile(t)
      <4>1. /\ disk' = buf[t] /\ step[t] = "truncated" /\ step'[t] = "done"
            /\ \A x \in Tasks : x # t => buf'[x] = buf[x]
        BY <3>4, WriteWrites
      <4>2. InFile' = {}  BY <2>4, <3>1, <4>1, FileIs
      <4> QED  BY <2>1, <2>4, <3>1, <4>1, <4>2, Strings DEF Spelled
    <3> QED  BY <1>2, <3>2, <3>3, <3>4
  <2> QED  BY <2>2, <2>3, <2>4, Strings
<1>3. CASE Load  BY <1>3 DEF Load
<1>4. CASE Plan
  <2>1. /\ UNCHANGED <<disk, live, step>> /\ proc = "plan" /\ proc' \in {"store", "check"}
        /\ migrated' => InFile = {}
        /\ proc' = "store" => ~migrated'
    BY <1>4, StartsLeave DEF Plan, PlannedBlanks, Load
  <2>2. \A w \in Writers : ~InFlight(w)  BY <2>1 DEF Turns
  <2>3. live.backend = "keychain"  BY <2>1 DEF Routed
  <2>4. InFile' = InFile  BY <2>1, FileIs
  <2> QED  BY <2>1, <2>2, <2>3, <2>4 DEF InFlight
<1>5. CASE MigrationEnds
  <2>1. /\ UNCHANGED <<disk, live, step>> /\ proc = "blank" /\ proc' = "check"
        /\ step[Boot] = "done"
    BY <1>5, StartsLeave DEF MigrationEnds, Load
  <2>2. \A w \in Writers : ~InFlight(w)  BY <2>1 DEF Turns
  <2>3. live.backend = "keychain" /\ InFile = {}  BY <2>1 DEF Routed, Moving
  <2>4. InFile' = InFile  BY <2>1, FileIs
  <2> QED  BY <2>1, <2>2, <2>3, <2>4 DEF InFlight
<1>6. CASE Check
  <2>1. UNCHANGED <<disk, live, step, buf, migrated>> /\ proc = "check" /\ proc' \in {"up", "refused"}
    BY <1>6, StartsLeave DEF Check, Load
  <2>2. InFile' = InFile  BY <2>1, FileIs
  <2> QED  BY <1>0, <2>1, <2>2 DEF Spelled
<1>7. CASE StoreOne
  <2>1. todo \subseteq InFile  BY <1>7 DEF StoreOne, Moving
  <2>2. proc = "store" /\ UNCHANGED migrated  BY <1>7, <2>1, StoreStores
  <2> QED  BY <1>0, <2>2
<1>8. CASE BlankPlaintext  BY <1>0, <1>8, BlankBegins
<1>9. ASSUME NEW w \in Writers, Post(w) \/ SetMode(w) PROVE Goal
  <2>1. /\ proc = "up" /\ proc' = "up" /\ w \in Tasks
        /\ UNCHANGED <<disk, buf, migrated>> /\ live'.backend = live.backend
        /\ \A x \in Tasks : x # w => step'[x] = step[x]
        /\ step'[w] \in {"begun", "done"}
    BY <1>9, RequestBegins
  <2>2. InFile' = InFile  BY <2>1, FileIs
  <2> QED  BY <1>0, <2>1, <2>2, Strings DEF Spelled
<1>10. CASE Restart \/ EditFile  BY <1>10, RestartRestarts, EditEdits
<1> QED
  BY <1>2, <1>3, <1>4, <1>5, <1>6, <1>7, <1>8, <1>9, <1>10 DEF Next

LEMMA StartableNext ==
    ASSUME TypeOK, Moving, Turns, Routed, Written, Kept, Startable, StartsAgain, Next
    PROVE  Startable' /\ StartsAgain'
<1> DEFINE Known == Required \subseteq given /\ acked.paths # Absent
           Loaded == /\ spoiled = {} => live.paths # Absent
                     /\ spoiled = {} /\ unlocked /\ live.backend = "keychain" =>
                            \A a \in Required : live.key[a] # Blank
                     /\ live.backend = "file" =>
                            \A a \in Accounts : live.key[a] = FromFile(disk, a)
<1>0. Known /\ (proc \in Starting => Loaded)  BY DEF Startable
<1>1. spoiled \subseteq spoiled'  BY SpoiledGrows
<1>2. ASSUME Known', proc' \notin Starting, proc' # "refused" PROVE Startable' /\ StartsAgain'
  BY <1>2 DEF Startable, StartsAgain
<1>3. ASSUME Known', proc' \in Starting, Loaded' PROVE Startable' /\ StartsAgain'
  BY <1>3 DEF Startable, StartsAgain, Starting, FromFile
<1>4. ASSUME NEW t \in Tasks, ReadFile(t) \/ Truncate(t) \/ WriteFile(t)
      PROVE  Startable' /\ StartsAgain'
  <2>1. InFlight(t) /\ UNCHANGED <<proc, live, spoiled, unlocked>>
    BY <1>4, ReadReads, TruncateTruncates, WriteWrites DEF InFlight
  <2>2. Known'
    <3>1. CASE UNCHANGED <<given, acked>>  BY <1>0, <3>1
    <3>2. CASE WriteFile(t)
      <4>1. acked' = MergeRaw(acked, upd[t]) /\ given \subseteq given'
        BY <3>2, WriteWrites
      <4>2. acked \in Configs /\ upd[t] \in Configs  BY DEF TypeOK
      <4> QED  BY <1>0, <4>1, <4>2, MergeFacts DEF Over
    <3> QED  BY <1>4, <3>1, <3>2, ReadReads, TruncateTruncates
  <2>3. CASE t = Boot
    <3>1. proc = "blank" /\ live.backend = "keychain"  BY <2>1, <2>3 DEF Turns, Routed
    <3>2. Loaded'  BY <1>0, <2>1, <3>1 DEF Starting
    <3> QED  BY <1>3, <2>1, <2>2, <3>1, <3>2 DEF Starting
  <2>4. CASE t \in Writers
    <3>1. proc' = "up"  BY <2>1, <2>4 DEF Turns
    <3> QED  BY <1>2, <2>2, <3>1 DEF Starting
  <2> QED  BY <2>3, <2>4, Strings
<1>5. CASE Load
  <2>1. /\ UNCHANGED <<disk, spoiled, given, acked>> /\ proc = "off" /\ proc' \in {"plan", "check"}
        /\ unlocked' \in BOOLEAN /\ live' = Resolved(disk, unlocked')
    BY <1>5, StartsLeave DEF Load
  <2>2. \A t \in Tasks : ~InFlight(t)  BY <2>1, Strings DEF Turns
  <2>3. disk \in Configs  BY DEF TypeOK
  <2>4. /\ live'.paths = disk.paths /\ live'.backend = Backend(disk)
        /\ \A a \in Accounts : live'.key[a] = Overlay(disk, a, unlocked')
    BY <2>1, <2>3, ResolvedFacts
  <2>5. spoiled = {} => live'.paths # Absent
    BY <1>0, <2>2, <2>4 DEF Written, InFlight
  <2>6. ASSUME spoiled = {}, unlocked', live'.backend = "keychain", NEW a \in Required
        PROVE  live'.key[a] # Blank
    <3>1. a \in InFile \cup InStore /\ a \in Accounts
      BY <1>0, <2>2, <2>6, Strings DEF Kept, SecretHasAPlace, InFlight
    <3>2. CASE a \in InStore
      <4>1. store[a] # Absent /\ store[a] # Blank  BY <3>1, <3>2, Strings DEF InStore, TypeOK
      <4> QED  BY <2>4, <2>6, <3>1, <4>1 DEF Overlay
    <3>3. CASE a \notin InStore
      <4>1. store[a] = Absent /\ a \in Spelled(disk)  BY <3>1, <3>3, FileIs DEF InStore
      <4> QED  BY <2>3, <2>4, <3>1, <4>1, FromFileFacts DEF Overlay
    <3> QED  BY <3>2, <3>3
  <2>7. live'.backend = "file" => \A a \in Accounts : live'.key[a] = FromFile(disk, a)
    BY <2>4 DEF Overlay
  <2>8. Known' /\ Loaded'  BY <1>0, <2>1, <2>5, <2>6, <2>7 DEF FromFile
  <2> QED  BY <1>3, <2>1, <2>8 DEF Starting
<1>6. CASE Plan \/ MigrationEnds
  <2>1. /\ UNCHANGED <<disk, spoiled, given, acked, unlocked, live>>
        /\ proc \in Starting /\ proc' \in Starting
    BY <1>6, StartsLeave DEF Starting, Load, Plan, MigrationEnds
  <2> QED  BY <1>0, <1>3, <2>1 DEF FromFile
<1>7. CASE StoreOne
  <2>1. todo \subseteq InFile  BY <1>7 DEF StoreOne, Moving
  <2>2. /\ UNCHANGED <<disk, spoiled, given, acked, unlocked, live>>
        /\ proc \in Starting /\ proc' \in Starting
    BY <1>7, <2>1, StoreStores DEF Starting
  <2> QED  BY <1>0, <1>3, <2>2 DEF FromFile
<1>8. CASE BlankPlaintext
  <2>1. /\ UNCHANGED <<disk, spoiled, given, acked, unlocked, live>>
        /\ proc \in Starting /\ proc' \in Starting
    BY <1>8, BlankBegins DEF Starting
  <2> QED  BY <1>0, <1>3, <2>1 DEF FromFile
<1>9. CASE Check
  <2>1. /\ UNCHANGED <<disk, spoiled, given, acked, unlocked, live>> /\ proc = "check"
        /\ proc' = IF live.paths # Absent /\ \A a \in Required : live.key[a] # Blank
                   THEN "up" ELSE "refused"
    BY <1>9, StartsLeave DEF Check, Load
  <2>2. Known' /\ Loaded /\ proc' \notin Starting  BY <1>0, <2>1 DEF Starting
  <2>3. ASSUME proc' = "refused", spoiled = {}, unlocked = TRUE
        PROVE  live.backend = "file" /\ Required \ InFile # {}
    <3>1. live.paths # Absent  BY <2>2, <2>3
    <3>2. PICK a \in Required : live.key[a] = Blank  BY <2>1, <2>3, <3>1
    <3>3. live.backend = "file"  BY <2>2, <2>3, <3>2 DEF TypeOK, Backends
    <3>4. a \in Accounts /\ FromFile(disk, a) = Blank  BY <2>2, <3>2, <3>3, Strings
    <3>5. a \notin InFile  BY <3>4, FromFileFacts, FileIs DEF TypeOK
    <3> QED  BY <3>3, <3>5
  <2>4. InFile' = InFile  BY <2>1, FileIs
  <2>5. StartsAgain'  BY <2>1, <2>3, <2>4 DEF StartsAgain, TypeOK
  <2> QED  BY <2>2, <2>5 DEF Startable
<1>10. ASSUME NEW w \in Writers, Post(w) \/ SetMode(w) PROVE Startable' /\ StartsAgain'
  <2>1. proc' = "up" /\ UNCHANGED acked  BY <1>10, RequestBegins
  <2>2. Required \cap given \subseteq given'  BY <1>10, PostPosts, ModeSets DEF Stores
  <2> QED  BY <1>0, <1>2, <2>1, <2>2 DEF Starting
<1>11. CASE Restart  BY <1>0, <1>2, <1>11, RestartRestarts DEF Starting
<1>12. CASE EditFile
  <2>1. proc' = "off" /\ given \subseteq given' /\ acked'.paths = acked.paths
    BY <1>12, EditEdits
  <2> QED  BY <1>0, <1>2, <2>1 DEF Starting
<1> QED
  BY <1>4, <1>5, <1>6, <1>7, <1>8, <1>9, <1>10, <1>11, <1>12 DEF Next

-------------------------------------------------------------------------------
(* The theorems.                                                            *)

LEMMA ConfigInit == Init => TypeOK /\ ConfigInv
<1> SUFFICES ASSUME Init PROVE TypeOK /\ ConfigInv
  OBVIOUS
<1>0. /\ disk \in Configs /\ disk.mode = "active" /\ disk.paths # Absent
      /\ \A a \in Accounts : disk.key[a] # Blank
      /\ \A a \in Required : disk.key[a] # Absent
      /\ store = [a \in Accounts |-> Absent]
      /\ unlocked = TRUE /\ proc = "off" /\ live = Resolved(disk, FALSE)
      /\ todo = {} /\ blanks = {}
      /\ step = [t \in Tasks |-> "idle"]
      /\ upd = [t \in Tasks |-> Defaults] /\ buf = [t \in Tasks |-> Defaults]
      /\ restarts = 0 /\ edits = 0 /\ given = InFile /\ acked = disk
      /\ spoiled = {} /\ migrated = FALSE
  BY DEF Init
<1>1. live \in Lives
  <2>1. \A a \in Accounts : Overlay(disk, a, FALSE) = FromFile(disk, a)  BY DEF Overlay
  <2>2. \A a \in Accounts : FromFile(disk, a) \in Values \cup {Blank}
    BY <1>0, FromFileFacts
  <2>3. Backend(disk) \in Backends  BY DEF Backend, Backends
  <2>4. disk.paths \in Places \cup {Absent} /\ disk.mode \in Modes
    BY <1>0 DEF Configs, Modes
  <2> QED  BY <1>0, <2>1, <2>2, <2>3, <2>4, Strings DEF Resolved, Lives
<1>2. TypeOK
  <2>1. InFile \subseteq Accounts  BY DEF InFile
  <2>2. step \in [Tasks -> {"idle", "begun", "read", "truncated", "done"}]  BY <1>0
  <2>3. upd \in [Tasks -> Configs] /\ buf \in [Tasks -> Configs]  BY <1>0, DefaultsFacts
  <2>4. restarts \in 0..MaxRestarts /\ edits \in 0..MaxEdits
    BY <1>0, ConfigAssumption DEF ConfigAssumption
  <2>5. store \in [Accounts -> Values \cup {Absent}]  BY <1>0
  <2> QED  BY <1>0, <1>1, <2>1, <2>2, <2>3, <2>4, <2>5 DEF TypeOK, Lives
<1>3. \A t \in Tasks : step[t] = "idle"  BY <1>0
<1>4. Turns /\ Routed /\ Moving /\ Clean /\ Moded /\ StartsAgain
  BY <1>0, <1>3, Strings DEF Turns, Routed, Moving, Clean, Moded, StartsAgain, InFlight, Starting
<1>5. Written /\ Kept
  BY <1>0, <1>3, Strings DEF Written, Kept, SecretHasAPlace, InFlight
<1>6. Startable
  <2>1. Required \subseteq given  BY <1>0, Strings DEF InFile
  <2> QED  BY <1>0, <2>1 DEF Startable, Starting
<1> QED  BY <1>2, <1>4, <1>5, <1>6 DEF ConfigInv

LEMMA ConfigNext == TypeOK /\ ConfigInv /\ [Next]_vars => (TypeOK /\ ConfigInv)'
<1> SUFFICES ASSUME TypeOK, ConfigInv, [Next]_vars PROVE (TypeOK /\ ConfigInv)'
  OBVIOUS
<1>1. CASE Next
  BY <1>1, TypeNext, TurnsNext, RoutedNext, MovingNext, WrittenNext, KeptNext, CleanNext,
     ModedNext, StartableNext DEF ConfigInv
<1>2. CASE UNCHANGED vars
  <2>1. UNCHANGED <<disk, store, proc, unlocked, live, todo, blanks, step, upd, buf, restarts,
                    edits, given, acked, spoiled, migrated>>
    BY <1>2 DEF vars, start, rewrite, bounds, seen
  <2>2. TypeOK'  BY <2>1 DEF TypeOK
  <2>3. InFile' = InFile /\ InStore' = InStore /\ \A t \in Tasks : InFlight(t)' = InFlight(t)
    BY <2>1 DEF InFile, InStore, InFlight
  <2>4. Turns' /\ Routed' /\ Moving'
    BY <2>1, <2>3, Strings
       DEF ConfigInv, Turns, Routed, Moving, Spelled, Blanked, Defaults
  <2>5. Written' /\ Clean'
    BY <2>1, <2>3 DEF ConfigInv, Written, Clean, Spelled, MergeRaw
  <2>6. Kept'
    BY <2>1, <2>3, Strings DEF ConfigInv, Kept, SecretHasAPlace, Spelled
  <2>7. Moded'  BY <2>1, <2>3 DEF ConfigInv, Moded, ModeOf, MergeRaw
  <2>8. Startable' /\ StartsAgain'
    BY <2>1, <2>3 DEF ConfigInv, Startable, StartsAgain, FromFile
  <2> QED  BY <2>2, <2>4, <2>5, <2>6, <2>7, <2>8 DEF ConfigInv
<1> QED  BY <1>1, <1>2

\* The inductive invariant holds.
THEOREM ConfigInvHolds == Spec => [](TypeOK /\ ConfigInv)
BY ConfigInit, ConfigNext, PTL DEF Spec

\* Every variable keeps its type: what the file, the keychain and the resolved
\* configuration hold (config.rs, secret_store.rs).
THEOREM ConfigTypes == Spec => []TypeOK
BY ConfigInvHolds, PTL

\* What the user has given and not cleared is in the file or the keychain, through
\* migrations, failures of the keychain and crashes (migrate_secrets_to_keychain and
\* route_secrets_to_store).
THEOREM SecretsKept == Spec => []SecretHasAPlace
<1>1. TypeOK /\ ConfigInv => SecretHasAPlace
  BY DEF ConfigInv, Kept, SecretHasAPlace
<1> QED  BY <1>1, ConfigInvHolds, PTL

\* After a migration config.json spells out no secret, whatever is posted and however
\* requests overlap (route_secrets_to_store before write_config).
THEOREM NoPlaintext == Spec => []NoPlaintextOnceMigrated
<1>1. TypeOK /\ ConfigInv => NoPlaintextOnceMigrated
  BY DEF ConfigInv, Clean, NoPlaintextOnceMigrated
<1> QED  BY <1>1, ConfigInvHolds, PTL

\* The file is the sum of all answered updates while none is under way, unless it was
\* spoiled by two rewrites at once or a crash inside one (write_config, merge_raw).
THEOREM UpdatesLast == Spec => []UpdatesStay
<1>1. TypeOK /\ ConfigInv => UpdatesStay
  BY DEF ConfigInv, Written, UpdatesStay, InFlight
<1> QED  BY <1>1, ConfigInvHolds, PTL

\* The mode in memory is the one the next start will read (set_mode and the callback
\* of main.rs that writes it).
THEOREM ModePersists == Spec => []ModeIsPersisted
<1>1. TypeOK /\ ConfigInv => ModeIsPersisted
  BY DEF ConfigInv, Moded, Written, ModeIsPersisted, InFlight, ModeOf, Resolved
<1> QED  BY <1>1, ConfigInvHolds, PTL

\* The daemon refuses to start only for one of the named reasons (the checks of main).
THEOREM StartsAgainAlways == Spec => []StartsAgain
<1>1. TypeOK /\ ConfigInv => StartsAgain  BY DEF ConfigInv
<1> QED  BY <1>1, ConfigInvHolds, PTL
===============================================================================

-------------------------- MODULE ConfigRestore_proofs --------------------------
(***************************************************************************)
(* Why a restore is all or nothing: the safety properties of ConfigRestore *)
(* for all values, generations and backups, any number of failing          *)
(* operations, power cuts and edits by others.  First what each operation  *)
(* of the backend, or a part of it, does to the stores; then the actions.  *)
(* Last, that a restore nobody interferes with implements AtomicUpdate.    *)
(***************************************************************************)
EXTENDS ConfigRestore, TLAPS

-----------------------------------------------------------------------------
(* The components, their order and the constants                           *)

LEMMA PositionsAre == \A n \in 1..7 : n = 1 \/ n = 2 \/ n = 3 \/ n = 4 \/ n = 5 \/ n = 6 \/ n = 7
OBVIOUS

\* The order names each component once.
LEMMA OrderIs ==
    /\ Components = {"Config", "Hardware", "Mqtt", "Ui", "Scroll", "Wifi", "Stations"}
    /\ \A n \in 1..7 :
          /\ Order[n] \in Components
          /\ Order[n] = "Config" <=> n = 1
          /\ Order[n] = "Wifi" <=> n = 6
          /\ Order[n] = "Stations" <=> n = 7
    /\ \A m, n \in 1..7 : Order[m] = Order[n] => m = n
    /\ \A c \in Components : \E n \in 1..7 : c = Order[n]
<1>1. /\ Order[1] = "Config" /\ Order[2] = "Hardware" /\ Order[3] = "Mqtt" /\ Order[4] = "Ui"
      /\ Order[5] = "Scroll" /\ Order[6] = "Wifi" /\ Order[7] = "Stations"
  BY DEF Order
<1> HIDE DEF Order
<1>2. Components = {"Config", "Hardware", "Mqtt", "Ui", "Scroll", "Wifi", "Stations"}
  BY <1>1, PositionsAre DEF Components
<1>3. \A n \in 1..7 :
          /\ Order[n] \in Components
          /\ Order[n] = "Config" <=> n = 1
          /\ Order[n] = "Wifi" <=> n = 6
          /\ Order[n] = "Stations" <=> n = 7
  BY <1>1, PositionsAre DEF Components
<1>4. \A m, n \in 1..7 : Order[m] = Order[n] => m = n
  BY <1>1, PositionsAre
<1>5. \A c \in Components : \E n \in 1..7 : c = Order[n]
  BY DEF Components
<1> QED
  BY <1>2, <1>3, <1>4, <1>5

LEMMA FilesAre == Files \subseteq Components /\ "Config" \in Components \ Files
BY OrderIs DEF Files

\* What a backup, a snapshot and an edit may hold is storable.
LEMMA CandidateTyped ==
    ASSUME TypeOK, NEW c \in Components
    PROVE  /\ candidate[c] \in Values \cup {Missing, Keep}
           /\ c # "Scroll" => candidate[c] \in Values
BY ConstantsAssumption DEF TypeOK

\* The files are components, and typed as such.
LEMMA FactsAre ==
    ASSUME TypeOK, RestoreInv
    PROVE  /\ Files \subseteq Components \ {"Config", "Scroll"}
           /\ "Wifi" \in Files /\ "Stations" \in Files /\ "Config" \in Components
           /\ \A f \in Files : candidate[f] \in Values
           /\ \A c \in Components \ {"Config"} : active[c] \in Values \cup {Missing}
           /\ active["Config"] \in Stored
           /\ active["Stations"] \in Values \cup {Missing}
<1>1. Files \subseteq Components \ {"Config", "Scroll"} /\ "Wifi" \in Files /\ "Stations" \in Files
      /\ "Config" \in Components
  BY OrderIs DEF Files
<1>2. \A f \in Files : candidate[f] \in Values
  BY <1>1, CandidateTyped
<1>3. \A c \in Components \ {"Config"} : active[c] \in Values \cup {Missing}
  BY DEF TypeOK, Stored, RestoreInv, WholeInv
<1> QED
  BY <1>1, <1>2, <1>3 DEF TypeOK

-----------------------------------------------------------------------------
(* What the operations of the backend do                                   *)

\* Only the component is written, exactly unless somebody saves meanwhile.
LEMMA WriteDoes ==
    ASSUME TypeOK, NEW c \in Components \ Files, NEW v \in Values \cup {Missing, Keep},
           c = "Config" => v # Keep, Write(c, v)
    PROVE  /\ active' \in [Components -> Stored]
           /\ save' \in {"idle", "due", "writing", "raced"}
           /\ edited' \subseteq Components /\ edited \subseteq edited'
           /\ \A d \in Components \ {c} : active'[d] = active[d]
           /\ c # "Config" => active'[c] \in {v, active[c]}
           /\ save = "idle" => save' = "idle" /\ active'[c] = IF v = Keep THEN active[c] ELSE v
<1>1. ram \in Values /\ active \in [Components -> Stored] /\ edited \subseteq Components
      /\ save \in {"idle", "due", "writing", "raced"}
  BY DEF TypeOK
<1>2. CASE c = "Config"
  <2>1. v \in Stored /\ ram \in Stored /\ Torn \in Stored
    BY <1>1, <1>2 DEF Stored
  <2>2. CASE save \in {"writing", "raced"}
    BY <1>1, <1>2, <2>1, <2>2 DEF Write, WriteConfig
  <2>3. CASE save \notin {"writing", "raced"}
    BY <1>1, <1>2, <2>1, <2>3 DEF Write, WriteConfig
  <2> QED
    BY <2>2, <2>3
<1>3. CASE c # "Config"
  BY <1>1, <1>3 DEF Write, Stored
<1> QED
  BY <1>2, <1>3

\* An installed file takes the place of the old one, which becomes the
\* rollback file; so does any part of it.
LEMMA InstallDoes ==
    ASSUME TypeOK, NEW f \in Files, staged[f] # Partial, active[f] # Torn,
           InstallFile(f) \/ InstallFilePart(f)
    PROVE  /\ active' \in [Components -> Stored]
           /\ staged' \in [Files -> Values \cup {Missing, Partial}]
           /\ rollback' \in [Files -> Values \cup {Missing}]
           /\ \A d \in Components \ {f} : active'[d] = active[d]
           /\ \A g \in Files \ {f} : rollback'[g] = rollback[g]
           /\ \A g \in Files : staged'[g] \in {staged[g], Missing}
           /\ active'[f] # Torn
           /\ \/ rollback'[f] = active[f]
              \/ rollback'[f] = rollback[f] /\ active'[f] = active[f]
           /\ InstallFile(f) => rollback'[f] = active[f]
<1>1. /\ active \in [Components -> Stored] /\ f \in Components
      /\ staged \in [Files -> Values \cup {Missing, Partial}]
      /\ rollback \in [Files -> Values \cup {Missing}]
      /\ staged[f] \in Values \cup {Missing} /\ active[f] \in Values \cup {Missing}
  BY FilesAre DEF TypeOK, Stored
<1>2. Torn # Missing /\ Torn \notin Values
  BY ConstantsAssumption
<1>3. CASE InstallFile(f)
  BY <1>1, <1>2, <1>3 DEF InstallFile, Displaced, Stored
<1>4. CASE UNCHANGED <<active, staged, rollback>>
  <2>1. InstallFile(f) => rollback'[f] = active[f]
    BY <1>3
  <2> QED
    BY <1>1, <1>2, <1>4, <2>1 DEF Stored
<1>5. CASE rollback' = Displaced(f) /\ active' = [active EXCEPT ![f] = Missing] /\ UNCHANGED staged
  BY <1>1, <1>2, <1>5 DEF InstallFile, Displaced, Stored
<1> QED
  BY <1>3, <1>4, <1>5 DEF InstallFilePart

\* The old file comes back if it was there: from the rollback file, or it
\* has never been replaced.
LEMMA RestoreDoes ==
    ASSUME TypeOK, NEW f \in Files, snapshot \in [Components -> Values \cup {Missing}],
           rollback[f] \in {Missing, snapshot[f]}, active[f] # Torn,
           RestoreFile(f) \/ RestoreFilePart(f)
    PROVE  /\ active' \in [Components -> Stored]
           /\ rollback' \in [Files -> Values \cup {Missing}]
           /\ \A d \in Components \ {f} : active'[d] = active[d]
           /\ \A g \in Files \ {f} : rollback'[g] = rollback[g]
           /\ rollback'[f] \in {Missing, snapshot[f]}
           /\ active'[f] # Torn
           /\ snapshot[f] \in {Missing, active[f], rollback[f]} =>
                 /\ snapshot[f] \in {Missing, active'[f], rollback'[f]}
                 /\ RestoreFile(f) => active'[f] = snapshot[f]
<1>1. /\ active \in [Components -> Stored] /\ f \in Components
      /\ rollback \in [Files -> Values \cup {Missing}]
      /\ snapshot[f] \in Values \cup {Missing} /\ active[f] \in Values \cup {Missing}
  BY FilesAre DEF TypeOK, Stored
<1>2. Torn # Missing /\ Torn \notin Values
  BY ConstantsAssumption
<1>3. CASE RestoreFile(f)
  BY <1>1, <1>2, <1>3 DEF RestoreFile, Stored
<1>4. CASE UNCHANGED <<active, rollback>>
  <2>1. RestoreFile(f) => active'[f] = snapshot[f] \/ snapshot[f] \notin {Missing, active[f], rollback[f]}
    BY <1>3
  <2> QED
    BY <1>1, <1>2, <1>4, <2>1
<1>5. CASE /\ snapshot[f] = Missing \/ rollback[f] # Missing
           /\ active' = [active EXCEPT ![f] = Missing] /\ UNCHANGED rollback
  <2>1. RestoreFile(f) => active'[f] = snapshot[f] \/ snapshot[f] \notin {Missing, active[f], rollback[f]}
    BY <1>3
  <2> QED
    BY <1>1, <1>2, <1>5, <2>1 DEF Stored
<1> QED
  BY <1>3, <1>4, <1>5 DEF RestoreFilePart

\* Cleaning up leaves what is in use, and the marker.
LEMMA CleanupDoes ==
    ASSUME TypeOK, NEW new \in BOOLEAN, Cleanup(new) \/ CleanupPart(new)
    PROVE  /\ staged' \in [Files -> Values \cup {Missing, Partial}]
           /\ rollback' \in [Files -> Values \cup {Missing}]
           /\ snapshot' \in [Components -> Values \cup {Missing}] \cup {NoSnapshot}
           /\ UNCHANGED <<active, index, marker>>
           /\ ~new => (Cleanup(new) => UNCHANGED staged)
           /\ \A f \in Files : staged'[f] \in {staged[f], Missing}
           /\ Cleanup(new) => rollback' = None
<1>1. /\ staged \in [Files -> Values \cup {Missing, Partial}]
      /\ rollback \in [Files -> Values \cup {Missing}]
      /\ snapshot \in [Components -> Values \cup {Missing}] \cup {NoSnapshot}
  BY DEF TypeOK
<1>2. None \in [Files -> Values \cup {Missing}] /\ \A f \in Files : None[f] = Missing
  BY DEF None
<1>3. ASSUME NEW files \in {staged, rollback}, NEW g \in RemovedPart(files)
      PROVE  /\ g \in [Files -> Values \cup {Missing, Partial}]
             /\ files = rollback => g \in [Files -> Values \cup {Missing}]
             /\ \A f \in Files : g[f] \in {files[f], Missing}
  BY <1>1, <1>3 DEF RemovedPart, Removed
<1>4. CASE Cleanup(new)
  BY <1>1, <1>2, <1>4 DEF Cleanup
<1>5. CASE CleanupPart(new) /\ ~Cleanup(new)
  <2>1. rollback' \in RemovedPart(rollback) /\ snapshot' \in {snapshot, NoSnapshot}
    BY <1>5 DEF CleanupPart
  <2>2. staged' = staged \/ staged' \in RemovedPart(staged)
    BY <1>5 DEF CleanupPart
  <2> QED
    BY <1>1, <1>3, <1>5, <2>1, <2>2 DEF CleanupPart
<1> QED
  BY <1>4, <1>5

-----------------------------------------------------------------------------
(* A part of an operation                                                  *)

\* The component an operation of commit or of the rollback is at.
LEMMA OrderSplits ==
    ASSUME NEW n \in 1..7
    PROVE  Order[n] \in Files \/ Order[n] \in Components \ Files
BY OrderIs

LEMMA PhaseIs ==
    /\ Phase("Wifi") = 6 /\ Phase("Stations") = 7
    /\ \A f \in Files : Phase(f) \in 1..7 /\ Order[Phase(f)] = f
    /\ \A n \in 1..7 : Order[n] \in Files => Phase(Order[n]) = n
<1>1. Order[6] = "Wifi" /\ Order[7] = "Stations"
  BY DEF Order
<1> QED
  BY <1>1, OrderIs DEF Phase, Files

\* What a part of commit's operation on a component leaves.
LEMMA ApplyPartDoes ==
    ASSUME TypeOK, RestoreInv, pc = "apply", marker \in 1..7, Apply(marker) \/ ApplyPart(marker)
    PROVE  /\ active' \in [Components -> Stored]
           /\ staged' \in [Files -> Values \cup {Missing, Partial}]
           /\ rollback' \in [Files -> Values \cup {Missing}]
           /\ save' \in {"idle", "due", "writing", "raced"}
           /\ edited' \subseteq Components
           /\ save = "idle" => save' = "idle"
           /\ UNCHANGED <<index, marker, snapshot>>
           /\ \A d \in Components \ {"Config"} : active'[d] # Torn
           /\ \A f \in Files :
                 /\ staged'[f] \in {candidate[f], Missing}
                 /\ rollback'[f] \in {Missing, snapshot[f]}
                 /\ snapshot[f] \in {active'[f], rollback'[f]} \/ snapshot[f] = Missing \/ orphaned
                 /\ marker < Phase(f) => active'[f] = snapshot[f]
<1> DEFINE c == Order[marker]
<1>1. CASE c \in Files
  <2>1. InstallFile(c) \/ InstallFilePart(c)
    BY <1>1 DEF Apply, ApplyPart
  <2>2. UNCHANGED <<save, edited, index, marker, snapshot>>
    BY <1>1 DEF Apply, ApplyPart
  <2>3. c \in Components \ {"Config"} /\ c # "Scroll" /\ Phase(c) = marker
    BY <1>1, OrderIs, FilesAre DEF Phase, Files
  <2>4. /\ staged[c] # Partial
        /\ \A d \in Components \ {"Config"} : active[d] # Torn
        /\ \A f \in Files :
              /\ staged[f] \in {candidate[f], Missing}
              /\ rollback[f] \in {Missing, snapshot[f]}
              /\ ~orphaned => snapshot[f] \in {Missing, active[f], rollback[f]}
              /\ marker < Phase(f) \/ marker = Phase(f) => active[f] = snapshot[f]
    <3>1. candidate[c] \in Values
      BY <2>3, CandidateTyped
    <3> QED
      BY <1>1, <3>1, PhaseIs, ConstantsAssumption DEF RestoreInv, WholeInv, KeptInv, Restoring
  <2>5. active[c] = snapshot[c]
    BY <1>1, <2>3, <2>4
  <2>6. ~(marker < Phase(c))
    BY <2>3
  <2> HIDE DEF c
  <2> QED
    BY <1>1, <2>1, <2>2, <2>3, <2>4, <2>5, <2>6, InstallDoes, FilesAre DEF TypeOK
<1>2. CASE c \in Components \ Files
  <2>1. UNCHANGED <<active, save, edited>> \/ Write(c, candidate[c])
    BY <1>2 DEF Apply, ApplyPart
  <2>2. UNCHANGED <<staged, rollback, index, marker, snapshot>>
    BY <1>2 DEF Apply, ApplyPart
  <2>3. candidate[c] \in Values \cup {Missing, Keep} /\ (c = "Config" => candidate[c] # Keep)
    BY <1>2, CandidateTyped, ConstantsAssumption
  <2>4. /\ \A d \in Components \ {"Config"} : active[d] # Torn
        /\ \A f \in Files :
              /\ staged[f] \in {candidate[f], Missing}
              /\ rollback[f] \in {Missing, snapshot[f]}
              /\ ~orphaned => snapshot[f] \in {Missing, active[f], rollback[f]}
              /\ marker < Phase(f) \/ marker = Phase(f) => active[f] = snapshot[f]
    BY PhaseIs DEF RestoreInv, WholeInv, KeptInv, Restoring
  <2>5. candidate[c] # Torn
    BY <2>3, ConstantsAssumption
  <2>6. \A f \in Files : f \in Components \ {c}
    BY <1>2, FilesAre
  <2> HIDE DEF c
  <2>7. CASE UNCHANGED <<active, save, edited>>
    BY <2>2, <2>4, <2>7 DEF TypeOK
  <2>8. CASE Write(c, candidate[c])
    BY <1>2, <2>2, <2>3, <2>4, <2>5, <2>6, <2>8, WriteDoes DEF TypeOK
  <2> QED
    BY <2>1, <2>7, <2>8
<1> QED
  BY <1>1, <1>2, OrderSplits

\* What a part of the rollback of a component leaves, and the whole.
LEMMA RestorePartDoes ==
    ASSUME TypeOK, RestoreInv, pc = "restore", at \in 1..7,
           RestoreComponent(at) \/ RestoreComponentPart(at)
    PROVE  /\ active' \in [Components -> Stored]
           /\ rollback' \in [Files -> Values \cup {Missing}]
           /\ save' \in {"idle", "due", "writing", "raced"}
           /\ edited' \subseteq Components
           /\ UNCHANGED <<staged, index, marker, snapshot>>
           /\ \A d \in Components \ {"Config"} : active'[d] # Torn
           /\ \A d \in Components \ {Order[at]} : active'[d] = active[d]
           /\ \A f \in Files :
                 /\ rollback'[f] \in {Missing, snapshot[f]}
                 /\ snapshot[f] \in {active'[f], rollback'[f]} \/ snapshot[f] = Missing \/ orphaned
           /\ save = "idle" => save' = "idle"
           /\ RestoreComponent(at) =>
                 /\ Order[at] \in Files /\ ~orphaned => active'[Order[at]] = snapshot[Order[at]]
                 /\ Order[at] \notin Files /\ save = "idle" => active'[Order[at]] = snapshot[Order[at]]
<1> DEFINE c == Order[at]
<1>1. /\ snapshot \in [Components -> Values \cup {Missing}]
      /\ \A d \in Components \ {"Config"} : active[d] # Torn
      /\ \A f \in Files :
            /\ rollback[f] \in {Missing, snapshot[f]}
            /\ ~orphaned => snapshot[f] \in {Missing, active[f], rollback[f]}
  BY DEF TypeOK, RestoreInv, PlaceInv, WholeInv, KeptInv
<1>2. CASE c \in Files
  <2>1. RestoreFile(c) \/ RestoreFilePart(c)
    BY <1>2 DEF RestoreComponent, RestoreComponentPart
  <2>2. RestoreComponent(at) => RestoreFile(c)
    BY <1>2 DEF RestoreComponent
  <2>3. UNCHANGED <<save, edited, staged, index, marker, snapshot>>
    BY <1>2 DEF RestoreComponent, RestoreComponentPart
  <2>4. c \in Components \ {"Config"}
    BY <1>2, FilesAre
  <2> HIDE DEF c
  <2>5. /\ active' \in [Components -> Stored]
        /\ rollback' \in [Files -> Values \cup {Missing}]
        /\ \A d \in Components \ {c} : active'[d] = active[d]
        /\ \A g \in Files \ {c} : rollback'[g] = rollback[g]
        /\ rollback'[c] \in {Missing, snapshot[c]}
        /\ active'[c] # Torn
        /\ snapshot[c] \in {Missing, active[c], rollback[c]} =>
              /\ snapshot[c] \in {Missing, active'[c], rollback'[c]}
              /\ RestoreFile(c) => active'[c] = snapshot[c]
    BY <1>1, <1>2, <2>1, <2>4, RestoreDoes
  <2> QED
    BY <1>1, <1>2, <2>2, <2>3, <2>4, <2>5, FilesAre DEF TypeOK, c
<1>3. CASE c \in Components \ Files
  <2>1. UNCHANGED <<active, save, edited>> \/ Write(c, snapshot[c])
    BY <1>3 DEF RestoreComponent, RestoreComponentPart
  <2>2. RestoreComponent(at) => Write(c, snapshot[c])
    BY <1>3 DEF RestoreComponent
  <2>3. UNCHANGED <<staged, rollback, index, marker, snapshot>>
    BY <1>3 DEF RestoreComponent, RestoreComponentPart
  <2>4. snapshot[c] \in Values \cup {Missing, Keep} /\ snapshot[c] # Keep /\ snapshot[c] # Torn
    BY <1>1, <1>3, ConstantsAssumption
  <2>5. \A f \in Files : f \in Components \ {c}
    BY <1>3, FilesAre
  <2> HIDE DEF c
  <2>6. CASE UNCHANGED <<active, save, edited>> /\ ~Write(c, snapshot[c])
    BY <1>1, <1>3, <2>2, <2>3, <2>6 DEF TypeOK, c
  <2>7. CASE Write(c, snapshot[c])
    BY <1>1, <1>3, <2>3, <2>4, <2>5, <2>7, WriteDoes DEF TypeOK, c
  <2> QED
    BY <2>1, <2>6, <2>7
<1> QED
  BY <1>2, <1>3, OrderSplits

\* Once nothing is in use that is not of one generation, no part of an
\* operation changes what is in use, nor its index.
Steady == marker = 0 \/ pc = "unmark" \/ (pc = "apply" /\ marker = Clear)

\* Where a failing operation or a power cut leaves the stores.
LEMMA PartwayDoes ==
    ASSUME TypeOK, RestoreInv, Partway
    PROVE  /\ active' \in [Components -> Stored]
           /\ staged' \in [Files -> Values \cup {Missing, Partial}]
           /\ rollback' \in [Files -> Values \cup {Missing}]
           /\ index' \in Values \cup {Missing}
           /\ marker' \in 0..10
           /\ snapshot' \in [Components -> Values \cup {Missing}] \cup {NoSnapshot}
           /\ save' \in {"idle", "due", "writing", "raced"}
           /\ edited' \subseteq Components
           /\ \A d \in Components \ {"Config"} : active'[d] # Torn
           /\ Steady => UNCHANGED <<active, edited, index>>
           /\ marker' = 0 => Steady
           /\ marker' # 0 /\ pc \notin {"running", "halted"} =>
                 /\ marker # 0 \/ pc = "prepare"
                 /\ snapshot' = snapshot
                 /\ \A f \in Files :
                       /\ rollback'[f] \in {Missing, snapshot[f]}
                       /\ snapshot[f] \in {active'[f], rollback'[f]} \/ snapshot[f] = Missing \/ orphaned
           /\ save = "idle" => save' = "idle"
           /\ pc \notin {"prepare", "advance", "unmark"} /\ ~(pc = "apply" /\ marker = Clear) =>
                 marker' = marker
<1> USE DEF TypeOK
<1>1. CASE pc = "apply" /\ marker <= 7 /\ ApplyPart(marker)
  <2>1. marker \in 1..7
    BY <1>1 DEF RestoreInv, PlaceInv
  <2> QED
    BY <1>1, <2>1, ApplyPartDoes DEF Steady, Clear
<1>2. CASE pc = "restore" /\ at <= 7 /\ RestoreComponentPart(at)
  <2>1. at \in 1..7 /\ marker # 0
    BY <1>2 DEF RestoreInv, PlaceInv
  <2> QED
    BY <1>2, <2>1, RestorePartDoes DEF Steady
<1> DEFINE Rest ==
       /\ UNCHANGED <<save, edited>>
       /\ CASE pc = "begin" -> CleanupPart(FALSE)
            [] pc = "snapshot" -> TakeSnapshot({snapshot, NoSnapshot})
            [] pc = "prepare" -> WriteMarker({0, 1})
            [] pc = "advance" -> WriteMarker({marker, marker + 1})
            [] (pc = "apply" /\ marker = Clear) \/ pc = "unmark" -> WriteMarker({marker, 0})
            [] (pc = "apply" /\ marker = Rebuild) \/ (pc = "restore" /\ at = Rebuild) ->
                  RebuildIndex({index, Missing, active["Stations"]})
            [] pc \in {"sweep", "tidy", "mounted"} -> CleanupPart(TRUE)
            [] OTHER -> UNCHANGED disk
<1>3. /\ \A d \in Components \ {"Config"} : active[d] # Torn
      /\ pc \in {"begin", "snapshot", "prepare", "sweep", "tidy", "mounted"} => marker = 0
      /\ pc \in {"apply", "advance", "restore", "unmark"} => marker # 0
      /\ pc = "advance" => marker < 10
      /\ marker # 0 \/ pc = "prepare" => snapshot \in [Components -> Values \cup {Missing}]
      /\ marker # 0 =>
            \A f \in Files :
               /\ rollback[f] \in {Missing, snapshot[f]}
               /\ snapshot[f] \in {active[f], rollback[f]} \/ snapshot[f] = Missing \/ orphaned
      /\ pc = "prepare" => \A f \in Files : rollback[f] = Missing /\ active[f] = snapshot[f]
  BY FilesAre DEF RestoreInv, PlaceInv, WholeInv, KeptInv, Clear, None
<1>4. CASE Rest /\ pc \in {"begin", "sweep", "tidy", "mounted"}
  <2>1. PICK new \in BOOLEAN : CleanupPart(new)
    BY <1>4
  <2>2. UNCHANGED <<save, edited>>
    BY <1>4
  <2> HIDE DEF Rest
  <2>3. /\ staged' \in [Files -> Values \cup {Missing, Partial}]
        /\ rollback' \in [Files -> Values \cup {Missing}]
        /\ snapshot' \in [Components -> Values \cup {Missing}] \cup {NoSnapshot}
        /\ UNCHANGED <<active, index, marker>>
    BY <2>1, CleanupDoes
  <2> QED
    BY <1>3, <1>4, <2>2, <2>3 DEF Steady
<1>5. CASE Rest /\ pc = "snapshot"
  BY <1>3, <1>5 DEF TakeSnapshot, Steady
<1>6. CASE Rest /\ pc \in {"prepare", "advance", "unmark"}
  <2>1. UNCHANGED <<active, staged, rollback, index, snapshot, save, edited>>
    BY <1>6 DEF WriteMarker
  <2>2. /\ marker' \in 0..10
        /\ pc = "prepare" => marker = 0 /\ Steady
        /\ pc = "advance" => marker' # 0
        /\ pc = "unmark" => Steady /\ marker # 0
    <3>1. CASE pc = "prepare"
      BY <1>3, <1>6, <3>1 DEF WriteMarker, Steady
    <3>2. CASE pc = "advance"
      BY <1>3, <1>6, <3>2 DEF WriteMarker, Steady
    <3>3. CASE pc = "unmark"
      BY <1>3, <1>6, <3>3 DEF WriteMarker, Steady
    <3> QED
      BY <1>6, <3>1, <3>2, <3>3
  <2> HIDE DEF Rest
  <2> QED
    BY <1>3, <1>6, <2>1, <2>2
<1>7. CASE Rest /\ pc \in {"apply", "restore"}
  <2>1. active["Stations"] \in Values \cup {Missing}
    BY <1>3, OrderIs DEF Stored
  <2>2. \/ marker = Clear /\ pc = "apply" /\ WriteMarker({marker, 0})
        \/ (marker = Rebuild \/ pc = "restore") /\ RebuildIndex({index, Missing, active["Stations"]})
        \/ UNCHANGED disk
    BY <1>7
  <2> QED
    BY <1>3, <1>7, <2>1, <2>2 DEF WriteMarker, RebuildIndex, Steady, Clear, Rebuild, disk
<1>8. CASE Rest /\ pc \in {"recover", "boot", "running", "halted"}
  BY <1>3, <1>8 DEF disk, Steady
<1> QED
  BY <1>1, <1>2, <1>4, <1>5, <1>6, <1>7, <1>8 DEF Partway

-----------------------------------------------------------------------------
(* The actions                                                            *)

\* begin has cleaned up what an earlier restore left.
LEMMA BeganInductive ==
    ASSUME TypeOK, RestoreInv, Began
    PROVE  TypeOK' /\ RestoreInv'
<1> USE DEF device, counters, GoOn, Restoring, Recovering, Answers, Rebuild, Verify, Clear
<1>0. /\ staged' \in [Files -> Values \cup {Missing, Partial}]
      /\ rollback' \in [Files -> Values \cup {Missing}]
      /\ snapshot' \in [Components -> Values \cup {Missing}] \cup {NoSnapshot}
      /\ UNCHANGED <<active, index, marker>>
      /\ \A f \in Files : staged'[f] \in {staged[f], Missing}
      /\ rollback' = None
  BY CleanupDoes DEF Began
<1>1. TypeOK'
  BY <1>0 DEF TypeOK, Began
<1>2. PlaceInv'
  BY <1>0 DEF RestoreInv, PlaceInv, Began
<1>3. WholeInv'
  BY <1>0 DEF RestoreInv, WholeInv, Began
<1>4. GenerationInv'
  BY <1>0 DEF RestoreInv, GenerationInv, AllOld, AllNew, Restored, Began
<1>5. IndexInv'
  BY <1>0 DEF RestoreInv, IndexInv, Indexed, Began
<1>6. KeptInv'
  BY <1>0 DEF RestoreInv, PlaceInv, KeptInv, Began
<1>7. BootInv'
  BY <1>0 DEF RestoreInv, BootInv, Began
<1>8. AnswerTrue'
  BY <1>0 DEF RestoreInv, AnswerTrue, Restored, Began
<1>9. HaltsOnlyWithReason'
  BY <1>0 DEF HaltsOnlyWithReason, Began
<1> QED
  BY <1>1, <1>2, <1>3, <1>4, <1>5, <1>6, <1>7, <1>8, <1>9 DEF RestoreInv

\* The old components are stored as the snapshot.
LEMMA SnapshotInductive ==
    ASSUME TypeOK, RestoreInv, Snapshot
    PROVE  TypeOK' /\ RestoreInv'
<1> USE DEF device, counters, GoOn, TakeSnapshot, Restoring, Recovering, Answers, Rebuild, Verify,
            Clear
<1>1. TypeOK'
  <2>1. active \in [Components -> Values \cup {Missing}]
    BY FactsAre DEF Snapshot, TypeOK, Stored
  <2> QED
    BY <2>1 DEF TypeOK, Snapshot
<1>2. PlaceInv'
  BY DEF RestoreInv, PlaceInv, Snapshot
<1>3. WholeInv'
  BY DEF RestoreInv, WholeInv, Snapshot
<1>4. GenerationInv'
  BY DEF GenerationInv, AllOld, AllNew, Snapshot
<1>5. IndexInv'
  BY DEF RestoreInv, IndexInv, Indexed, Snapshot
<1>6. KeptInv'
  <2>1. active \in [Components -> Values \cup {Missing}]
    BY FactsAre DEF Snapshot, TypeOK, Stored
  <2>2. active # NoSnapshot /\ rollback' = None /\ marker' = 0 /\ snapshot' = active /\ before' = active
    BY <2>1, ConstantsAssumption DEF Snapshot, RestoreInv, PlaceInv, KeptInv
  <2> QED
    BY <2>2 DEF KeptInv, Snapshot
<1>7. BootInv'
  BY DEF RestoreInv, BootInv, Snapshot
<1>8. AnswerTrue'
  BY DEF RestoreInv, PlaceInv, AnswerTrue, Restored, Snapshot
<1>9. HaltsOnlyWithReason'
  BY DEF HaltsOnlyWithReason, Snapshot
<1> QED
  BY <1>1, <1>2, <1>3, <1>4, <1>5, <1>6, <1>7, <1>8, <1>9 DEF RestoreInv

\* A configuration record that cannot be read has no snapshot.
LEMMA SnapshotRefusedInductive ==
    ASSUME TypeOK, RestoreInv, SnapshotRefused
    PROVE  TypeOK' /\ RestoreInv'
<1> USE DEF disk, device, counters, Rollback, Restoring, Recovering, Answers, Rebuild, Verify, Clear
<1>1. TypeOK'
  BY DEF TypeOK, SnapshotRefused
<1>2. PlaceInv'
  BY DEF RestoreInv, PlaceInv, SnapshotRefused
<1>3. WholeInv'
  BY DEF RestoreInv, WholeInv, SnapshotRefused
<1>4. GenerationInv'
  BY DEF RestoreInv, GenerationInv, AllOld, AllNew, Restored, SnapshotRefused
<1>5. IndexInv'
  BY DEF RestoreInv, IndexInv, Indexed, SnapshotRefused
<1>6. KeptInv'
  BY DEF RestoreInv, KeptInv, SnapshotRefused
<1>7. BootInv'
  BY DEF BootInv, SnapshotRefused
<1>8. AnswerTrue'
  BY DEF RestoreInv, AnswerTrue, Restored, SnapshotRefused
<1>9. HaltsOnlyWithReason'
  BY DEF HaltsOnlyWithReason, SnapshotRefused
<1> QED
  BY <1>1, <1>2, <1>3, <1>4, <1>5, <1>6, <1>7, <1>8, <1>9 DEF RestoreInv

\* The marker is stored for the first time.
LEMMA PrepareInductive ==
    ASSUME TypeOK, RestoreInv, Prepare
    PROVE  TypeOK' /\ RestoreInv'
<1> USE DEF device, counters, GoOn, WriteMarker, Restoring, Recovering, Answers, Rebuild, Verify,
            Clear
<1>1. TypeOK'
  BY DEF TypeOK, Prepare
<1>2. PlaceInv'
  BY DEF RestoreInv, PlaceInv, Prepare
<1>3. WholeInv'
  BY DEF RestoreInv, WholeInv, Prepare
<1>4. GenerationInv'
  BY DEF GenerationInv, Prepare
<1>5. IndexInv'
  BY DEF IndexInv, Indexed, Prepare
<1>6. KeptInv'
  BY PhaseIs DEF RestoreInv, KeptInv, None, Prepare
<1>7. BootInv'
  BY DEF RestoreInv, BootInv, Prepare
<1>8. AnswerTrue'
  BY DEF RestoreInv, PlaceInv, AnswerTrue, Restored, Prepare
<1>9. HaltsOnlyWithReason'
  BY DEF HaltsOnlyWithReason, Prepare
<1> QED
  BY <1>1, <1>2, <1>3, <1>4, <1>5, <1>6, <1>7, <1>8, <1>9 DEF RestoreInv

\* commit builds the station index anew.
LEMMA RebuildStepInductive ==
    ASSUME TypeOK, RestoreInv, RebuildStep
    PROVE  TypeOK' /\ RestoreInv'
<1> USE DEF device, counters, GoOn, RebuildIndex, Restoring, Recovering, Answers, Rebuild, Verify,
            Clear
<1>1. TypeOK'
  BY FactsAre DEF TypeOK, RebuildStep
<1>2. PlaceInv'
  BY DEF RestoreInv, PlaceInv, RebuildStep
<1>3. WholeInv'
  BY DEF RestoreInv, WholeInv, RebuildStep
<1>4. GenerationInv'
  BY DEF GenerationInv, RebuildStep
<1>5. IndexInv'
  BY DEF IndexInv, Indexed, RebuildStep
<1>6. KeptInv'
  BY PhaseIs DEF RestoreInv, KeptInv, RebuildStep
<1>7. BootInv'
  BY DEF RestoreInv, BootInv, RebuildStep
<1>8. AnswerTrue'
  BY DEF RestoreInv, AnswerTrue, Restored, RebuildStep
<1>9. HaltsOnlyWithReason'
  BY DEF HaltsOnlyWithReason, RebuildStep
<1> QED
  BY <1>1, <1>2, <1>3, <1>4, <1>5, <1>6, <1>7, <1>8, <1>9 DEF RestoreInv

\* commit compares all components with the backup.
LEMMA VerifyStepInductive ==
    ASSUME TypeOK, RestoreInv, VerifyStep
    PROVE  TypeOK' /\ RestoreInv'
<1> USE DEF disk, device, counters, GoOn, Rollback, Restoring, Recovering, Answers, Rebuild, Verify,
            Clear
<1>1. TypeOK'
  BY DEF TypeOK, VerifyStep
<1>2. PlaceInv'
  BY DEF RestoreInv, PlaceInv, VerifyStep
<1>3. WholeInv'
  BY DEF RestoreInv, WholeInv, VerifyStep
<1>4. GenerationInv'
  BY DEF RestoreInv, GenerationInv, AllOld, AllNew, Restored, VerifyStep
<1>5. IndexInv'
  BY DEF RestoreInv, IndexInv, Indexed, VerifyStep
<1>6. KeptInv'
  BY PhaseIs DEF RestoreInv, KeptInv, VerifyStep
<1>7. BootInv'
  BY DEF RestoreInv, BootInv, VerifyStep
<1>8. AnswerTrue'
  BY DEF RestoreInv, AnswerTrue, Restored, VerifyStep
<1>9. HaltsOnlyWithReason'
  BY DEF HaltsOnlyWithReason, VerifyStep
<1> QED
  BY <1>1, <1>2, <1>3, <1>4, <1>5, <1>6, <1>7, <1>8, <1>9 DEF RestoreInv

\* The marker of the next phase is stored.
LEMMA AdvanceInductive ==
    ASSUME TypeOK, RestoreInv, Advance
    PROVE  TypeOK' /\ RestoreInv'
<1> USE DEF device, counters, GoOn, WriteMarker, Restoring, Recovering, Answers, Rebuild, Verify,
            Clear
<1>1. TypeOK'
  BY DEF TypeOK, RestoreInv, PlaceInv, Advance
<1>2. PlaceInv'
  BY DEF TypeOK, RestoreInv, PlaceInv, Advance
<1>3. WholeInv'
  BY DEF RestoreInv, WholeInv, Advance
<1>4. GenerationInv'
  BY DEF TypeOK, RestoreInv, GenerationInv, AllOld, AllNew, Restored, Advance
<1>5. IndexInv'
  BY DEF TypeOK, RestoreInv, IndexInv, Indexed, Advance
<1>6. KeptInv'
  BY PhaseIs DEF TypeOK, RestoreInv, PlaceInv, KeptInv, Advance
<1>7. BootInv'
  BY DEF RestoreInv, BootInv, Advance
<1>8. AnswerTrue'
  BY DEF RestoreInv, PlaceInv, AnswerTrue, Restored, Advance
<1>9. HaltsOnlyWithReason'
  BY DEF HaltsOnlyWithReason, Advance
<1> QED
  BY <1>1, <1>2, <1>3, <1>4, <1>5, <1>6, <1>7, <1>8, <1>9 DEF RestoreInv

\* commit erases the marker.
LEMMA ClearStepInductive ==
    ASSUME TypeOK, RestoreInv, ClearStep
    PROVE  TypeOK' /\ RestoreInv'
<1> USE DEF device, counters, GoOn, WriteMarker, Restoring, Recovering, Answers, Rebuild, Verify,
            Clear
<1>1. TypeOK'
  BY DEF TypeOK, ClearStep
<1>2. PlaceInv'
  BY DEF RestoreInv, PlaceInv, ClearStep
<1>3. WholeInv'
  BY DEF RestoreInv, WholeInv, ClearStep
<1>4. GenerationInv'
  BY DEF RestoreInv, PlaceInv, GenerationInv, AllOld, AllNew, Restored, ClearStep
<1>5. IndexInv'
  BY DEF RestoreInv, IndexInv, Indexed, ClearStep
<1>6. KeptInv'
  BY DEF KeptInv, ClearStep
<1>7. BootInv'
  BY DEF RestoreInv, BootInv, ClearStep
<1>8. AnswerTrue'
  BY DEF RestoreInv, AnswerTrue, Restored, ClearStep
<1>9. HaltsOnlyWithReason'
  BY DEF HaltsOnlyWithReason, ClearStep
<1> QED
  BY <1>1, <1>2, <1>3, <1>4, <1>5, <1>6, <1>7, <1>8, <1>9 DEF RestoreInv

\* What a restore has left is removed.
LEMMA SweepInductive ==
    ASSUME TypeOK, RestoreInv, Sweep
    PROVE  TypeOK' /\ RestoreInv'
<1> USE DEF device, counters, GoOn, Reply, RecoverDone, Restoring, Recovering, Answers, Rebuild,
            Verify, Clear
<1>0. /\ staged' \in [Files -> Values \cup {Missing, Partial}]
      /\ rollback' \in [Files -> Values \cup {Missing}]
      /\ snapshot' \in [Components -> Values \cup {Missing}] \cup {NoSnapshot}
      /\ UNCHANGED <<active, index, marker>>
      /\ \A f \in Files : staged'[f] \in {staged[f], Missing}
      /\ rollback' = None
  BY CleanupDoes DEF Sweep
<1>1. TypeOK'
  <2>1. /\ pc' \in {"running", "mounted"} /\ caller' \in {"none", "boot"}
        /\ upload' \in {"none", upload} /\ (tuned' = FALSE \/ tuned' = tuned)
        /\ answer' \in {answer, "ok", "write_failed", "commit_failed"}
        /\ UNCHANGED <<device, before, edited, orphaned, failed, counters, candidate, at>>
    BY DEF Sweep, TypeOK
  <2>2. {tuned', orphaned', failed'} \subseteq BOOLEAN
    BY <2>1 DEF TypeOK
  <2>3. /\ upload' \in {"none", "open", "received"}
        /\ answer' \in {"none", "ok", "begin_failed", "write_failed", "commit_failed", "recovery_pending"}
    BY <2>1 DEF TypeOK
  <2> QED
    BY <1>0, <2>1, <2>2, <2>3 DEF TypeOK
<1>2. PlaceInv'
  BY <1>0 DEF RestoreInv, PlaceInv, Sweep
<1>3. WholeInv'
  BY <1>0 DEF RestoreInv, WholeInv, Sweep
<1>4. GenerationInv'
  BY <1>0 DEF RestoreInv, GenerationInv, AllOld, AllNew, Restored, Sweep
<1>5. IndexInv'
  BY <1>0 DEF RestoreInv, IndexInv, Indexed, Sweep
<1>6. KeptInv'
  BY <1>0 DEF RestoreInv, PlaceInv, KeptInv, Sweep
<1>7. BootInv'
  BY <1>0 DEF RestoreInv, BootInv, Sweep
<1>8. AnswerTrue'
  BY <1>0 DEF RestoreInv, PlaceInv, GenerationInv, AllOld, AllNew, AnswerTrue, Restored, Sweep
<1>9. HaltsOnlyWithReason'
  BY <1>0 DEF HaltsOnlyWithReason, Sweep
<1> QED
  BY <1>1, <1>2, <1>3, <1>4, <1>5, <1>6, <1>7, <1>8, <1>9 DEF RestoreInv

\* recover reads the marker.
LEMMA RecoverInductive ==
    ASSUME TypeOK, RestoreInv, Recover
    PROVE  TypeOK' /\ RestoreInv'
<1> USE DEF disk, device, counters, GoOn, Reply, RecoverDone, Restoring, Recovering, Answers,
            Rebuild, Verify, Clear
<1>1. TypeOK'
  <2>1. UNCHANGED <<disk, device, before, edited, orphaned, failed, counters, candidate>>
    BY DEF Recover
  <2>2. CASE RecoverDone(FALSE)
    BY <2>1, <2>2 DEF TypeOK, Recover
  <2>3. CASE at' = 1 /\ pc' \in {"tidy", "restore"} /\ UNCHANGED <<upload, caller, answer, tuned>>
    BY <2>1, <2>3 DEF TypeOK
  <2> QED
    BY <2>2, <2>3 DEF Recover
<1>2. PlaceInv'
  BY DEF RestoreInv, PlaceInv, Recover
<1>3. WholeInv'
  BY DEF RestoreInv, WholeInv, Recover
<1>4. GenerationInv'
  BY DEF RestoreInv, GenerationInv, AllOld, AllNew, Restored, Recover
<1>5. IndexInv'
  BY DEF RestoreInv, IndexInv, Indexed, Recover
<1>6. KeptInv'
  BY DEF RestoreInv, KeptInv, Recover
<1>7. BootInv'
  BY DEF RestoreInv, BootInv, Recover
<1>8. AnswerTrue'
  BY DEF RestoreInv, AnswerTrue, Restored, Recover
<1>9. HaltsOnlyWithReason'
  BY DEF RestoreInv, HaltsOnlyWithReason, KeptInv, Recover
<1> QED
  BY <1>1, <1>2, <1>3, <1>4, <1>5, <1>6, <1>7, <1>8, <1>9 DEF RestoreInv

\* recover without a marker removes what is left.
LEMMA TidyInductive ==
    ASSUME TypeOK, RestoreInv, Tidy
    PROVE  TypeOK' /\ RestoreInv'
<1> USE DEF device, counters, GoOn, Reply, RecoverDone, Restoring, Recovering, Answers, Rebuild,
            Verify, Clear
<1>0. /\ staged' \in [Files -> Values \cup {Missing, Partial}]
      /\ rollback' \in [Files -> Values \cup {Missing}]
      /\ snapshot' \in [Components -> Values \cup {Missing}] \cup {NoSnapshot}
      /\ UNCHANGED <<active, index, marker>>
      /\ \A f \in Files : staged'[f] \in {staged[f], Missing}
      /\ rollback' = None
  BY CleanupDoes DEF Tidy
<1>1. TypeOK'
  <2>1. /\ pc' \in {"running", "mounted"} /\ caller' \in {"none", "boot"}
        /\ upload' \in {"none", upload} /\ (tuned' = FALSE \/ tuned' = tuned)
        /\ answer' \in {answer, "ok", "write_failed", "commit_failed"}
        /\ UNCHANGED <<device, before, edited, orphaned, failed, counters, candidate, at>>
    BY DEF Tidy, TypeOK
  <2>2. {tuned', orphaned', failed'} \subseteq BOOLEAN
    BY <2>1 DEF TypeOK
  <2>3. /\ upload' \in {"none", "open", "received"}
        /\ answer' \in {"none", "ok", "begin_failed", "write_failed", "commit_failed", "recovery_pending"}
    BY <2>1 DEF TypeOK
  <2> QED
    BY <1>0, <2>1, <2>2, <2>3 DEF TypeOK
<1>2. PlaceInv'
  BY <1>0 DEF RestoreInv, PlaceInv, Tidy
<1>3. WholeInv'
  BY <1>0 DEF RestoreInv, WholeInv, Tidy
<1>4. GenerationInv'
  BY <1>0 DEF RestoreInv, GenerationInv, AllOld, AllNew, Restored, Tidy
<1>5. IndexInv'
  BY <1>0 DEF RestoreInv, IndexInv, Indexed, Tidy
<1>6. KeptInv'
  BY <1>0 DEF RestoreInv, PlaceInv, KeptInv, Tidy
<1>7. BootInv'
  BY <1>0 DEF RestoreInv, BootInv, Tidy
<1>8. AnswerTrue'
  BY <1>0 DEF RestoreInv, PlaceInv, GenerationInv, AllOld, AllNew, AnswerTrue, Restored, Tidy
<1>9. HaltsOnlyWithReason'
  BY <1>0 DEF HaltsOnlyWithReason, Tidy
<1> QED
  BY <1>1, <1>2, <1>3, <1>4, <1>5, <1>6, <1>7, <1>8, <1>9 DEF RestoreInv

\* The rollback builds the station index anew.
LEMMA RestoreIndexInductive ==
    ASSUME TypeOK, RestoreInv, RestoreIndex
    PROVE  TypeOK' /\ RestoreInv'
<1> USE DEF device, counters, RebuildIndex, RestoreNext, Restoring, Recovering, Answers, Rebuild,
            Verify, Clear
<1>1. TypeOK'
  BY FactsAre DEF TypeOK, RestoreIndex
<1>2. PlaceInv'
  BY DEF RestoreInv, PlaceInv, RestoreIndex
<1>3. WholeInv'
  BY DEF RestoreInv, WholeInv, RestoreIndex
<1>4. GenerationInv'
  BY DEF RestoreInv, GenerationInv, AllOld, AllNew, Restored, RestoreIndex
<1>5. IndexInv'
  BY DEF IndexInv, Indexed, RestoreIndex
<1>6. KeptInv'
  BY DEF RestoreInv, KeptInv, RestoreIndex
<1>7. BootInv'
  BY DEF RestoreInv, BootInv, RestoreIndex
<1>8. AnswerTrue'
  BY DEF RestoreInv, AnswerTrue, Restored, RestoreIndex
<1>9. HaltsOnlyWithReason'
  BY DEF HaltsOnlyWithReason, RestoreIndex
<1> QED
  BY <1>1, <1>2, <1>3, <1>4, <1>5, <1>6, <1>7, <1>8, <1>9 DEF RestoreInv

\* The rollback compares all components with the snapshot.
LEMMA VerifyRestoredInductive ==
    ASSUME TypeOK, RestoreInv, VerifyRestored
    PROVE  TypeOK' /\ RestoreInv'
<1> USE DEF disk, device, counters, GoOn, Reply, RecoverDone, Restoring, Recovering, Answers,
            Rebuild, Verify, Clear
<1>1. TypeOK'
  BY ConstantsAssumption DEF TypeOK, RestoreInv, PlaceInv, VerifyRestored
<1>2. PlaceInv'
  BY DEF RestoreInv, PlaceInv, VerifyRestored
<1>3. WholeInv'
  BY DEF RestoreInv, WholeInv, VerifyRestored
<1>4. GenerationInv'
  BY DEF RestoreInv, PlaceInv, GenerationInv, KeptInv, AllOld, AllNew, Restored, VerifyRestored
<1>5. IndexInv'
  BY DEF RestoreInv, IndexInv, Indexed, VerifyRestored
<1>6. KeptInv'
  BY DEF RestoreInv, KeptInv, VerifyRestored
<1>7. BootInv'
  BY DEF RestoreInv, BootInv, VerifyRestored
<1>8. AnswerTrue'
  BY DEF RestoreInv, PlaceInv, AnswerTrue, Restored, VerifyRestored
<1>9. HaltsOnlyWithReason'
  <2>1. CASE caller = "boot" /\ active # snapshot
    <3>1. marker # 0 /\ snapshot \in [Components -> Values \cup {Missing}]
      BY DEF VerifyRestored, TypeOK, RestoreInv, PlaceInv, KeptInv
    <3>2. \A n \in 1..7 : active[Order[n]] = snapshot[Order[n]]
      BY <2>1 DEF VerifyRestored, RestoreInv, BootInv
    <3>3. active = snapshot
      BY <3>1, <3>2, OrderIs DEF TypeOK
    <3> QED
      BY <2>1, <3>3
  <2>2. CASE caller # "boot" \/ active = snapshot
    BY <2>2 DEF VerifyRestored, HaltsOnlyWithReason
  <2> QED
    BY <2>1, <2>2
<1> QED
  BY <1>1, <1>2, <1>3, <1>4, <1>5, <1>6, <1>7, <1>8, <1>9 DEF RestoreInv

\* The rollback erases the marker.
LEMMA UnmarkInductive ==
    ASSUME TypeOK, RestoreInv, Unmark
    PROVE  TypeOK' /\ RestoreInv'
<1> USE DEF device, counters, GoOn, WriteMarker, Settled, Restoring, Recovering, Answers, Rebuild,
            Verify, Clear
<1>1. TypeOK'
  BY DEF TypeOK, Unmark
<1>2. PlaceInv'
  BY DEF RestoreInv, PlaceInv, Unmark
<1>3. WholeInv'
  BY DEF RestoreInv, WholeInv, Unmark
<1>4. GenerationInv'
  BY DEF RestoreInv, PlaceInv, GenerationInv, AllOld, AllNew, Restored, Unmark
<1>5. IndexInv'
  BY DEF RestoreInv, IndexInv, Indexed, Unmark
<1>6. KeptInv'
  BY DEF KeptInv, Unmark
<1>7. BootInv'
  BY DEF RestoreInv, BootInv, Unmark
<1>8. AnswerTrue'
  BY DEF RestoreInv, AnswerTrue, Restored, Unmark
<1>9. HaltsOnlyWithReason'
  BY DEF HaltsOnlyWithReason, Unmark
<1> QED
  BY <1>1, <1>2, <1>3, <1>4, <1>5, <1>6, <1>7, <1>8, <1>9 DEF RestoreInv

\* A boot begins with recover if a marker is stored.
LEMMA BootStepInductive ==
    ASSUME TypeOK, RestoreInv, BootStep
    PROVE  TypeOK' /\ RestoreInv'
<1> USE DEF disk, counters, GoOn, Restoring, Recovering, Answers, Rebuild, Verify, Clear
<1>1. TypeOK'
  BY DEF TypeOK, BootStep
<1>2. PlaceInv'
  BY DEF RestoreInv, PlaceInv, AnswerTrue, BootStep
<1>3. WholeInv'
  BY DEF RestoreInv, WholeInv, BootStep
<1>4. GenerationInv'
  BY DEF RestoreInv, GenerationInv, AllOld, AllNew, Restored, BootStep
<1>5. IndexInv'
  BY DEF RestoreInv, IndexInv, Indexed, BootStep
<1>6. KeptInv'
  BY DEF RestoreInv, KeptInv, BootStep
<1>7. BootInv'
  BY DEF BootInv, BootStep
<1>8. AnswerTrue'
  BY DEF RestoreInv, AnswerTrue, Restored, BootStep
<1>9. HaltsOnlyWithReason'
  BY DEF HaltsOnlyWithReason, BootStep
<1> QED
  BY <1>1, <1>2, <1>3, <1>4, <1>5, <1>6, <1>7, <1>8, <1>9 DEF RestoreInv

\* Config::init loads the record, or replaces it, and cleans up.
LEMMA MountedInductive ==
    ASSUME TypeOK, RestoreInv, Mounted
    PROVE  TypeOK' /\ RestoreInv'
<1> USE DEF Restoring, Recovering, Answers, Rebuild, Verify, Clear
<1>1. TypeOK'
  <2>1. ram' \in Values
    BY ConstantsAssumption DEF Mounted
  <2>2. active' \in [Components -> Stored] /\ edited' \subseteq Components
    BY <2>1, FactsAre DEF Mounted, TypeOK, Stored
  <2>3. /\ rollback' \in [Files -> Values \cup {Missing}]
        /\ staged' \in [Files -> Values \cup {Missing, Partial}]
        /\ snapshot' \in [Components -> Values \cup {Missing}] \cup {NoSnapshot}
    BY DEF Mounted, TypeOK, None, RemovedPart, Removed
  <2>4. faults' \in 0..MaxFaults
    BY ConstantsAssumption DEF Mounted, TypeOK
  <2>5. failed' = failed \/ failed' = TRUE
    BY DEF Mounted
  <2>6. /\ pc' = "running" /\ caller' = "none"
        /\ UNCHANGED <<index, marker, save, upload, candidate, at, answer, before, tuned, orphaned, cuts, edits>>
    BY DEF Mounted
  <2> QED
    BY <2>1, <2>2, <2>3, <2>4, <2>5, <2>6 DEF TypeOK
<1>2. PlaceInv'
  BY DEF RestoreInv, PlaceInv, Mounted
<1>3. WholeInv'
  BY FactsAre DEF RestoreInv, PlaceInv, WholeInv, Mounted
<1>4. GenerationInv'
  <2>1. /\ \A c \in Components \ edited' : active'[c] = active[c] /\ c \notin edited
        /\ marker' = 0 /\ pc' = "running" /\ caller' = "none"
        /\ UNCHANGED <<before, candidate, upload>>
    BY FactsAre DEF TypeOK, RestoreInv, PlaceInv, Mounted
  <2>2. upload = "none" \/ AllOld
    BY DEF RestoreInv, PlaceInv, GenerationInv, Mounted
  <2>3. (AllOld => AllOld') /\ (AllNew => AllNew')
    BY <2>1 DEF AllOld, AllNew, Restored
  <2> QED
    BY <2>1, <2>2, <2>3 DEF RestoreInv, PlaceInv, GenerationInv, Mounted
<1>5. IndexInv'
  BY DEF RestoreInv, IndexInv, Indexed, Mounted
<1>6. KeptInv'
  BY DEF RestoreInv, PlaceInv, KeptInv, Mounted
<1>7. BootInv'
  BY DEF BootInv, Mounted
<1>8. AnswerTrue'
  BY DEF RestoreInv, AnswerTrue, Restored, Mounted
<1>9. HaltsOnlyWithReason'
  BY DEF HaltsOnlyWithReason, Mounted
<1> QED
  BY <1>1, <1>2, <1>3, <1>4, <1>5, <1>6, <1>7, <1>8, <1>9 DEF RestoreInv

\* An upload begins.
LEMMA OpenUploadInductive ==
    ASSUME TypeOK, RestoreInv, OpenUpload
    PROVE  TypeOK' /\ RestoreInv'
<1> USE DEF device, counters, Restoring, Recovering, Answers, Rebuild, Verify, Clear
<1>1. TypeOK'
  BY DEF TypeOK, OpenUpload
<1>2. PlaceInv'
  BY DEF RestoreInv, PlaceInv, OpenUpload
<1>3. WholeInv'
  BY DEF RestoreInv, WholeInv, OpenUpload
<1>4. GenerationInv'
  BY DEF GenerationInv, AllOld, AllNew, OpenUpload
<1>5. IndexInv'
  BY DEF RestoreInv, IndexInv, Indexed, OpenUpload
<1>6. KeptInv'
  BY DEF KeptInv, OpenUpload
<1>7. BootInv'
  BY DEF RestoreInv, BootInv, OpenUpload
<1>8. AnswerTrue'
  BY DEF AnswerTrue, OpenUpload
<1>9. HaltsOnlyWithReason'
  BY DEF HaltsOnlyWithReason, OpenUpload
<1> QED
  BY <1>1, <1>2, <1>3, <1>4, <1>5, <1>6, <1>7, <1>8, <1>9 DEF RestoreInv

\* The rest of the upload arrives.
LEMMA ReceiveInductive ==
    ASSUME TypeOK, RestoreInv, Receive
    PROVE  TypeOK' /\ RestoreInv'
<1> USE DEF device, history, counters, Restoring, Recovering, Answers, Rebuild, Verify, Clear
<1>1. TypeOK'
  BY FactsAre DEF TypeOK, Receive
<1>2. PlaceInv'
  BY DEF RestoreInv, PlaceInv, Receive
<1>3. WholeInv'
  BY DEF RestoreInv, WholeInv, Receive
<1>4. GenerationInv'
  BY DEF RestoreInv, GenerationInv, AllOld, AllNew, Restored, Receive
<1>5. IndexInv'
  BY DEF RestoreInv, IndexInv, Indexed, Receive
<1>6. KeptInv'
  BY DEF RestoreInv, KeptInv, Receive
<1>7. BootInv'
  BY DEF RestoreInv, BootInv, Receive
<1>8. AnswerTrue'
  BY DEF RestoreInv, AnswerTrue, Restored, Receive
<1>9. HaltsOnlyWithReason'
  BY DEF HaltsOnlyWithReason, Receive
<1> QED
  BY <1>1, <1>2, <1>3, <1>4, <1>5, <1>6, <1>7, <1>8, <1>9 DEF RestoreInv

\* An upload is given up.
LEMMA AbortInductive ==
    ASSUME TypeOK, RestoreInv, Abort
    PROVE  TypeOK' /\ RestoreInv'
<1> USE DEF device, history, counters, Restoring, Recovering, Answers, Rebuild, Verify, Clear
<1>1. TypeOK'
  BY DEF TypeOK, Abort, Removed
<1>2. PlaceInv'
  BY DEF RestoreInv, PlaceInv, Abort
<1>3. WholeInv'
  BY DEF RestoreInv, WholeInv, Abort, Removed
<1>4. GenerationInv'
  BY DEF RestoreInv, GenerationInv, AllOld, AllNew, Restored, Abort
<1>5. IndexInv'
  BY DEF RestoreInv, IndexInv, Indexed, Abort
<1>6. KeptInv'
  BY DEF RestoreInv, KeptInv, Abort
<1>7. BootInv'
  BY DEF RestoreInv, BootInv, Abort
<1>8. AnswerTrue'
  BY DEF RestoreInv, AnswerTrue, Restored, Abort
<1>9. HaltsOnlyWithReason'
  BY DEF HaltsOnlyWithReason, Abort
<1> QED
  BY <1>1, <1>2, <1>3, <1>4, <1>5, <1>6, <1>7, <1>8, <1>9 DEF RestoreInv

\* An upload is accepted.
LEMMA AcceptInductive ==
    ASSUME TypeOK, RestoreInv, Accept
    PROVE  TypeOK' /\ RestoreInv'
<1> USE DEF disk, device, history, counters, Restoring, Recovering, Answers, Rebuild, Verify, Clear
<1>1. TypeOK'
  BY DEF TypeOK, Accept
<1>2. PlaceInv'
  BY DEF RestoreInv, PlaceInv, Accept
<1>3. WholeInv'
  BY DEF RestoreInv, WholeInv, Accept
<1>4. GenerationInv'
  BY DEF RestoreInv, GenerationInv, AllOld, AllNew, Restored, Accept
<1>5. IndexInv'
  BY DEF RestoreInv, IndexInv, Indexed, Accept
<1>6. KeptInv'
  BY DEF RestoreInv, KeptInv, Accept
<1>7. BootInv'
  BY DEF RestoreInv, BootInv, Accept
<1>8. AnswerTrue'
  BY DEF RestoreInv, AnswerTrue, Restored, Accept
<1>9. HaltsOnlyWithReason'
  BY DEF HaltsOnlyWithReason, Accept
<1> QED
  BY <1>1, <1>2, <1>3, <1>4, <1>5, <1>6, <1>7, <1>8, <1>9 DEF RestoreInv

\* The device is restarted.
LEMMA RebootInductive ==
    ASSUME TypeOK, RestoreInv, Reboot
    PROVE  TypeOK' /\ RestoreInv'
<1> USE DEF disk, Restart, Restoring, Recovering, Answers, Rebuild, Verify, Clear
<1>1. TypeOK'
  BY DEF TypeOK, Reboot
<1>2. PlaceInv'
  BY DEF PlaceInv, Reboot
<1>3. WholeInv'
  BY DEF RestoreInv, WholeInv, Reboot
<1>4. GenerationInv'
  BY DEF RestoreInv, GenerationInv, AllOld, AllNew, Restored, Reboot
<1>5. IndexInv'
  BY DEF RestoreInv, IndexInv, Indexed, Reboot
<1>6. KeptInv'
  BY DEF RestoreInv, KeptInv, Reboot
<1>7. BootInv'
  BY DEF BootInv, Reboot
<1>8. AnswerTrue'
  BY DEF RestoreInv, AnswerTrue, Restored, Reboot
<1>9. HaltsOnlyWithReason'
  BY DEF HaltsOnlyWithReason, Reboot
<1> QED
  BY <1>1, <1>2, <1>3, <1>4, <1>5, <1>6, <1>7, <1>8, <1>9 DEF RestoreInv

\* The user changes the record in RAM.
LEMMA TuneInductive ==
    ASSUME TypeOK, RestoreInv, Tune
    PROVE  TypeOK' /\ RestoreInv'
<1> USE DEF disk, task, Restoring, Recovering, Answers, Up, Rebuild, Verify, Clear
<1>1. TypeOK'
  BY ConstantsAssumption DEF TypeOK, Tune
<1>2. PlaceInv'
  BY DEF RestoreInv, PlaceInv, Tune
<1>3. WholeInv'
  BY DEF RestoreInv, WholeInv, Tune
<1>4. GenerationInv'
  BY DEF RestoreInv, GenerationInv, AllOld, AllNew, Restored, Tune
<1>5. IndexInv'
  BY DEF RestoreInv, IndexInv, Indexed, Tune
<1>6. KeptInv'
  BY DEF RestoreInv, KeptInv, Tune
<1>7. BootInv'
  BY DEF BootInv, Tune
<1>8. AnswerTrue'
  BY DEF RestoreInv, AnswerTrue, Restored, Tune
<1>9. HaltsOnlyWithReason'
  BY DEF RestoreInv, HaltsOnlyWithReason, Tune
<1> QED
  BY <1>1, <1>2, <1>3, <1>4, <1>5, <1>6, <1>7, <1>8, <1>9 DEF RestoreInv

\* The main loop fills the EEPROM buffer.
LEMMA SaveBeginInductive ==
    ASSUME TypeOK, RestoreInv, SaveBegin
    PROVE  TypeOK' /\ RestoreInv'
<1> USE DEF disk, task, history, counters, Restoring, Recovering, Answers, Up, Rebuild, Verify,
            Clear
<1>1. TypeOK'
  BY DEF TypeOK, SaveBegin
<1>2. PlaceInv'
  BY DEF RestoreInv, PlaceInv, SaveBegin
<1>3. WholeInv'
  BY DEF RestoreInv, WholeInv, SaveBegin
<1>4. GenerationInv'
  BY DEF RestoreInv, GenerationInv, AllOld, AllNew, Restored, SaveBegin
<1>5. IndexInv'
  BY DEF RestoreInv, IndexInv, Indexed, SaveBegin
<1>6. KeptInv'
  BY DEF RestoreInv, KeptInv, SaveBegin
<1>7. BootInv'
  BY DEF BootInv, SaveBegin
<1>8. AnswerTrue'
  BY DEF RestoreInv, AnswerTrue, Restored, SaveBegin
<1>9. HaltsOnlyWithReason'
  BY DEF RestoreInv, HaltsOnlyWithReason, SaveBegin
<1> QED
  BY <1>1, <1>2, <1>3, <1>4, <1>5, <1>6, <1>7, <1>8, <1>9 DEF RestoreInv

\* The main loop commits the EEPROM buffer.
LEMMA SaveEndInductive ==
    ASSUME TypeOK, RestoreInv, SaveEnd
    PROVE  TypeOK' /\ RestoreInv'
<1> USE DEF task, counters, Restoring, Recovering, Answers, Up, Rebuild, Verify, Clear
<1>1. TypeOK'
  BY FactsAre DEF TypeOK, SaveEnd, Stored
<1>2. PlaceInv'
  BY DEF RestoreInv, PlaceInv, SaveEnd
<1>3. WholeInv'
  BY DEF RestoreInv, WholeInv, SaveEnd
<1>4. GenerationInv'
  BY DEF RestoreInv, GenerationInv, AllOld, AllNew, Restored, SaveEnd
<1>5. IndexInv'
  BY DEF RestoreInv, IndexInv, Indexed, SaveEnd
<1>6. KeptInv'
  BY FactsAre DEF RestoreInv, KeptInv, SaveEnd
<1>7. BootInv'
  BY DEF BootInv, SaveEnd
<1>8. AnswerTrue'
  BY DEF RestoreInv, AnswerTrue, Restored, SaveEnd
<1>9. HaltsOnlyWithReason'
  BY DEF RestoreInv, HaltsOnlyWithReason, SaveEnd
<1> QED
  BY <1>1, <1>2, <1>3, <1>4, <1>5, <1>6, <1>7, <1>8, <1>9 DEF RestoreInv

\* A component is changed by others.
LEMMA EditInductive ==
    ASSUME TypeOK, RestoreInv, Edit
    PROVE  TypeOK' /\ RestoreInv'
<1> USE DEF task, Restart, Restoring, Recovering, Answers, Rebuild, Verify, Clear
<1>1. TypeOK'
  <2>1. PICK c \in Components \ {"Config"}, v \in EditValues :
           /\ active' = [active EXCEPT ![c] = v]
           /\ index' = IF c = "Stations" THEN v ELSE index
           /\ edited' = edited \cup {c}
           /\ orphaned' = (orphaned \/ (c \in Files /\ marker # 0))
           /\ IF c = "Wifi" THEN Restart ELSE UNCHANGED <<ram, task, before, tuned, failed>>
           /\ UNCHANGED <<staged, rollback, marker, snapshot, save, faults, cuts>>
    BY DEF Edit
  <2>2. v \in Values
    BY ConstantsAssumption
  <2>3. active' \in [Components -> Stored] /\ index' \in Values \cup {Missing}
        /\ edited' \subseteq Components /\ edits' \in 0..MaxEdits /\ orphaned' \in BOOLEAN
    BY <2>1, <2>2, ConstantsAssumption DEF TypeOK, Stored, Edit
  <2>4. CASE c = "Wifi"
    <3>1. tuned' = FALSE /\ failed' = FALSE /\ pc' = "boot" /\ caller' = "boot" /\ upload' = "none"
          /\ UNCHANGED <<ram, candidate, at, answer, before>>
      BY <2>1, <2>4
    <3> QED
      BY <2>1, <2>3, <3>1 DEF TypeOK
  <2>5. CASE c # "Wifi"
    BY <2>1, <2>3, <2>5 DEF TypeOK
  <2> QED
    BY <2>4, <2>5
<1>2. PlaceInv'
  BY DEF RestoreInv, PlaceInv, Edit
<1>3. WholeInv'
  BY ConstantsAssumption DEF RestoreInv, WholeInv, Edit
<1>4. GenerationInv'
  BY DEF RestoreInv, GenerationInv, AllOld, AllNew, Restored, Edit
<1>5. IndexInv'
  BY DEF TypeOK, RestoreInv, IndexInv, Indexed, Edit
<1>6. KeptInv'
  <2>1. PICK c \in Components \ {"Config"}, v \in EditValues :
           active' = [active EXCEPT ![c] = v] /\ orphaned' = (orphaned \/ (c \in Files /\ marker # 0))
    BY DEF Edit
  <2>2. \A f \in Files : active'[f] = active[f] \/ f = c
    BY <2>1, FactsAre DEF TypeOK
  <2>3. marker' # 0 /\ ~orphaned' => ~orphaned /\ c \notin Files
    BY <2>1 DEF Edit
  <2>4. pc' \in {"running", "boot"} /\ UNCHANGED <<rollback, marker, snapshot, before>>
    BY DEF Edit
  <2> QED
    BY <2>2, <2>3, <2>4 DEF RestoreInv, KeptInv
<1>7. BootInv'
  BY DEF RestoreInv, BootInv, Edit
<1>8. AnswerTrue'
  BY DEF RestoreInv, AnswerTrue, Restored, Edit
<1>9. HaltsOnlyWithReason'
  BY DEF HaltsOnlyWithReason, Edit
<1> QED
  BY <1>1, <1>2, <1>3, <1>4, <1>5, <1>6, <1>7, <1>8, <1>9 DEF RestoreInv

\* commit writes or installs a component.
LEMMA ApplyStepInductive ==
    ASSUME TypeOK, RestoreInv, ApplyStep
    PROVE  TypeOK' /\ RestoreInv'
<1> USE DEF counters, GoOn, Rollback, Restoring, Recovering, Answers, Rebuild, Verify, Clear
<1>1. /\ active' \in [Components -> Stored]
      /\ staged' \in [Files -> Values \cup {Missing, Partial}]
      /\ rollback' \in [Files -> Values \cup {Missing}]
      /\ save' \in {"idle", "due", "writing", "raced"}
      /\ edited' \subseteq Components
      /\ UNCHANGED <<index, marker, snapshot>>
      /\ \A d \in Components \ {"Config"} : active'[d] # Torn
      /\ \A f \in Files :
            /\ staged'[f] \in {candidate[f], Missing}
            /\ rollback'[f] \in {Missing, snapshot[f]}
            /\ snapshot[f] \in {active'[f], rollback'[f]} \/ snapshot[f] = Missing \/ orphaned
            /\ marker < Phase(f) => active'[f] = snapshot[f]
  BY ApplyPartDoes DEF ApplyStep
<1>2. /\ pc = "apply" /\ marker \in 1..7
      /\ \/ pc' = "advance" /\ caller' = caller
         \/ pc' = "recover" /\ caller' = "commit"
      /\ UNCHANGED <<upload, candidate, at, answer, tuned, ram, before, orphaned, failed, counters>>
  BY DEF ApplyStep
<1>3. caller = "none" /\ answer \notin Answers
  BY <1>2 DEF RestoreInv, PlaceInv
<1>4. TypeOK'
  BY <1>1, <1>2 DEF TypeOK
<1>5. PlaceInv'
  BY <1>1, <1>2, <1>3 DEF PlaceInv
<1>6. WholeInv'
  BY <1>1, <1>2 DEF WholeInv
<1>7. GenerationInv' /\ IndexInv' /\ BootInv' /\ HaltsOnlyWithReason'
  BY <1>1, <1>2, <1>3 DEF GenerationInv, IndexInv, BootInv, HaltsOnlyWithReason
<1>8. KeptInv'
  BY <1>1, <1>2 DEF RestoreInv, KeptInv
<1>9. AnswerTrue'
  BY <1>2, <1>3 DEF AnswerTrue
<1> QED
  BY <1>4, <1>5, <1>6, <1>7, <1>8, <1>9 DEF RestoreInv

\* The rollback puts a component back.
LEMMA RestoreStepInductive ==
    ASSUME TypeOK, RestoreInv, RestoreStep
    PROVE  TypeOK' /\ RestoreInv'
<1> USE DEF counters, GoOn, Reply, RecoverDone, RestoreNext, Restoring, Recovering, Answers,
            Rebuild, Verify, Clear
<1>1. pc = "restore" /\ at \in 1..7 /\ RestoreComponent(at)
  BY DEF RestoreStep, TypeOK
<1>2. /\ active' \in [Components -> Stored]
      /\ rollback' \in [Files -> Values \cup {Missing}]
      /\ save' \in {"idle", "due", "writing", "raced"}
      /\ edited' \subseteq Components
      /\ UNCHANGED <<staged, index, marker, snapshot>>
      /\ \A d \in Components \ {"Config"} : active'[d] # Torn
      /\ \A d \in Components \ {Order[at]} : active'[d] = active[d]
      /\ \A f \in Files :
            /\ rollback'[f] \in {Missing, snapshot[f]}
            /\ snapshot[f] \in {active'[f], rollback'[f]} \/ snapshot[f] = Missing \/ orphaned
      /\ save = "idle" => save' = "idle"
      /\ Order[at] \in Files /\ ~orphaned => active'[Order[at]] = snapshot[Order[at]]
      /\ Order[at] \notin Files /\ save = "idle" => active'[Order[at]] = snapshot[Order[at]]
  BY <1>1, RestorePartDoes
<1>3. /\ UNCHANGED <<candidate, ram, before, orphaned, failed, counters>>
      /\ \/ /\ RestoreNext
            /\ Order[at] \in Files => active'[Order[at]] = snapshot[Order[at]]
         \/ /\ RecoverDone(FALSE)
            /\ Order[at] \in Files /\ active'[Order[at]] # snapshot[Order[at]]
  BY DEF RestoreStep
<1>4. marker # 0 /\ answer \notin Answers /\ caller # "none" /\ (caller = "boot" => upload = "none" /\ save = "idle")
  BY <1>1 DEF RestoreInv, PlaceInv, BootInv
<1>5. CASE RestoreNext
  <2>1. TypeOK'
    BY <1>1, <1>2, <1>3, <1>5 DEF TypeOK
  <2>2. PlaceInv' /\ WholeInv' /\ GenerationInv' /\ IndexInv' /\ AnswerTrue' /\ HaltsOnlyWithReason'
    BY <1>1, <1>2, <1>3, <1>4, <1>5
       DEF TypeOK, RestoreInv, PlaceInv, WholeInv, GenerationInv, IndexInv, AnswerTrue,
           HaltsOnlyWithReason
  <2>3. KeptInv'
    BY <1>1, <1>2, <1>3, <1>4, <1>5 DEF RestoreInv, KeptInv
  <2>4. ASSUME caller = "boot", NEW n \in 1..7, n < at + 1
        PROVE  active'[Order[n]] = snapshot[Order[n]]
    <3>1. CASE n = at
      <4>1. Order[at] \in Files => active'[Order[at]] = snapshot[Order[at]]
        BY <1>3, <1>4, <1>5, <2>4
      <4> QED
        BY <1>2, <1>4, <2>4, <3>1, <4>1
    <3>2. CASE n < at
      <4>1. Order[n] \in Components \ {Order[at]} /\ active[Order[n]] = snapshot[Order[n]]
        BY <1>1, <2>4, <3>2, OrderIs DEF RestoreInv, BootInv
      <4> QED
        BY <1>2, <4>1
    <3> QED
      BY <1>1, <2>4, <3>1, <3>2
  <2>5. BootInv'
    BY <1>1, <1>2, <1>4, <1>5, <2>4 DEF BootInv
  <2> QED
    BY <2>1, <2>2, <2>3, <2>5 DEF RestoreInv
<1>6. CASE RecoverDone(FALSE) /\ Order[at] \in Files /\ active'[Order[at]] # snapshot[Order[at]]
  <2>1. orphaned
    BY <1>2, <1>6
  <2>2. TypeOK'
    BY <1>2, <1>3, <1>6 DEF TypeOK
  <2>3. PlaceInv' /\ WholeInv' /\ GenerationInv' /\ IndexInv' /\ BootInv' /\ AnswerTrue'
    BY <1>1, <1>2, <1>3, <1>4, <1>6
       DEF TypeOK, RestoreInv, PlaceInv, WholeInv, GenerationInv, IndexInv, BootInv, AnswerTrue
  <2>4. KeptInv'
    BY <1>1, <1>2, <1>3, <1>4, <1>6 DEF RestoreInv, KeptInv
  <2>5. HaltsOnlyWithReason'
    BY <1>3, <2>1 DEF HaltsOnlyWithReason
  <2> QED
    BY <2>2, <2>3, <2>4, <2>5 DEF RestoreInv
<1> QED
  BY <1>3, <1>5, <1>6

\* Where the stores are left when an operation fails: recover, the answer or
\* the halt that follows finds what it expects.
LEMMA FaultInductive ==
    ASSUME TypeOK, RestoreInv, Fault
    PROVE  TypeOK' /\ RestoreInv'
<1> USE DEF disk, GoOn, Reply, Rollback, RecoverDone, WriteMarker, TakeSnapshot, RebuildIndex,
            Settled, Restoring, Recovering, Answers, Rebuild, Verify, Clear
<1>1. /\ active' \in [Components -> Stored]
      /\ staged' \in [Files -> Values \cup {Missing, Partial}]
      /\ rollback' \in [Files -> Values \cup {Missing}]
      /\ index' \in Values \cup {Missing}
      /\ marker' \in 0..10
      /\ snapshot' \in [Components -> Values \cup {Missing}] \cup {NoSnapshot}
      /\ save' \in {"idle", "due", "writing", "raced"}
      /\ edited' \subseteq Components
      /\ \A d \in Components \ {"Config"} : active'[d] # Torn
      /\ Steady => UNCHANGED <<active, edited, index>>
      /\ marker' = 0 => Steady
      /\ marker' # 0 /\ pc \notin {"running", "halted"} =>
            /\ marker # 0 \/ pc = "prepare"
            /\ snapshot' = snapshot
            /\ \A f \in Files :
                  /\ rollback'[f] \in {Missing, snapshot[f]}
                  /\ snapshot[f] \in {active'[f], rollback'[f]} \/ snapshot[f] = Missing \/ orphaned
      /\ save = "idle" => save' = "idle"
      /\ pc \notin {"prepare", "advance", "unmark"} /\ ~(pc = "apply" /\ marker = Clear) =>
            marker' = marker
  BY PartwayDoes DEF Fault
<1>2. /\ pc \notin {"running", "mounted", "halted"} /\ FailTo /\ Settled
      /\ faults' \in 0..MaxFaults /\ failed' = TRUE
      /\ UNCHANGED <<ram, before, cuts, edits>>
  BY ConstantsAssumption DEF Fault, TypeOK
<1>3. candidate' = candidate /\ at' = at /\ (tuned' = FALSE \/ tuned' = tuned)
  BY <1>2 DEF FailTo, TypeOK
<1>4. orphaned' \in BOOLEAN /\ (marker' # 0 => orphaned' = orphaned)
  BY <1>2 DEF TypeOK
<1>5. \/ /\ pc \in {"begin", "snapshot", "prepare", "apply", "advance"}
         /\ pc' = "recover" /\ UNCHANGED <<upload, answer>>
         /\ caller' = IF pc \in {"apply", "advance"} THEN "commit" ELSE "stage"
         /\ pc # "begin"
      \/ pc = "begin" /\ Reply("begin_failed")
      \/ pc = "sweep" /\ caller = "none" /\ Reply("ok")
      \/ pc = "sweep" /\ caller = "boot" /\ GoOn("mounted")
      \/ pc = "sweep" /\ caller = "stage" /\ Reply("write_failed")
      \/ pc = "sweep" /\ caller = "commit" /\ Reply("commit_failed")
      \/ pc \in {"recover", "restore", "unmark", "tidy", "boot"} /\ caller = "boot" /\ GoOn("halted")
      \/ pc \in {"recover", "restore", "unmark", "tidy"} /\ caller # "boot" /\ Reply("recovery_pending")
  BY <1>2 DEF FailTo, TypeOK, RestoreInv, PlaceInv
<1>6. /\ pc \in Restoring \cup Recovering \cup {"sweep"} => answer \notin Answers
      /\ pc \in {"begin", "snapshot", "prepare", "sweep", "tidy"} => marker = 0
      /\ pc \in Restoring => caller = "none"
      /\ caller = "boot" => upload = "none"
  BY DEF RestoreInv, PlaceInv
<1>7. TypeOK'
  <2>1. /\ pc' \in {"running", "recover", "mounted", "halted"}
        /\ caller' \in {"none", "stage", "commit", "boot"}
        /\ upload' \in {"none", "open", "received"}
        /\ answer' \in {"none", "ok", "begin_failed", "write_failed", "commit_failed", "recovery_pending"}
    BY <1>5, <1>6 DEF TypeOK
  <2> HIDE DEF Reply, GoOn, Settled
  <2> QED
    BY <1>1, <1>2, <1>3, <1>4, <2>1 DEF TypeOK
<1>8. PlaceInv'
  BY <1>1, <1>5, <1>6 DEF PlaceInv
<1>9. WholeInv'
  BY <1>1, <1>5 DEF WholeInv
<1>10. /\ marker' = 0 => (AllOld => AllOld') /\ (AllNew => AllNew') /\ Indexed'
       /\ marker' = 0 => AllOld \/ AllNew
  <2>1. Steady => Indexed /\ (AllOld \/ AllNew)
    BY DEF RestoreInv, IndexInv, GenerationInv, Steady
  <2> QED
    BY <1>1, <1>2, <1>3, <2>1 DEF AllOld, AllNew, Restored, Indexed
<1>11. GenerationInv'
  <2>1. marker' = 0 /\ caller' = "stage" => AllOld
    BY <1>1, <1>5, <1>6 DEF RestoreInv, GenerationInv
  <2>2. pc' \in {"running", "recover", "mounted", "halted"} /\ (pc' = "running" => upload' = "none")
    BY <1>5
  <2> QED
    BY <1>10, <2>1, <2>2 DEF GenerationInv
<1>12. IndexInv' /\ BootInv'
  BY <1>1, <1>5, <1>6, <1>10 DEF RestoreInv, BootInv, IndexInv
<1>13. KeptInv'
  <2>1. pc' \in {"running", "recover", "mounted", "halted"}
    BY <1>5
  <2>2. marker' # 0 => snapshot' = before' /\ snapshot' # NoSnapshot
    BY <1>1, <1>2 DEF RestoreInv, KeptInv
  <2> QED
    BY <1>1, <1>2, <1>4, <2>1, <2>2 DEF KeptInv
<1>14. AnswerTrue'
  <2>1. CASE pc \in {"begin", "sweep"} /\ pc' = "running"
    <3>1. marker' = 0 /\ (pc = "begin" \/ caller = "stage" => AllOld) /\ (pc = "sweep" /\ caller = "none" => AllNew)
      BY <1>1, <1>6, <2>1 DEF RestoreInv, GenerationInv
    <3>2. /\ answer' = "ok" => pc = "sweep" /\ caller = "none"
          /\ answer' \in {"begin_failed", "write_failed"} => pc = "begin" \/ caller = "stage"
      BY <1>5, <2>1
    <3> QED
      BY <1>10, <3>1, <3>2 DEF AnswerTrue, AllOld, AllNew
  <2>2. CASE pc \notin {"begin", "sweep"} \/ pc' # "running"
    <3>1. CASE answer' \notin Answers
      BY <3>1 DEF AnswerTrue
    <3>2. CASE answer' \in Answers
      <4>1. pc = "boot" /\ answer' = answer
        BY <1>5, <1>6, <2>2, <3>2
      <4>2. marker = 0 /\ marker' = 0
        BY <1>1, <3>2, <4>1 DEF RestoreInv, AnswerTrue
      <4> QED
        BY <1>10, <4>1, <4>2 DEF RestoreInv, AnswerTrue, AllOld, AllNew
    <3> QED
      BY <3>1, <3>2
  <2> QED
    BY <2>1, <2>2
<1>15. HaltsOnlyWithReason'
  BY <1>2 DEF HaltsOnlyWithReason
<1> QED
  BY <1>7, <1>8, <1>9, <1>11, <1>12, <1>13, <1>14, <1>15 DEF RestoreInv

\* Where the stores are left when the power is cut.
LEMMA PowerCutInductive ==
    ASSUME TypeOK, RestoreInv, PowerCut
    PROVE  TypeOK' /\ RestoreInv'
<1> USE DEF disk, WriteMarker, TakeSnapshot, RebuildIndex, Restart, Settled, Restoring, Recovering,
            Answers, Rebuild, Verify, Clear
<1>1. /\ active' \in [Components -> Stored]
      /\ staged' \in [Files -> Values \cup {Missing, Partial}]
      /\ rollback' \in [Files -> Values \cup {Missing}]
      /\ index' \in Values \cup {Missing}
      /\ marker' \in 0..10
      /\ snapshot' \in [Components -> Values \cup {Missing}] \cup {NoSnapshot}
      /\ save' \in {"idle", "due", "writing", "raced"}
      /\ edited' \subseteq Components
      /\ \A d \in Components \ {"Config"} : active'[d] # Torn
      /\ Steady => UNCHANGED <<active, edited, index>>
      /\ marker' = 0 => Steady
      /\ marker' # 0 /\ pc \notin {"running", "halted"} =>
            /\ marker # 0 \/ pc = "prepare"
            /\ snapshot' = snapshot
            /\ \A f \in Files :
                  /\ rollback'[f] \in {Missing, snapshot[f]}
                  /\ snapshot[f] \in {active'[f], rollback'[f]} \/ snapshot[f] = Missing \/ orphaned
      /\ save = "idle" => save' = "idle"
      /\ pc \notin {"prepare", "advance", "unmark"} /\ ~(pc = "apply" /\ marker = Clear) =>
            marker' = marker
  BY PartwayDoes DEF PowerCut
<1>2. /\ pc \notin {"running", "halted"} /\ Settled
      /\ pc' = "boot" /\ caller' = "boot" /\ upload' = "none" /\ tuned' = FALSE /\ failed' = FALSE
      /\ cuts' \in 0..MaxCuts
      /\ UNCHANGED <<ram, candidate, at, answer, before, faults, edits>>
  BY ConstantsAssumption DEF PowerCut, TypeOK
<1>3. orphaned' \in BOOLEAN /\ (marker' # 0 => orphaned' = orphaned)
  BY <1>2 DEF TypeOK
<1>4. TypeOK'
  <2> HIDE DEF Settled
  <2> QED
    BY <1>1, <1>2, <1>3 DEF TypeOK
<1>5. PlaceInv' /\ WholeInv' /\ BootInv' /\ HaltsOnlyWithReason'
  BY <1>1, <1>2 DEF PlaceInv, WholeInv, BootInv, HaltsOnlyWithReason
<1>6. /\ marker' = 0 => (AllOld => AllOld') /\ (AllNew => AllNew') /\ Indexed'
      /\ marker' = 0 => AllOld \/ AllNew
  <2>1. Steady => Indexed /\ (AllOld \/ AllNew)
    BY DEF RestoreInv, IndexInv, GenerationInv, Steady
  <2> QED
    BY <1>1, <1>2, <2>1 DEF AllOld, AllNew, Restored, Indexed
<1>7. GenerationInv' /\ IndexInv'
  BY <1>2, <1>6 DEF GenerationInv, IndexInv
<1>8. KeptInv'
  <2>1. marker' # 0 => snapshot' = before' /\ snapshot' # NoSnapshot
    BY <1>1, <1>2 DEF RestoreInv, KeptInv
  <2> QED
    BY <1>1, <1>2, <1>3, <2>1 DEF KeptInv
<1>9. AnswerTrue'
  <2>1. CASE answer \notin Answers
    BY <1>2, <2>1 DEF AnswerTrue
  <2>2. CASE answer \in Answers
    <3>1. pc \notin Restoring \cup Recovering
      BY <2>2 DEF RestoreInv, PlaceInv
    <3>2. marker = 0 /\ marker' = 0
      BY <1>1, <2>2, <3>1 DEF RestoreInv, AnswerTrue
    <3> QED
      BY <1>2, <1>6, <3>2 DEF RestoreInv, AnswerTrue, AllOld, AllNew
  <2> QED
    BY <2>1, <2>2
<1> QED
  BY <1>4, <1>5, <1>7, <1>8, <1>9 DEF RestoreInv

-----------------------------------------------------------------------------
(* The invariant                                                           *)

\* What a device has stored when it is first looked at.
LEMMA InitInv ==
    ASSUME Init
    PROVE  TypeOK /\ RestoreInv
<1>1. /\ active \in [Components -> Values \cup {Missing}] /\ active["Config"] \in Values
      /\ \A c \in Components : active[c] # Torn
  BY OrderIs, ConstantsAssumption DEF Init
<1>2. /\ None \in [Files -> Values \cup {Missing}]
      /\ active["Stations"] \in Values \cup {Missing}
  BY <1>1, OrderIs DEF None
<1>3. TypeOK
  <2>1. /\ active \in [Components -> Stored] /\ before \in [Components -> Stored]
        /\ staged \in [Files -> Values \cup {Missing, Partial}]
        /\ rollback \in [Files -> Values \cup {Missing}]
        /\ index \in Values \cup {Missing}
    BY <1>1, <1>2 DEF Init, Stored
  <2>2. 0 \in 0..MaxFaults /\ 0 \in 0..MaxCuts /\ 0 \in 0..MaxEdits
    BY ConstantsAssumption
  <2>3. {tuned, orphaned, failed} \subseteq BOOLEAN
    BY DEF Init
  <2> QED
    BY <1>1, <2>1, <2>2, <2>3 DEF Init, TypeOK
<1>4. AllOld /\ Indexed
  BY DEF Init, AllOld, Indexed
<1>5. PlaceInv /\ WholeInv
  BY <1>1 DEF Init, PlaceInv, WholeInv, Restoring, Recovering, Answers
<1>6. GenerationInv /\ IndexInv
  BY <1>4 DEF Init, GenerationInv, IndexInv
<1>7. KeptInv /\ BootInv /\ AnswerTrue /\ HaltsOnlyWithReason
  BY DEF Init, KeptInv, BootInv, AnswerTrue, HaltsOnlyWithReason
<1> QED
  BY <1>3, <1>5, <1>6, <1>7 DEF RestoreInv

\* A step of the restore, the boot or the others keeps the invariant.
LEMMA StepInv ==
    ASSUME TypeOK, RestoreInv, [Next]_vars
    PROVE  TypeOK' /\ RestoreInv'
<1>1. CASE Proceed
  BY <1>1, BeganInductive, SnapshotInductive, SnapshotRefusedInductive, PrepareInductive,
     ApplyStepInductive, RebuildStepInductive, VerifyStepInductive, AdvanceInductive,
     ClearStepInductive, SweepInductive, RecoverInductive, TidyInductive,
     RestoreStepInductive, RestoreIndexInductive, VerifyRestoredInductive, UnmarkInductive,
     BootStepInductive, MountedInductive, FaultInductive
     DEF Proceed
<1>2. CASE Others
  BY <1>2, OpenUploadInductive, ReceiveInductive, AbortInductive, AcceptInductive, RebootInductive,
     PowerCutInductive, TuneInductive, SaveBeginInductive, SaveEndInductive, EditInductive
     DEF Others
<1>3. CASE UNCHANGED vars
  BY <1>3
     DEF vars, disk, device, task, history, counters, TypeOK, RestoreInv, PlaceInv, WholeInv,
         GenerationInv, IndexInv, KeptInv, BootInv, AnswerTrue, HaltsOnlyWithReason, AllOld,
         AllNew, Indexed, Restored
<1> QED
  BY <1>1, <1>2, <1>3 DEF Next

\* The components are typed, and the invariant relates the marker, the stores
\* and the answer at every step of every restore and boot.
THEOREM RestoreInvariant == Spec => [](TypeOK /\ RestoreInv)
<1>1. Init => TypeOK /\ RestoreInv
  BY InitInv
<1>2. TypeOK /\ RestoreInv /\ [Next]_vars => (TypeOK /\ RestoreInv)'
  BY StepInv
<1> QED
  BY <1>1, <1>2, PTL DEF Spec

\* Whatever fails and whenever the power is cut, without a marker the
\* components are all old or all new, and the station index is the playlist's.
THEOREM AlwaysAllOrNothing == Spec => []AllOrNothing
<1>1. RestoreInv => AllOrNothing
  BY DEF RestoreInv, GenerationInv, IndexInv, AllOld, AllNew, Indexed, AllOrNothing
<1> QED
  BY <1>1, RestoreInvariant, PTL

\* The client's answer is true when it is given and stays true.
THEOREM AlwaysAnswerTrue == Spec => []AnswerTrue
<1>1. RestoreInv => AnswerTrue
  BY DEF RestoreInv
<1> QED
  BY <1>1, RestoreInvariant, PTL

\* As long as the marker is stored the rollback has what it needs.
THEOREM AlwaysPreviousKept == Spec => []PreviousKept
<1>1. RestoreInv => PreviousKept
  BY DEF RestoreInv, KeptInv, PreviousKept
<1> QED
  BY <1>1, RestoreInvariant, PTL

\* A boot whose operations all succeed recovers every restore that was cut
\* off, and does not halt, unless a file was edited under the marker.
THEOREM AlwaysHaltsOnlyWithReason == Spec => []HaltsOnlyWithReason
<1>1. RestoreInv => HaltsOnlyWithReason
  BY DEF RestoreInv
<1> QED
  BY <1>1, RestoreInvariant, PTL

-----------------------------------------------------------------------------
(* A restore is one step                                                   *)

\* What holds of the components when nobody else writes them.
LEMMA AloneFacts ==
    ASSUME TypeOK, RestoreInv, AloneInv
    PROVE  /\ active \in [Components -> Values \cup {Missing}]
           /\ marker = 0 => AllOld \/ AllNew
           /\ marker # 0 \/ pc = "prepare" =>
                 /\ snapshot = before /\ snapshot \in [Components -> Values \cup {Missing}]
                 /\ snapshot["Config"] \in Values
                 /\ candidate \in [Components -> Values \cup {Missing, Keep}]
           /\ AllOld => active = before
           /\ \A f \in Files : candidate[f] # Keep
           /\ candidate["Config"] \in Values
<1>1. active \in [Components -> Values \cup {Missing}]
  BY FactsAre DEF TypeOK, AloneInv
<1>2. candidate \in [Components -> Values \cup {Missing, Keep}]
  BY ConstantsAssumption DEF TypeOK
<1>3. AllOld => active = before
  BY <1>1 DEF AllOld, AloneInv, TypeOK
<1>4. (\A f \in Files : candidate[f] # Keep) /\ candidate["Config"] \in Values
  BY FactsAre, CandidateTyped, OrderIs, ConstantsAssumption
<1>5. marker # 0 \/ pc = "prepare" =>
          /\ snapshot = before /\ snapshot \in [Components -> Values \cup {Missing}]
          /\ snapshot["Config"] \in Values
  BY DEF RestoreInv, KeptInv, TypeOK, AloneInv
<1>6. marker = 0 => AllOld \/ AllNew
  BY DEF RestoreInv, GenerationInv
<1> QED
  BY <1>1, <1>2, <1>3, <1>4, <1>5, <1>6

\* Nobody saves, so only the component is written, and exactly.
LEMMA WriteAlone ==
    ASSUME AloneInv, NEW c \in Components \ Files, NEW v, c = "Config" => v # Keep, Write(c, v)
    PROVE  /\ active' = [active EXCEPT ![c] = IF v = Keep THEN @ ELSE v]
           /\ UNCHANGED <<save, edited>>
BY DEF AloneInv, Write, WriteConfig

\* A part of commit's operation on a component, or all of it.
LEMMA ApplyAlone ==
    ASSUME TypeOK, RestoreInv, AloneInv, pc = "apply", marker \in 1..7,
           Apply(marker) \/ ApplyPart(marker)
    PROVE  /\ UNCHANGED <<save, edited, marker, snapshot>>
           /\ active'["Config"] \in Values
           /\ \A c \in Components : candidate[c] = Keep => active'[c] = active[c]
<1> DEFINE o == Order[marker]
<1>1. active \in [Components -> Stored] /\ active["Config"] \in Values /\ "Config" \in Components
  BY OrderIs DEF TypeOK, AloneInv
<1>2. CASE o \in Files
  <2>1. /\ InstallFile(o) \/ InstallFilePart(o)
        /\ UNCHANGED <<save, edited, marker, snapshot>>
    BY <1>2 DEF Apply, ApplyPart
  <2>2. staged[o] # Partial /\ active[o] # Torn
    BY <1>2, FactsAre, ConstantsAssumption DEF RestoreInv, WholeInv, Restoring
  <2>3. \A d \in Components \ {o} : active'[d] = active[d]
    BY <1>2, <2>1, <2>2, InstallDoes
  <2> HIDE DEF o
  <2> QED
    BY <1>1, <1>2, <2>1, <2>3, AloneFacts, FactsAre
<1>3. CASE o \in Components \ Files
  <2>1. UNCHANGED <<active, save, edited>> \/ Write(o, candidate[o])
    BY <1>3 DEF Apply, ApplyPart
  <2>2. UNCHANGED <<marker, snapshot>>
    BY DEF Apply, ApplyPart
  <2>3. o = "Config" => candidate[o] # Keep
    BY AloneFacts, ConstantsAssumption
  <2> HIDE DEF o
  <2>4. CASE Write(o, candidate[o])
    BY <1>1, <1>3, <2>2, <2>3, <2>4, WriteAlone, AloneFacts
  <2> QED
    BY <1>1, <2>1, <2>2, <2>4
<1> QED
  BY <1>2, <1>3, OrderSplits

\* The same of the rollback of a component.
LEMMA RestoreAlone ==
    ASSUME TypeOK, RestoreInv, AloneInv, pc = "restore", at \in 1..7,
           RestoreComponent(at) \/ RestoreComponentPart(at)
    PROVE  /\ UNCHANGED <<save, edited, marker, snapshot>>
           /\ active'["Config"] \in Values
           /\ \A c \in Components : candidate[c] = Keep => active'[c] = snapshot[c]
<1> DEFINE o == Order[at]
<1>1. /\ active \in [Components -> Stored] /\ active["Config"] \in Values /\ "Config" \in Components
      /\ marker # 0
  BY OrderIs DEF TypeOK, AloneInv, RestoreInv, PlaceInv
<1>2. /\ \A c \in Components : candidate[c] = Keep => active[c] = snapshot[c]
      /\ snapshot \in [Components -> Values \cup {Missing}] /\ snapshot["Config"] \in Values
      /\ \A d \in Components : snapshot[d] # Keep
  BY <1>1, AloneFacts, ConstantsAssumption DEF AloneInv
<1>3. CASE o \in Files
  <2>1. UNCHANGED <<save, edited, marker, snapshot>>
    BY <1>3 DEF RestoreComponent, RestoreComponentPart
  <2>2. \A d \in Components \ {o} : active'[d] = active[d]
    BY RestorePartDoes
  <2> HIDE DEF o
  <2> QED
    BY <1>1, <1>2, <1>3, <2>1, <2>2, AloneFacts, FactsAre
<1>4. CASE o \in Components \ Files
  <2>1. UNCHANGED <<active, save, edited>> \/ Write(o, snapshot[o])
    BY <1>4 DEF RestoreComponent, RestoreComponentPart
  <2>2. UNCHANGED <<marker, snapshot>>
    BY DEF RestoreComponent, RestoreComponentPart
  <2> HIDE DEF o
  <2>3. CASE Write(o, snapshot[o])
    BY <1>1, <1>2, <1>4, <2>2, <2>3, WriteAlone
  <2> QED
    BY <1>1, <1>2, <2>1, <2>2, <2>3
<1> QED
  BY <1>3, <1>4, OrderSplits

\* The same wherever an operation fails or the power is cut.
LEMMA PartwayAlone ==
    ASSUME TypeOK, RestoreInv, AloneInv, Partway, pc \notin {"running", "halted"}
    PROVE  /\ UNCHANGED <<save, edited>>
           /\ active'["Config"] \in Values
           /\ marker' # 0 => \A c \in Components : candidate[c] = Keep => active'[c] = snapshot'[c]
<1>1. active["Config"] \in Values
  BY DEF AloneInv
<1>2. CASE pc = "apply" /\ marker <= 7 /\ ApplyPart(marker)
  <2>1. marker \in 1..7
    BY <1>2 DEF TypeOK, RestoreInv, PlaceInv
  <2> QED
    BY <1>2, <2>1, ApplyAlone DEF AloneInv
<1>3. CASE pc = "restore" /\ at <= 7 /\ RestoreComponentPart(at)
  <2>1. at \in 1..7
    BY <1>3 DEF TypeOK
  <2> QED
    BY <1>3, <2>1, RestoreAlone
<1>4. CASE UNCHANGED <<active, save, edited>>
  <2>1. marker' # 0 => (marker # 0 \/ pc = "prepare") /\ snapshot' = snapshot
    BY PartwayDoes
  <2> QED
    BY <1>1, <1>4, <2>1 DEF AloneInv
<1> QED
  BY <1>2, <1>3, <1>4 DEF Partway, CleanupPart, TakeSnapshot, WriteMarker, RebuildIndex, disk

\* As long as nobody else writes, no component counts as edited.
LEMMA AloneKept ==
    ASSUME TypeOK, RestoreInv, AloneInv, [Next]_vars, Alone
    PROVE  AloneInv'
<1> USE DEF disk, device, task, history, counters, GoOn, Reply, Rollback, RecoverDone, Rebuild, Verify, Clear
<1>0. active["Config"] \in Values /\ before["Config"] \in Values /\ save = "idle" /\ edited = {} /\ edits \in Nat
  BY DEF AloneInv, TypeOK
<1>1. CASE UNCHANGED vars
  BY <1>1 DEF vars, AloneInv
<1>2. CASE Fault \/ PowerCut
  <2>1. /\ Partway /\ pc \notin {"running", "halted"} /\ pc' # "prepare"
        /\ UNCHANGED <<before, candidate>>
    BY <1>2 DEF Fault, FailTo, PowerCut, Restart
  <2> QED
    BY <1>0, <2>1, PartwayAlone DEF AloneInv
<1>3. CASE ApplyStep
  <2>1. /\ pc = "apply" /\ marker \in 1..7 /\ Apply(marker)
        /\ pc' # "prepare" /\ UNCHANGED <<before, candidate>>
    BY <1>3 DEF ApplyStep
  <2> QED
    BY <1>0, <2>1, ApplyAlone DEF AloneInv
<1>4. CASE RestoreStep
  <2>1. /\ pc = "restore" /\ at \in 1..7 /\ RestoreComponent(at)
        /\ pc' # "prepare" /\ UNCHANGED <<before, candidate>>
    BY <1>4 DEF RestoreStep, RestoreNext, TypeOK
  <2> QED
    BY <1>0, <2>1, RestoreAlone DEF AloneInv
<1>5. CASE Snapshot
  BY <1>0, <1>5 DEF Snapshot, TakeSnapshot, AloneInv
<1>6. CASE Mounted
  <2>1. marker = 0
    BY <1>6 DEF Mounted, RestoreInv, PlaceInv
  <2>2. active' = active
    BY <1>0, <1>6 DEF Mounted, TypeOK
  <2> QED
    BY <1>0, <1>6, <2>1, <2>2 DEF Mounted, AloneInv
<1>7. CASE OpenUpload
  BY <1>0, <1>7 DEF OpenUpload, AloneInv
<1>8. CASE Began \/ Sweep \/ Tidy
  <2>1. marker = 0 /\ marker' = 0 /\ pc' # "prepare"
    BY <1>8 DEF Began, Sweep, Tidy, Cleanup, RestoreInv, PlaceInv
  <2> QED
    BY <1>0, <1>8, <2>1 DEF Began, Sweep, Tidy, Cleanup, AloneInv
<1>9. CASE Prepare \/ Advance \/ ClearStep \/ Unmark
  <2>1. /\ UNCHANGED <<active, snapshot, candidate, before, save, edited>>
        /\ pc' # "prepare" /\ (pc = "prepare" \/ marker # 0)
    BY <1>9 DEF Prepare, Advance, ClearStep, Unmark, WriteMarker, RestoreInv, PlaceInv
  <2> QED
    BY <1>0, <2>1 DEF AloneInv
<1>10. CASE \/ SnapshotRefused \/ RebuildStep \/ VerifyStep \/ Recover \/ RestoreIndex \/ VerifyRestored \/ BootStep
            \/ Receive \/ Abort \/ Accept \/ Reboot
  <2>1. /\ UNCHANGED <<active, snapshot, marker, candidate, before>>
        /\ pc' # "prepare" /\ save' \in {save, "idle"} /\ edited' \in {edited, {}}
    BY <1>10 DEF SnapshotRefused, RebuildStep, VerifyStep, Recover, RestoreIndex, VerifyRestored, BootStep,
       Receive, Abort, Accept, Reboot, Restart, RebuildIndex, RestoreNext, RestoreInv, PlaceInv
  <2> QED
    BY <1>0, <2>1 DEF AloneInv
<1>11. CASE Tune \/ SaveBegin \/ SaveEnd \/ Edit
  BY <1>0, <1>11 DEF Alone, Tune, SaveBegin, SaveEnd, Edit
<1> QED
  BY <1>1, <1>2, <1>3, <1>4, <1>5, <1>6, <1>7, <1>8, <1>9, <1>10, <1>11 DEF Next, Proceed, Others

\* What a step does to the marker, and what it leaves when it does.
LEMMA MarkerMoves ==
    ASSUME TypeOK, RestoreInv, AloneInv, [Next]_vars, Alone
    PROVE  \/ marker = 0 /\ marker' = 0 /\ active' = active
           \/ /\ marker = 0 /\ marker' # 0 /\ pc = "prepare"
              /\ UNCHANGED <<active, snapshot, candidate>>
           \/ marker # 0 /\ marker' # 0 /\ UNCHANGED <<snapshot, candidate>>
           \/ /\ marker # 0 /\ marker' = 0 /\ active' = active
              /\ pc = "unmark" \/ (pc = "apply" /\ marker = Clear)
<1> USE DEF disk, device, task, history, counters, GoOn, Reply, Rollback, RecoverDone, Rebuild, Verify, Clear
<1>0. /\ active["Config"] \in Values /\ save = "idle" /\ edits \in Nat
      /\ pc \in {"begin", "snapshot", "prepare", "sweep", "tidy", "mounted"} => marker = 0
      /\ pc \in {"apply", "advance", "restore", "unmark"} => marker # 0
      /\ marker \in 0..10
  BY DEF AloneInv, TypeOK, RestoreInv, PlaceInv
<1>1. CASE UNCHANGED vars
  BY <1>1 DEF vars
<1>2. CASE Fault \/ PowerCut
  <2>1. Partway /\ pc \notin {"running", "halted"} /\ UNCHANGED candidate
    BY <1>2 DEF Fault, FailTo, PowerCut, Restart
  <2> QED
    BY <1>0, <2>1, PartwayDoes DEF Steady
<1>3. CASE ApplyStep
  BY <1>0, <1>3, ApplyAlone DEF ApplyStep
<1>4. CASE RestoreStep
  <2>1. at \in 1..7
    BY <1>4 DEF RestoreStep, TypeOK
  <2> QED
    BY <1>0, <1>4, <2>1, RestoreAlone DEF RestoreStep, RestoreNext
<1>5. CASE Snapshot
  BY <1>0, <1>5 DEF Snapshot, TakeSnapshot
<1>6. CASE Mounted
  BY <1>0, <1>6 DEF Mounted, TypeOK
<1>7. CASE OpenUpload
  BY <1>7 DEF OpenUpload
<1>8. CASE Began \/ Sweep \/ Tidy
  BY <1>0, <1>8 DEF Began, Sweep, Tidy, Cleanup
<1>9. CASE Prepare \/ Advance \/ ClearStep \/ Unmark
  BY <1>0, <1>9 DEF Prepare, Advance, ClearStep, Unmark, WriteMarker
<1>10. CASE \/ SnapshotRefused \/ RebuildStep \/ VerifyStep \/ Recover \/ RestoreIndex \/ VerifyRestored \/ BootStep
            \/ Receive \/ Abort \/ Accept \/ Reboot
  BY <1>10 DEF SnapshotRefused, RebuildStep, VerifyStep, Recover, RestoreIndex, VerifyRestored, BootStep,
     Receive, Abort, Accept, Reboot, Restart, RebuildIndex, RestoreNext
<1>11. CASE Tune \/ SaveBegin \/ SaveEnd \/ Edit
  BY <1>0, <1>11 DEF Alone, Tune, SaveBegin, SaveEnd, Edit
<1> QED
  BY <1>1, <1>2, <1>3, <1>4, <1>5, <1>6, <1>7, <1>8, <1>9, <1>10, <1>11 DEF Next, Proceed, Others

\* What is asked for is a configuration, unlike no target.
LEMMA AskedTyped ==
    ASSUME TypeOK, RestoreInv, AloneInv, marker # 0 \/ pc = "prepare"
    PROVE  Asked \in [Components -> Values \cup {Missing}] /\ Asked # NoSnapshot
<1>1. \A c \in Components : (IF candidate[c] = Keep THEN snapshot[c] ELSE candidate[c]) \in Values \cup {Missing}
  BY AloneFacts
<1>2. Asked \in [Components -> Values \cup {Missing}]
  BY <1>1 DEF Asked
<1> QED
  BY <1>2, ConstantsAssumption

\* Every step begins an update, installs it, gives it up or changes nothing.
LEMMA UpdateSteps ==
    ASSUME TypeOK, RestoreInv, AloneInv, TypeOK', RestoreInv', AloneInv', [Next]_vars, Alone
    PROVE  [Update!Next]_(Update!vars)
<1> USE DEF Restorable
<1>1. CASE marker = 0 /\ marker' = 0 /\ active' = active
  BY <1>1 DEF Update!vars
<1>2. CASE /\ marker = 0 /\ marker' # 0 /\ pc = "prepare"
           /\ UNCHANGED <<active, snapshot, candidate>>
  <2>1. Asked' \in [Components -> Values \cup {Missing}]
    BY <1>2, AskedTyped DEF Asked
  <2>2. snapshot = before /\ AllOld
    BY <1>2 DEF RestoreInv, KeptInv, GenerationInv
  <2>3. active = snapshot
    BY <2>2, AloneFacts
  <2>4. Update!Begin(Asked')
    BY <1>2, <2>3 DEF Update!Begin
  <2> QED
    BY <2>1, <2>4 DEF Update!Next
<1>3. CASE marker # 0 /\ marker' # 0 /\ UNCHANGED <<snapshot, candidate>>
  BY <1>3 DEF Update!vars, Asked
<1>4. CASE marker # 0 /\ marker' = 0 /\ active' = active /\ pc = "unmark"
  <2>1. snapshot = before /\ AllOld
    BY <1>4 DEF RestoreInv, KeptInv, GenerationInv
  <2>2. active = snapshot
    BY <2>1, AloneFacts
  <2>3. Update!Abort
    BY <1>4, <2>2, AskedTyped DEF Update!Abort
  <2> QED
    BY <2>3 DEF Update!Next
<1>5. CASE marker # 0 /\ marker' = 0 /\ active' = active /\ pc = "apply" /\ marker = Clear
  <2>1. AllNew
    BY <1>5 DEF RestoreInv, GenerationInv
  <2>2. \A c \in Components : active[c] = IF candidate[c] = Keep THEN snapshot[c] ELSE candidate[c]
    BY <1>5, <2>1 DEF AllNew, Restored, AloneInv
  <2>3. active = Asked
    BY <2>2, AloneFacts DEF Asked
  <2>4. Update!Commit
    BY <1>5, <2>3, AskedTyped DEF Update!Commit
  <2> QED
    BY <2>4 DEF Update!Next
<1> QED
  BY <1>1, <1>2, <1>3, <1>4, <1>5, MarkerMoves

\* As long as nobody else changes the configuration, a restore implements
\* AtomicUpdate, whatever fails and wherever the power is cut: what the device
\* comes to changes in one step, the removal of the marker after the
\* verification, or not at all (config_restore_transaction.cpp).
THEOREM RestoresAtomically == Spec /\ [][Alone]_vars => RestoreAtomic
<1>1. Init => AloneInv
  BY InitInv, ConstantsAssumption, OrderIs DEF Init, AloneInv
<1>2. TypeOK /\ RestoreInv /\ AloneInv /\ [Next]_vars /\ [Alone]_vars => AloneInv'
  <2>1. UNCHANGED vars => Alone
    BY DEF vars, counters, Alone
  <2> QED
    BY <2>1, AloneKept
<1>3. Init => Update!Init
  <2> SUFFICES ASSUME Init PROVE Update!Init
    OBVIOUS
  <2>1. active \in [Components -> Values \cup {Missing}] /\ marker = 0
    BY ConstantsAssumption DEF Init
  <2> QED
    BY <2>1 DEF Update!Init, Restorable
<1>4. TypeOK /\ RestoreInv /\ AloneInv /\ (TypeOK /\ RestoreInv)' /\ AloneInv' /\ [Next]_vars /\ [Alone]_vars
        => [Update!Next]_(Update!vars)
  <2>1. UNCHANGED vars => Alone
    BY DEF vars, counters, Alone
  <2> QED
    BY <2>1, UpdateSteps
<1> QED
  BY <1>1, <1>2, <1>3, <1>4, RestoreInvariant, PTL DEF Spec, RestoreAtomic, Update!Spec
=============================================================================

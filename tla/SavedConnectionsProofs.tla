----------------------- MODULE SavedConnectionsProofs -----------------------
(***************************************************************************)
(* Proofs about SavedConnections: its invariant, one lemma for each part,   *)
(* and that it implements ConnectionStore.                                  *)
(***************************************************************************)
EXTENDS SavedConnections, TLAPS

\* Every step keeps the types.
LEMMA TypeStep ==
    ASSUME IInv, [Next]_vars
    PROVE  TypeOK'
<1> USE KeysAssumption, NobodyAssumption, MaxSpoiledAssumption
    DEF IInv, TypeOK, ListInv, KeyInv, vars, disk, app, Empty, Ids, Lists
<1>1. CASE Start
  BY <1>1 DEF Start, Go
<1>2. CASE KeyFound
  BY <1>2 DEF KeyFound, Go
<1>3. CASE KeyFails
  BY <1>3 DEF KeyFails
<1>4. CASE KeyMissing
  BY <1>4 DEF KeyMissing, Go
<1>5. CASE KeyAside
  BY <1>5 DEF KeyAside, Go
<1>6. ASSUME NEW k \in Keys, KeyMade(k) PROVE TypeOK'
  BY <1>6 DEF KeyMade, Go
<1>7. CASE KeyKept
  BY <1>7 DEF KeyKept, Go
<1>8. CASE Load
  BY <1>8 DEF Load, Go
<1>9. CASE SetAside
  BY <1>9 DEF SetAside, Go
<1>10. CASE SetAsideFails
  BY <1>10 DEF SetAsideFails, Go
<1>11. CASE NothingToMigrate
  BY <1>11 DEF NothingToMigrate, Go
<1>12. CASE Migrate
  BY <1>12 DEF Migrate, Go
<1>13. CASE MigrationWritten
  BY <1>13 DEF MigrationWritten, Go
<1>14. CASE MigrationKept
  BY <1>14 DEF MigrationKept, Go
<1>15. CASE MigrationFails
  BY <1>15 DEF MigrationFails
<1>16. ASSUME NEW c \in Conns, Save(c) PROVE TypeOK'
  BY <1>16 DEF Save, Go
<1>17. ASSUME NEW c \in Conns, Delete(c) PROVE TypeOK'
  BY <1>17 DEF Delete, Go
<1>18. CASE Written
  BY <1>18 DEF Written, Go
<1>19. CASE Kept
  BY <1>19 DEF Kept, Go
<1>20. CASE NotKept
  BY <1>20 DEF NotKept
<1>21. CASE End
  BY <1>21 DEF End
<1>22. CASE SpoilKey
  BY <1>22 DEF SpoilKey
<1>23. CASE SpoilFile
  <2>1. readable' \in BOOLEAN
    BY <1>23 DEF SpoilFile
  <2>2. spoiled' \in 0..MaxSpoiled
    BY <1>23 DEF SpoilFile
  <2> QED
    BY <1>23, <2>1, <2>2 DEF SpoilFile
<1>24. CASE UNCHANGED vars
  BY <1>24
<1> HIDE DEF IInv, TypeOK, ListInv, KeyInv, vars, disk, app, Empty, Ids, Lists
<1> QED
  BY <1>1, <1>2, <1>3, <1>4, <1>5, <1>6, <1>7, <1>8, <1>9, <1>10, <1>11, <1>12, <1>13, <1>14, <1>15, <1>16, <1>17, <1>18, <1>19, <1>20, <1>21, <1>22, <1>23, <1>24
  DEF Next

\* A key is made only where there is none, and a run keeps its key.
LEMMA KeyStep ==
    ASSUME IInv, [Next]_vars
    PROVE  KeyInv'
<1> USE KeysAssumption, NobodyAssumption, MaxSpoiledAssumption
    DEF IInv, TypeOK, KeyInv, vars, disk, app, Empty, Ids, Lists
<1>1. CASE Start
  BY <1>1 DEF Start, Go
<1>2. CASE KeyFound
  BY <1>2 DEF KeyFound, Go
<1>3. CASE KeyFails
  BY <1>3 DEF KeyFails
<1>4. CASE KeyMissing
  BY <1>4 DEF KeyMissing, Go
<1>5. CASE KeyAside
  BY <1>5 DEF KeyAside, Go
<1>6. ASSUME NEW k \in Keys, KeyMade(k) PROVE KeyInv'
  BY <1>6 DEF KeyMade, Go
<1>7. CASE KeyKept
  BY <1>7 DEF KeyKept, Go
<1>8. CASE Load
  BY <1>8 DEF Load, Go
<1>9. CASE SetAside
  BY <1>9 DEF SetAside, Go
<1>10. CASE SetAsideFails
  BY <1>10 DEF SetAsideFails, Go
<1>11. CASE NothingToMigrate
  BY <1>11 DEF NothingToMigrate, Go
<1>12. CASE Migrate
  BY <1>12 DEF Migrate, Go
<1>13. CASE MigrationWritten
  BY <1>13 DEF MigrationWritten, Go
<1>14. CASE MigrationKept
  BY <1>14 DEF MigrationKept, Go
<1>15. CASE MigrationFails
  BY <1>15 DEF MigrationFails
<1>16. ASSUME NEW c \in Conns, Save(c) PROVE KeyInv'
  BY <1>16 DEF Save, Go
<1>17. ASSUME NEW c \in Conns, Delete(c) PROVE KeyInv'
  BY <1>17 DEF Delete, Go
<1>18. CASE Written
  BY <1>18 DEF Written, Go
<1>19. CASE Kept
  BY <1>19 DEF Kept, Go
<1>20. CASE NotKept
  BY <1>20 DEF NotKept
<1>21. CASE End
  BY <1>21 DEF End
<1>22. CASE SpoilKey
  BY <1>22 DEF SpoilKey
<1>23. CASE SpoilFile
  BY <1>23 DEF SpoilFile
<1>24. CASE UNCHANGED vars
  BY <1>24
<1> HIDE DEF IInv, TypeOK, KeyInv, vars, disk, app, Empty, Ids, Lists
<1> QED
  BY <1>1, <1>2, <1>3, <1>4, <1>5, <1>6, <1>7, <1>8, <1>9, <1>10, <1>11, <1>12, <1>13, <1>14, <1>15, <1>16, <1>17, <1>18, <1>19, <1>20, <1>21, <1>22, <1>23, <1>24
  DEF Next

\* The list in memory follows the file, but for the one entry that is being saved.
LEMMA ListStep ==
    ASSUME IInv, [Next]_vars
    PROVE  ListInv'
<1> USE KeysAssumption, NobodyAssumption, MaxSpoiledAssumption
    DEF IInv, TypeOK, KeyInv, ListInv, NotLockedOut, Same, Follows, Opens, Legacy, vars, disk, app, Empty, Ids, Lists
<1>1. CASE Start
  BY <1>1 DEF Start, Go
<1>2. CASE KeyFound
  BY <1>2 DEF KeyFound, Go
<1>3. CASE KeyFails
  BY <1>3 DEF KeyFails
<1>4. CASE KeyMissing
  BY <1>4 DEF KeyMissing, Go
<1>5. CASE KeyAside
  BY <1>5 DEF KeyAside, Go
<1>6. ASSUME NEW k \in Keys, KeyMade(k) PROVE ListInv'
  BY <1>6 DEF KeyMade, Go
<1>7. CASE KeyKept
  BY <1>7 DEF KeyKept, Go
<1>8. CASE Load
  BY <1>8 DEF Load, Go
<1>9. CASE SetAside
  BY <1>9 DEF SetAside, Go
<1>10. CASE SetAsideFails
  BY <1>10 DEF SetAsideFails, Go
<1>11. CASE NothingToMigrate
  BY <1>11 DEF NothingToMigrate, Go
<1>12. CASE Migrate
  BY <1>12 DEF Migrate, Go
<1>13. CASE MigrationWritten
  BY <1>13 DEF MigrationWritten, Go
<1>14. CASE MigrationKept
  BY <1>14 DEF MigrationKept, Go
<1>15. CASE MigrationFails
  BY <1>15 DEF MigrationFails
<1>16. ASSUME NEW c \in Conns, Save(c) PROVE ListInv'
  BY <1>16 DEF Save, Go
<1>17. ASSUME NEW c \in Conns, Delete(c) PROVE ListInv'
  BY <1>17 DEF Delete, Go
<1>18. CASE Written
  BY <1>18 DEF Written, Go
<1>19. CASE Kept
  BY <1>19 DEF Kept, Go
<1>20. CASE NotKept
  BY <1>20 DEF NotKept
<1>21. CASE End
  BY <1>21 DEF End
<1>22. CASE SpoilKey
  BY <1>22 DEF SpoilKey
<1>23. CASE SpoilFile
  BY <1>23 DEF SpoilFile
<1>24. CASE UNCHANGED vars
  BY <1>24
<1> HIDE DEF IInv, TypeOK, KeyInv, ListInv, NotLockedOut, Same, Follows, Opens, Legacy, vars, disk, app, Empty, Ids, Lists
<1> QED
  BY <1>1, <1>2, <1>3, <1>4, <1>5, <1>6, <1>7, <1>8, <1>9, <1>10, <1>11, <1>12, <1>13, <1>14, <1>15, <1>16, <1>17, <1>18, <1>19, <1>20, <1>21, <1>22, <1>23, <1>24
  DEF Next

\* Whatever is written over the file holds what was in it.
LEMMA LostStep ==
    ASSUME IInv, [Next]_vars
    PROVE  NothingLost'
<1> USE KeysAssumption, NobodyAssumption, MaxSpoiledAssumption
    DEF IInv, TypeOK, KeyInv, ListInv, NothingLost, Same, Follows, Overwritten, vars, disk, app, Empty, Ids, Lists
<1>1. CASE Start
  BY <1>1 DEF Start, Go
<1>2. CASE KeyFound
  BY <1>2 DEF KeyFound, Go
<1>3. CASE KeyFails
  BY <1>3 DEF KeyFails
<1>4. CASE KeyMissing
  BY <1>4 DEF KeyMissing, Go
<1>5. CASE KeyAside
  BY <1>5 DEF KeyAside, Go
<1>6. ASSUME NEW k \in Keys, KeyMade(k) PROVE NothingLost'
  BY <1>6 DEF KeyMade, Go
<1>7. CASE KeyKept
  BY <1>7 DEF KeyKept, Go
<1>8. CASE Load
  BY <1>8 DEF Load, Go
<1>9. CASE SetAside
  BY <1>9 DEF SetAside, Go
<1>10. CASE SetAsideFails
  BY <1>10 DEF SetAsideFails, Go
<1>11. CASE NothingToMigrate
  BY <1>11 DEF NothingToMigrate, Go
<1>12. CASE Migrate
  BY <1>12 DEF Migrate, Go
<1>13. CASE MigrationWritten
  BY <1>13 DEF MigrationWritten, Go
<1>14. CASE MigrationKept
  BY <1>14 DEF MigrationKept, Go
<1>15. CASE MigrationFails
  BY <1>15 DEF MigrationFails
<1>16. ASSUME NEW c \in Conns, Save(c) PROVE NothingLost'
  BY <1>16 DEF Save, Go
<1>17. ASSUME NEW c \in Conns, Delete(c) PROVE NothingLost'
  BY <1>17 DEF Delete, Go
<1>18. CASE Written
  BY <1>18 DEF Written, Go
<1>19. CASE Kept
  <2>1. /\ entries' = memory /\ asides' = asides /\ call \in Conns /\ key # NoKey
        /\ \A c \in Conns : memory[c] = previous[c] \/ c = call
    BY <1>19 DEF Kept, Go
  <2>2. CASE blind
    <3>1. memory[call] # NoKey
      BY <1>19, <2>2 DEF Kept, Go
    <3>2. promised' = (promised \ Ids(entries)) \cup {call}
      BY <1>19, <2>2, <3>1 DEF Kept
    <3> QED
      BY <2>1, <3>1, <3>2
  <2>3. CASE ~blind
    <3>1. promised' = IF memory[call] = NoKey THEN promised \ {call} ELSE promised \cup {call}
      BY <1>19, <2>3 DEF Kept
    <3>2. Same(previous)
      BY <1>19, <2>3 DEF Kept, Go
    <3> QED
      BY <2>1, <3>1, <3>2
  <2> QED
    BY <2>2, <2>3
<1>20. CASE NotKept
  BY <1>20 DEF NotKept
<1>21. CASE End
  BY <1>21 DEF End
<1>22. CASE SpoilKey
  BY <1>22 DEF SpoilKey
<1>23. CASE SpoilFile
  BY <1>23 DEF SpoilFile
<1>24. CASE UNCHANGED vars
  BY <1>24
<1> HIDE DEF IInv, TypeOK, KeyInv, ListInv, NothingLost, Same, Follows, Overwritten, vars, disk, app, Empty, Ids, Lists
<1> QED
  BY <1>1, <1>2, <1>3, <1>4, <1>5, <1>6, <1>7, <1>8, <1>9, <1>10, <1>11, <1>12, <1>13, <1>14, <1>15, <1>16, <1>17, <1>18, <1>19, <1>20, <1>21, <1>22, <1>23, <1>24
  DEF Next

\* What is written opens with the key file.
LEMMA LockStep ==
    ASSUME IInv, [Next]_vars
    PROVE  NotLockedOut'
<1> USE KeysAssumption, NobodyAssumption, MaxSpoiledAssumption
    DEF IInv, TypeOK, KeyInv, ListInv, NotLockedOut, Same, Follows, Opens, vars, disk, app, Empty, Ids, Lists
<1>1. CASE Start
  BY <1>1 DEF Start, Go
<1>2. CASE KeyFound
  BY <1>2 DEF KeyFound, Go
<1>3. CASE KeyFails
  BY <1>3 DEF KeyFails
<1>4. CASE KeyMissing
  BY <1>4 DEF KeyMissing, Go
<1>5. CASE KeyAside
  BY <1>5 DEF KeyAside, Go
<1>6. ASSUME NEW k \in Keys, KeyMade(k) PROVE NotLockedOut'
  BY <1>6 DEF KeyMade, Go
<1>7. CASE KeyKept
  BY <1>7 DEF KeyKept, Go
<1>8. CASE Load
  BY <1>8 DEF Load, Go
<1>9. CASE SetAside
  BY <1>9 DEF SetAside, Go
<1>10. CASE SetAsideFails
  BY <1>10 DEF SetAsideFails, Go
<1>11. CASE NothingToMigrate
  BY <1>11 DEF NothingToMigrate, Go
<1>12. CASE Migrate
  BY <1>12 DEF Migrate, Go
<1>13. CASE MigrationWritten
  BY <1>13 DEF MigrationWritten, Go
<1>14. CASE MigrationKept
  BY <1>14 DEF MigrationKept, Go
<1>15. CASE MigrationFails
  BY <1>15 DEF MigrationFails
<1>16. ASSUME NEW c \in Conns, Save(c) PROVE NotLockedOut'
  BY <1>16 DEF Save, Go
<1>17. ASSUME NEW c \in Conns, Delete(c) PROVE NotLockedOut'
  BY <1>17 DEF Delete, Go
<1>18. CASE Written
  BY <1>18 DEF Written, Go
<1>19. CASE Kept
  BY <1>19 DEF Kept, Go
<1>20. CASE NotKept
  BY <1>20 DEF NotKept
<1>21. CASE End
  BY <1>21 DEF End
<1>22. CASE SpoilKey
  BY <1>22 DEF SpoilKey
<1>23. CASE SpoilFile
  BY <1>23 DEF SpoilFile
<1>24. CASE UNCHANGED vars
  BY <1>24
<1> HIDE DEF IInv, TypeOK, KeyInv, ListInv, NotLockedOut, Same, Follows, Opens, vars, disk, app, Empty, Ids, Lists
<1> QED
  BY <1>1, <1>2, <1>3, <1>4, <1>5, <1>6, <1>7, <1>8, <1>9, <1>10, <1>11, <1>12, <1>13, <1>14, <1>15, <1>16, <1>17, <1>18, <1>19, <1>20, <1>21, <1>22, <1>23, <1>24
  DEF Next

\* Every step is one of ConnectionStore or changes nothing there.
LEMMA StoreStep ==
    ASSUME IInv, [Next]_vars
    PROVE  [Store!Next]_<<IF readable THEN Ids(entries) ELSE {}, call, blind>>
<1> USE KeysAssumption, NobodyAssumption, MaxSpoiledAssumption
    DEF IInv, TypeOK, KeyInv, ListInv, Same, Follows, Store!Next, Store!Begin, Store!Save, Store!Delete, Store!Abandon, Store!SetAside, Store!SetAsideFails, Store!Restart, Overwritten, vars, disk, app, Empty, Ids, Lists
<1>1. CASE Start
  BY <1>1 DEF Start, Go
<1>2. CASE KeyFound
  BY <1>2 DEF KeyFound, Go
<1>3. CASE KeyFails
  BY <1>3 DEF KeyFails
<1>4. CASE KeyMissing
  BY <1>4 DEF KeyMissing, Go
<1>5. CASE KeyAside
  BY <1>5 DEF KeyAside, Go
<1>6. ASSUME NEW k \in Keys, KeyMade(k) PROVE [Store!Next]_<<IF readable THEN Ids(entries) ELSE {}, call, blind>>
  BY <1>6 DEF KeyMade, Go
<1>7. CASE KeyKept
  BY <1>7 DEF KeyKept, Go
<1>8. CASE Load
  BY <1>8 DEF Load, Go
<1>9. CASE SetAside
  BY <1>9 DEF SetAside, Go
<1>10. CASE SetAsideFails
  BY <1>10 DEF SetAsideFails, Go
<1>11. CASE NothingToMigrate
  BY <1>11 DEF NothingToMigrate, Go
<1>12. CASE Migrate
  BY <1>12 DEF Migrate, Go
<1>13. CASE MigrationWritten
  BY <1>13 DEF MigrationWritten, Go
<1>14. CASE MigrationKept
  BY <1>14 DEF MigrationKept, Go
<1>15. CASE MigrationFails
  BY <1>15 DEF MigrationFails
<1>16. ASSUME NEW c \in Conns, Save(c) PROVE [Store!Next]_<<IF readable THEN Ids(entries) ELSE {}, call, blind>>
  BY <1>16 DEF Save, Go
<1>17. ASSUME NEW c \in Conns, Delete(c) PROVE [Store!Next]_<<IF readable THEN Ids(entries) ELSE {}, call, blind>>
  BY <1>17 DEF Delete, Go
<1>18. CASE Written
  BY <1>18 DEF Written, Go
<1>19. CASE Kept
  <2>1. /\ entries' = memory /\ readable' /\ call \in Conns /\ call' = Nobody /\ call # Nobody
        /\ key # NoKey /\ blind' = FALSE
        /\ \A c \in Conns : memory[c] = previous[c] \/ c = call
    BY <1>19 DEF Kept, Go
  <2>2. CASE blind
    <3>1. memory[call] # NoKey /\ previous = Empty
      BY <1>19, <2>2 DEF Kept, Go
    <3>2. Ids(entries)' = {call}
      BY <2>1, <3>1
    <3> QED
      BY <2>1, <2>2, <3>2
  <2>3. CASE ~blind
    <3>1. Same(previous) /\ readable /\ at = "written"
      BY <1>19, <2>3 DEF Kept, Go
    <3>2. Ids(previous) = Ids(entries)
      BY <2>1, <3>1
    <3>3. CASE memory[call] = NoKey
      <4>1. Ids(entries)' = Ids(entries) \ {call}
        BY <2>1, <3>2, <3>3
      <4> QED
        BY <2>1, <2>3, <3>1, <4>1
    <3>4. CASE memory[call] # NoKey
      <4>1. Ids(entries)' = Ids(entries) \cup {call}
        BY <2>1, <3>2, <3>4
      <4> QED
        BY <2>1, <2>3, <3>1, <4>1
    <3> QED
      BY <3>3, <3>4
  <2> QED
    BY <2>2, <2>3
<1>20. CASE NotKept
  BY <1>20 DEF NotKept
<1>21. CASE End
  BY <1>21 DEF End
<1>22. CASE SpoilKey
  BY <1>22 DEF SpoilKey
<1>23. CASE SpoilFile
  BY <1>23 DEF SpoilFile
<1>24. CASE UNCHANGED vars
  BY <1>24
<1> HIDE DEF IInv, TypeOK, KeyInv, ListInv, Same, Follows, Store!Next, Store!Begin, Store!Save, Store!Delete, Store!Abandon, Store!SetAside, Store!SetAsideFails, Store!Restart, Overwritten, vars, disk, app, Empty, Ids, Lists
<1> QED
  BY <1>1, <1>2, <1>3, <1>4, <1>5, <1>6, <1>7, <1>8, <1>9, <1>10, <1>11, <1>12, <1>13, <1>14, <1>15, <1>16, <1>17, <1>18, <1>19, <1>20, <1>21, <1>22, <1>23, <1>24
  DEF Next

\* The first state satisfies the invariant.
LEMMA InitInv == Init => IInv
<1> SUFFICES ASSUME Init PROVE IInv
  OBVIOUS
<1> USE KeysAssumption, NobodyAssumption, MaxSpoiledAssumption DEF Init, Empty, Ids
<1>1. readable \in BOOLEAN /\ spoiled \in 0..MaxSpoiled
  OBVIOUS
<1>2. TypeOK
  BY <1>1 DEF TypeOK, Lists
<1>3. KeyInv /\ ListInv
  BY DEF KeyInv, ListInv
<1>4. NothingLost /\ NotLockedOut
  BY DEF NothingLost, NotLockedOut
<1> QED
  BY <1>2, <1>3, <1>4 DEF IInv

\* The inductive invariant: what the list in memory, its copy and
\* the key of the run have to do with the two files, at every step the app may be killed at.
THEOREM Invariance == Spec => []IInv
<1>1. IInv /\ [Next]_vars => IInv'
  <2> SUFFICES ASSUME IInv, [Next]_vars PROVE IInv'
    OBVIOUS
  <2>1. TypeOK' /\ KeyInv' /\ ListInv'
    BY TypeStep, KeyStep, ListStep
  <2>2. NothingLost' /\ NotLockedOut'
    BY LostStep, LockStep
  <2> QED
    BY <2>1, <2>2 DEF IInv
<1> QED
  BY <1>1, InitInv, PTL DEF Spec

\* Every variable keeps its type.
THEOREM TypeCorrect == Spec => []TypeOK
<1>1. IInv => TypeOK
  BY DEF IInv
<1> QED
  BY <1>1, Invariance, PTL

\* A crash between any two steps, a failed write, a spoiled file: a connection whose save was answered
\* with success is in the file or in one kept aside.
THEOREM ConnectionsSurvive == Spec => []NothingLost
<1>1. IInv => NothingLost
  BY DEF IInv
<1> QED
  BY <1>1, Invariance, PTL

\* load_or_create_key never replaces a key that opens the file.
THEOREM KeySurvives == Spec => []NotLockedOut
<1>1. IInv => NotLockedOut
  BY DEF IInv
<1> QED
  BY <1>1, Invariance, PTL

\* After the migration a run with the app's own key shows every entry a spoiled key didn't take.
THEOREM EntriesAreShown == Spec => []AllIsShown
<1>1. IInv => AllIsShown
  BY KeysAssumption DEF IInv, ListInv, Opens, AllIsShown, Ids
<1> QED
  BY <1>1, Invariance, PTL

\* Between commands, and after one that was refused, the list in memory is the file's.
THEOREM MemoryAgrees == Spec => []MemoryIsTheFile
<1>1. IInv => MemoryIsTheFile
  BY KeysAssumption DEF IInv, KeyInv, ListInv, Same, Follows, MemoryIsTheFile, Ids
<1> QED
  BY <1>1, Invariance, PTL

\* The steps of saving and deleting implement ConnectionStore: a command changes its own connection in
\* the file or nothing, wherever it fails and whenever the app is killed.
THEOREM Refinement == Spec => StoreSpec
<1> SUFFICES Spec => Store!Spec
  BY DEF StoreSpec
<1>1. Init => Store!Init
  BY DEF Init, Store!Init, Ids
<1>2. IInv /\ [Next]_vars => [Store!Next]_<<IF readable THEN Ids(entries) ELSE {}, call, blind>>
  BY StoreStep
<1> QED
  BY <1>1, <1>2, Invariance, PTL DEF Spec, Store!Spec

=============================================================================

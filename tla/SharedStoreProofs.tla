--------------------------- MODULE SharedStoreProofs ---------------------------
(***************************************************************************)
(* Proofs about SharedStore for any number of programs: the store opens, and   *)
(* it is an atomic file, except while overlapping saves are not yet repaired.  *)
(*                                                                         *)
(* The invariant behind both says what a save that overlaps no other may rely  *)
(* on: the temporary file has its name, is not the store, and holds what the   *)
(* program wrote.                                                           *)
(***************************************************************************)
EXTENDS SharedStore, TLAPS

TmpIsNotTheStore == path # None => path # tmp

Writing == \A p \in Program : pc[p] = "write" <=> fd[p] # None

\* Saves are marked from the moment a second one begins.
OverlapsMarked ==
    /\ mixed \subseteq Saving
    /\ mixed # {} => dirty
    /\ \A p, q \in Saving : p = q \/ {p, q} \subseteq mixed

AloneWrites ==
    \A p \in Program :
        pc[p] = "write" /\ p \notin mixed =>
            fd[p] = tmp /\ tmp # None /\ content[tmp] = Empty

AloneRenames ==
    \A p \in Program :
        pc[p] = "rename" /\ p \notin mixed => tmp # None /\ content[tmp] = data[p]

StoreInvariant ==
    /\ TypeOK /\ TmpIsNotTheStore /\ Writing /\ OverlapsMarked
    /\ AloneWrites /\ AloneRenames /\ StoreOpens
LEMMA OpenNewKeepsInvariant ==
  ASSUME StoreInvariant, NEW p \in Program, OpenNew(p)
  PROVE  StoreInvariant'
<1>1. TypeOK'
  BY StoreAssumption DEF StoreInvariant, TypeOK, Opt, OpenNew, Begin, Files
<1>2. TmpIsNotTheStore'
  BY DEF TmpIsNotTheStore, OpenNew, Files
<1>3. Writing'
  BY DEF StoreInvariant, Writing, OpenNew, Files
<1>4. OverlapsMarked'
  BY DEF StoreInvariant, OverlapsMarked, Saving, OpenNew, Files
<1>5. AloneWrites'
  BY DEF StoreInvariant, AloneWrites, OpenNew, Files
<1>6. AloneRenames'
  BY DEF StoreInvariant, AloneRenames, OpenNew, Begin, Files
<1>7. StoreOpens'
  BY DEF StoreOpens, OpenNew, Files
<1>8. QED
  BY <1>1, <1>2, <1>3, <1>4, <1>5, <1>6, <1>7 DEF StoreInvariant

LEMMA OpenExistingKeepsInvariant ==
  ASSUME StoreInvariant, NEW p \in Program, OpenExisting(p)
  PROVE  StoreInvariant'
<1>1. TypeOK'
  BY StoreAssumption DEF StoreInvariant, TypeOK, Opt, OpenExisting, Begin, Files
<1>2. TmpIsNotTheStore'
  BY DEF StoreInvariant, TmpIsNotTheStore, OpenExisting, Files
<1>3. Writing'
  BY DEF StoreInvariant, Writing, OpenExisting, Files
<1>4. OverlapsMarked'
  BY DEF StoreInvariant, OverlapsMarked, Saving, OpenExisting, Files
<1>5. AloneWrites'
  BY DEF StoreInvariant, AloneWrites, OpenExisting, Files
<1>6. AloneRenames'
  BY DEF StoreInvariant, AloneRenames, OpenExisting, Begin, Files
<1>7. StoreOpens'
  BY DEF StoreInvariant, StoreOpens, OpenExisting, Files
<1>8. QED
  BY <1>1, <1>2, <1>3, <1>4, <1>5, <1>6, <1>7 DEF StoreInvariant

LEMMA OpenTornKeepsInvariant ==
  ASSUME StoreInvariant, NEW p \in Program, OpenTorn(p)
  PROVE  StoreInvariant'
<1>1. TypeOK'
  BY DEF StoreInvariant, TypeOK, OpenTorn, Files
<1>2. TmpIsNotTheStore'
  BY DEF StoreInvariant, TmpIsNotTheStore, OpenTorn, Files
<1>3. Writing'
  BY DEF StoreInvariant, Writing, OpenTorn, Files
<1>4. OverlapsMarked'
  BY DEF StoreInvariant, OverlapsMarked, Saving, OpenTorn, Files
<1>5. AloneWrites'
  BY DEF StoreInvariant, AloneWrites, OpenTorn, Files
<1>6. AloneRenames'
  BY DEF StoreInvariant, AloneRenames, OpenTorn, Files
<1>7. StoreOpens'
  BY DEF StoreInvariant, StoreOpens, OpenTorn, Files
<1>8. QED
  BY <1>1, <1>2, <1>3, <1>4, <1>5, <1>6, <1>7 DEF StoreInvariant

LEMMA SetDefaultsKeepsInvariant ==
  ASSUME StoreInvariant, NEW p \in Program, SetDefaults(p)
  PROVE  StoreInvariant'
<1>1. TypeOK'
  BY StoreAssumption DEF StoreInvariant, TypeOK, Opt, SetDefaults, Begin, Files
<1>2. TmpIsNotTheStore'
  BY DEF StoreInvariant, TmpIsNotTheStore, SetDefaults, Files
<1>3. Writing'
  BY DEF StoreInvariant, Writing, SetDefaults, Files
<1>4. OverlapsMarked'
  BY DEF StoreInvariant, OverlapsMarked, Saving, SetDefaults, Files
<1>5. AloneWrites'
  BY DEF StoreInvariant, AloneWrites, SetDefaults, Files
<1>6. AloneRenames'
  BY DEF StoreInvariant, AloneRenames, SetDefaults, Begin, Files
<1>7. StoreOpens'
  BY DEF StoreInvariant, StoreOpens, SetDefaults, Files
<1>8. QED
  BY <1>1, <1>2, <1>3, <1>4, <1>5, <1>6, <1>7 DEF StoreInvariant

LEMMA UpdateKeepsInvariant ==
  ASSUME StoreInvariant, NEW p \in Program, Update(p)
  PROVE  StoreInvariant'
<1>1. TypeOK'
  BY StoreAssumption DEF StoreInvariant, TypeOK, Opt, Update, Begin, Files
<1>2. TmpIsNotTheStore'
  BY DEF StoreInvariant, TmpIsNotTheStore, Update, Files
<1>3. Writing'
  BY StoreAssumption DEF StoreInvariant, TypeOK, TmpIsNotTheStore, Writing, OverlapsMarked, AloneWrites, AloneRenames, StoreOpens, Saving, Opt, Update, Begin, Files
<1>4. OverlapsMarked'
  BY DEF StoreInvariant, OverlapsMarked, Saving, Update, Files
<1>5. AloneWrites'
  BY DEF StoreInvariant, AloneWrites, Update, Files
<1>6. AloneRenames'
  BY DEF StoreInvariant, AloneRenames, Update, Begin, Files
<1>7. StoreOpens'
  BY DEF StoreInvariant, StoreOpens, Update, Files
<1>8. QED
  BY <1>1, <1>2, <1>3, <1>4, <1>5, <1>6, <1>7 DEF StoreInvariant

LEMMA CreateKeepsInvariant ==
  ASSUME StoreInvariant, NEW p \in Program, Create(p)
  PROVE  StoreInvariant'
<1>1. TypeOK'
  BY DEF StoreInvariant, TypeOK, Saving, Opt, Create, Overlap
<1>2. TmpIsNotTheStore'
  BY DEF StoreInvariant, TmpIsNotTheStore, Create, Unused
<1>3. Writing'
  BY StoreAssumption DEF StoreInvariant, TypeOK, Writing, Create
<1>4. OverlapsMarked'
  <2>1. Saving' = Saving \union {p}
    BY DEF StoreInvariant, TypeOK, Saving, Create
  <2>2. CASE Saving = {}
    BY <2>1, <2>2 DEF StoreInvariant, OverlapsMarked, Create, Overlap
  <2>3. CASE Saving # {}
    BY <2>1, <2>3 DEF StoreInvariant, OverlapsMarked, Create, Overlap
  <2>4. QED
    BY <2>2, <2>3
<1>5. AloneWrites'
  BY StoreAssumption DEF StoreInvariant, TypeOK, TmpIsNotTheStore, Writing, OverlapsMarked, AloneWrites, AloneRenames, StoreOpens, Saving, Opt, Create, Overlap, Unused
<1>6. AloneRenames'
  BY DEF AloneRenames, Saving, Create, Overlap
<1>7. StoreOpens'
  BY DEF StoreInvariant, TypeOK, TmpIsNotTheStore, StoreOpens, Create, Overlap, Unused
<1>8. QED
  BY <1>1, <1>2, <1>3, <1>4, <1>5, <1>6, <1>7 DEF StoreInvariant

LEMMA CreateFailsKeepsInvariant ==
  ASSUME StoreInvariant, NEW p \in Program, CreateFails(p)
  PROVE  StoreInvariant'
<1>1. TypeOK'
  BY DEF StoreInvariant, TypeOK, Opt, CreateFails, Fails
<1>2. TmpIsNotTheStore'
  BY DEF StoreInvariant, TmpIsNotTheStore, CreateFails
<1>3. Writing'
  BY DEF StoreInvariant, TypeOK, Writing, CreateFails, Fails
<1>4. OverlapsMarked'
  BY DEF StoreInvariant, TypeOK, OverlapsMarked, Saving, CreateFails, Fails
<1>5. AloneWrites'
  BY DEF StoreInvariant, TypeOK, AloneWrites, CreateFails, Fails
<1>6. AloneRenames'
  BY DEF StoreInvariant, TypeOK, AloneRenames, CreateFails, Fails
<1>7. StoreOpens'
  BY DEF StoreInvariant, StoreOpens, CreateFails
<1>8. QED
  BY <1>1, <1>2, <1>3, <1>4, <1>5, <1>6, <1>7 DEF StoreInvariant

LEMMA WriteKeepsInvariant ==
  ASSUME StoreInvariant, NEW p \in Program, Write(p)
  PROVE  StoreInvariant'
<1>1. TypeOK'
  BY DEF StoreInvariant, TypeOK, Writing, Opt, Write, Written
<1>2. TmpIsNotTheStore'
  BY DEF StoreInvariant, TmpIsNotTheStore, Write
<1>3. Writing'
  BY DEF StoreInvariant, TypeOK, Writing, Write
<1>4. OverlapsMarked'
  BY DEF StoreInvariant, OverlapsMarked, Saving, Write
<1>5. AloneWrites'
  BY DEF StoreInvariant, TypeOK, OverlapsMarked, AloneWrites, Saving, Write
<1>6. AloneRenames'
  BY DEF StoreInvariant, TypeOK, OverlapsMarked, AloneWrites, AloneRenames, Saving, Opt, Write, Written
<1>7. StoreOpens'
  BY StoreAssumption DEF StoreInvariant, OverlapsMarked, AloneWrites, StoreOpens, Write
<1>8. QED
  BY <1>1, <1>2, <1>3, <1>4, <1>5, <1>6, <1>7 DEF StoreInvariant

LEMMA WriteFailsKeepsInvariant ==
  ASSUME StoreInvariant, NEW p \in Program, WriteFails(p)
  PROVE  StoreInvariant'
<1>1. TypeOK'
  BY DEF StoreInvariant, TypeOK, Writing, Opt, WriteFails, Fails
<1>2. TmpIsNotTheStore'
  BY DEF StoreInvariant, TmpIsNotTheStore, WriteFails
<1>3. Writing'
  BY DEF StoreInvariant, TypeOK, Writing, WriteFails, Fails
<1>4. OverlapsMarked'
  BY DEF StoreInvariant, TypeOK, OverlapsMarked, Saving, WriteFails, Fails
<1>5. AloneWrites'
  BY DEF StoreInvariant, TypeOK, OverlapsMarked, AloneWrites, Saving, WriteFails, Fails
<1>6. AloneRenames'
  BY DEF StoreInvariant, TypeOK, OverlapsMarked, AloneRenames, Saving, WriteFails, Fails
<1>7. StoreOpens'
  BY StoreAssumption DEF StoreInvariant, OverlapsMarked, AloneWrites, StoreOpens, WriteFails
<1>8. QED
  BY <1>1, <1>2, <1>3, <1>4, <1>5, <1>6, <1>7 DEF StoreInvariant

LEMMA RenameKeepsInvariant ==
  ASSUME StoreInvariant, NEW p \in Program, Rename(p)
  PROVE  StoreInvariant'
<1>1. TypeOK'
  BY DEF StoreInvariant, TypeOK, Opt, Rename, Succeeds
<1>2. TmpIsNotTheStore'
  BY DEF TmpIsNotTheStore, Rename
<1>3. Writing'
  BY DEF StoreInvariant, Writing, Rename, Succeeds
<1>4. OverlapsMarked'
  BY DEF StoreInvariant, TypeOK, OverlapsMarked, Saving, Rename, Succeeds
<1>5. AloneWrites'
  BY DEF StoreInvariant, OverlapsMarked, AloneWrites, Saving, Rename, Succeeds
<1>6. AloneRenames'
  BY DEF StoreInvariant, TypeOK, OverlapsMarked, AloneRenames, Saving, Rename, Succeeds
<1>7. StoreOpens'
  BY DEF StoreInvariant, TypeOK, OverlapsMarked, AloneRenames, StoreOpens, Opt, Rename, Succeeds
<1>8. QED
  BY <1>1, <1>2, <1>3, <1>4, <1>5, <1>6, <1>7 DEF StoreInvariant

LEMMA RenameFailsKeepsInvariant ==
  ASSUME StoreInvariant, NEW p \in Program, RenameFails(p)
  PROVE  StoreInvariant'
<1>1. TypeOK'
  BY DEF StoreInvariant, TypeOK, Opt, RenameFails, Fails
<1>2. TmpIsNotTheStore'
  BY DEF StoreInvariant, TmpIsNotTheStore, RenameFails
<1>3. Writing'
  BY DEF StoreInvariant, TypeOK, Writing, RenameFails, Fails
<1>4. OverlapsMarked'
  BY DEF StoreInvariant, TypeOK, OverlapsMarked, Saving, RenameFails, Fails
<1>5. AloneWrites'
  BY DEF StoreInvariant, TypeOK, AloneWrites, RenameFails, Fails
<1>6. AloneRenames'
  BY DEF StoreInvariant, TypeOK, AloneRenames, RenameFails, Fails
<1>7. StoreOpens'
  BY StoreAssumption DEF StoreInvariant, TypeOK, TmpIsNotTheStore, Writing, OverlapsMarked, AloneWrites, AloneRenames, StoreOpens, Saving, Opt, RenameFails, Fails
<1>8. QED
  BY <1>1, <1>2, <1>3, <1>4, <1>5, <1>6, <1>7 DEF StoreInvariant

LEMMA ExitKeepsInvariant ==
  ASSUME StoreInvariant, NEW p \in Program, Exit(p)
  PROVE  StoreInvariant'
<1>1. TypeOK'
  BY DEF StoreInvariant, TypeOK, Opt, Exit
<1>2. TmpIsNotTheStore'
  BY DEF StoreInvariant, TmpIsNotTheStore, Exit
<1>3. Writing'
  BY DEF StoreInvariant, TypeOK, Writing, Exit
<1>4. OverlapsMarked'
  BY DEF StoreInvariant, TypeOK, OverlapsMarked, Saving, Exit
<1>5. AloneWrites'
  BY DEF StoreInvariant, TypeOK, AloneWrites, Exit
<1>6. AloneRenames'
  BY DEF StoreInvariant, TypeOK, AloneRenames, Exit
<1>7. StoreOpens'
  BY DEF StoreInvariant, StoreOpens, Exit
<1>8. QED
  BY <1>1, <1>2, <1>3, <1>4, <1>5, <1>6, <1>7 DEF StoreInvariant

-----------------------------------------------------------------------------

LEMMA InitialStore == Init => StoreInvariant
<1> SUFFICES ASSUME Init PROVE StoreInvariant
  OBVIOUS
<1>1. TypeOK
  <2>1. [i \in Inode |-> Empty] \in [Inode -> Version \union {Empty, Torn}]
    OBVIOUS
  <2>2. mixed \subseteq Program /\ updates \in 0..MaxUpdates
    BY StoreAssumption DEF Init
  <2>3. QED
    BY <2>1, <2>2 DEF Init, TypeOK, Opt
<1>2. Saving = {}
  BY DEF Init, Saving
<1>3. QED
  BY <1>1, <1>2 DEF Init, StoreInvariant, TmpIsNotTheStore, Writing, OverlapsMarked,
     AloneWrites, AloneRenames, StoreOpens

LEMMA StutterKeepsInvariant == StoreInvariant /\ UNCHANGED vars => StoreInvariant'
BY DEF StoreInvariant, vars, TypeOK, TmpIsNotTheStore, Writing, OverlapsMarked,
   AloneWrites, AloneRenames, StoreOpens, Saving, Opt

LEMMA StepKeepsInvariant == StoreInvariant /\ [Next]_vars => StoreInvariant'
<1>1. ASSUME StoreInvariant, NEW p \in Program, Step(p)
      PROVE  StoreInvariant'
  BY <1>1, OpenNewKeepsInvariant, OpenExistingKeepsInvariant, OpenTornKeepsInvariant,
     SetDefaultsKeepsInvariant, UpdateKeepsInvariant, CreateKeepsInvariant,
     CreateFailsKeepsInvariant, WriteKeepsInvariant, WriteFailsKeepsInvariant,
     RenameKeepsInvariant, RenameFailsKeepsInvariant, ExitKeepsInvariant DEF Step
<1>2. QED
  BY <1>1, StutterKeepsInvariant DEF Next

\* The invariant of the saves holds in every behaviour.
THEOREM StoreInvariance == Spec => []StoreInvariant
<1>1. Init => StoreInvariant
  BY InitialStore
<1>2. StoreInvariant /\ [Next]_vars => StoreInvariant'
  BY StepKeepsInvariant
<1>3. QED
  BY <1>1, <1>2, PTL DEF Spec

\* The store's state has its types, and a program has data exactly while it runs.
THEOREM StoreTyped == Spec => []TypeOK
<1>1. StoreInvariant => TypeOK
  BY DEF StoreInvariant
<1>2. QED
  BY <1>1, StoreInvariance, PTL

\* Errors, kills and their leftovers never leave an empty or torn store, for any
\* number of programs whose saves do not overlap.
THEOREM StoreAlwaysOpens == Spec => []StoreOpens
<1>1. StoreInvariant => StoreOpens
  BY DEF StoreInvariant
<1>2. QED
  BY <1>1, StoreInvariance, PTL

-----------------------------------------------------------------------------
(* The refinement: opening loads the file, the renames are the saves that      *)
(* succeed, and the file does not change in between.                        *)

AtomicStep == \/ dirty \/ dirty' \/ Promise!Next
              \/ UNCHANGED <<data, Stored, answer>>

LEMMA OpeningIsAtomic ==
  ASSUME StoreInvariant, NEW p \in Program,
         OpenNew(p) \/ OpenExisting(p) \/ OpenTorn(p)
  PROVE  AtomicStep
<1>1. CASE dirty
  BY <1>1 DEF AtomicStep
<1>2. CASE ~ dirty /\ OpenNew(p)
  <2>1. Promise!Load(p)
    BY <1>2 DEF StoreInvariant, TypeOK, OpenNew, Begin, Files, Stored, Promise!Load
  <2>2. QED
    BY <2>1 DEF AtomicStep, Promise!Next
<1>3. CASE ~ dirty /\ OpenExisting(p)
  <2>1. content[path] \in Version /\ content[path] # Empty /\ content[path] # None
    BY <1>3, StoreAssumption DEF StoreInvariant, StoreOpens, OpenExisting
  <2>2. Promise!Load(p)
    BY <1>3, <2>1 DEF StoreInvariant, TypeOK, OpenExisting, Begin, Files, Stored, Promise!Load
  <2>3. QED
    BY <2>2 DEF AtomicStep, Promise!Next
<1>4. CASE ~ dirty /\ OpenTorn(p)
  BY <1>4, StoreAssumption DEF StoreInvariant, StoreOpens, OpenTorn
<1>5. QED
  BY <1>1, <1>2, <1>3, <1>4

LEMMA ChangeIsAtomic ==
  ASSUME StoreInvariant, NEW p \in Program, SetDefaults(p) \/ Update(p)
  PROVE  AtomicStep
<1>1. Promise!Change(p)
  <2>1. CASE SetDefaults(p)
    <3>1. data[p] \in Version
      BY <2>1 DEF StoreInvariant, TypeOK, SetDefaults, Opt
    <3>2. Defaulted[data[p]] \in Version
      BY <3>1, StoreAssumption
    <3>3. QED
      BY <2>1, <3>2 DEF StoreInvariant, TypeOK, SetDefaults, Begin, Files, Stored, Promise!Change
  <2>2. CASE Update(p)
    BY <2>2 DEF StoreInvariant, TypeOK, Update, Begin, Files, Stored, Promise!Change
  <2>3. QED
    BY <2>1, <2>2
<1>2. QED
  BY <1>1 DEF AtomicStep, Promise!Next

\* The temporary file is not the store unless another program renamed it.
LEMMA WritingIsInvisible ==
  ASSUME StoreInvariant, NEW p \in Program, Create(p) \/ Write(p)
  PROVE  AtomicStep
<1>1. CASE dirty
  BY <1>1 DEF AtomicStep
<1>2. CASE ~ dirty /\ Create(p)
  <2>1. path # None => content'[path] = content[path]
    BY <1>2 DEF StoreInvariant, TmpIsNotTheStore, Create, Unused, TypeOK
  <2>2. Stored' = Stored
    BY <1>2, <2>1 DEF Create, Stored
  <2>3. QED
    BY <1>2, <2>2 DEF AtomicStep, Create
<1>3. CASE ~ dirty /\ Write(p)
  <2>1. fd[p] = tmp
    BY <1>3 DEF StoreInvariant, OverlapsMarked, AloneWrites, Write
  <2>2. path # None => content'[path] = content[path]
    BY <1>3, <2>1 DEF StoreInvariant, TmpIsNotTheStore, Write, TypeOK
  <2>3. Stored' = Stored
    BY <1>3, <2>2 DEF Write, Stored
  <2>4. QED
    BY <1>3, <2>3 DEF AtomicStep, Write
<1>4. QED
  BY <1>1, <1>2, <1>3

LEMMA SavingIsAtomic ==
  ASSUME StoreInvariant, NEW p \in Program, Rename(p)
  PROVE  AtomicStep
<1>1. CASE dirty
  BY <1>1 DEF AtomicStep
<1>2. CASE ~ dirty
  <2>1. content[tmp] = data[p]
    BY <1>2 DEF StoreInvariant, OverlapsMarked, AloneRenames, Rename
  <2>2. data[p] # None
    BY DEF StoreInvariant, TypeOK, Rename
  <2>3. Stored' = data[p]
    BY <2>1 DEF Rename, Stored
  <2>4. Promise!Succeed(p)
    BY <2>2, <2>3 DEF Rename, Succeeds, Promise!Succeed
  <2>5. QED
    BY <2>4 DEF AtomicStep, Promise!Next
<1>3. QED
  BY <1>1, <1>2

LEMMA FailingIsAtomic ==
  ASSUME StoreInvariant, NEW p \in Program,
         CreateFails(p) \/ WriteFails(p) \/ RenameFails(p)
  PROVE  AtomicStep
<1>1. CASE dirty
  BY <1>1 DEF AtomicStep
<1>2. CASE ~ dirty
  <2>1. Fails(p)
    BY DEF CreateFails, WriteFails, RenameFails
  <2>2. Stored' = Stored
    <3>1. CASE CreateFails(p) \/ RenameFails(p)
      BY <3>1 DEF CreateFails, RenameFails, Stored
    <3>2. CASE WriteFails(p)
      <4>1. fd[p] = tmp
        BY <1>2, <3>2 DEF StoreInvariant, OverlapsMarked, AloneWrites, WriteFails
      <4>2. path # None => content'[path] = content[path]
        BY <3>2, <4>1 DEF StoreInvariant, TmpIsNotTheStore, WriteFails, TypeOK
      <4>3. QED
        BY <3>2, <4>2 DEF WriteFails, Stored
    <3>3. QED
      BY <3>1, <3>2
  <2>3. Promise!Fail(p) \/ Promise!End(p)
    BY <2>1, <2>2 DEF Fails, Promise!Fail, Promise!End
  <2>4. QED
    BY <2>3 DEF AtomicStep, Promise!Next
<1>3. QED
  BY <1>1, <1>2

LEMMA EndingIsAtomic ==
  ASSUME NEW p \in Program, Exit(p)
  PROVE  AtomicStep
<1>1. Promise!End(p)
  BY DEF Exit, Stored, Promise!End
<1>2. QED
  BY <1>1 DEF AtomicStep, Promise!Next

\* The store implements StorePromise while no overlapping saves wait for repair.
THEOREM StoreIsAtomicFile == Spec => FileIsAtomic
<1>1. Init => Promise!Init
  BY DEF Init, Stored, Promise!Init
<1>2. StoreInvariant /\ [Next]_vars
         => [dirty \/ dirty' \/ Promise!Next]_<<data, Stored, answer>>
  <2> SUFFICES ASSUME StoreInvariant, [Next]_vars
               PROVE  AtomicStep
    BY DEF AtomicStep
  <2>1. CASE UNCHANGED vars
    BY <2>1 DEF AtomicStep, vars, Stored
  <2>2. ASSUME NEW p \in Program, Step(p)
        PROVE  AtomicStep
    BY <2>2, OpeningIsAtomic, ChangeIsAtomic, WritingIsInvisible, SavingIsAtomic,
       FailingIsAtomic, EndingIsAtomic DEF Step
  <2>3. QED
    BY <2>1, <2>2 DEF Next
<1>3. QED
  BY <1>1, <1>2, StoreInvariance, PTL DEF Spec, FileIsAtomic

=============================================================================

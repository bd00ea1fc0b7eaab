------------------------- MODULE DkgStorageProofs -------------------------
(***************************************************************************)
(* The keys directory never loses the threshold material of the committee  *)
(* in office or of the one about to be, for every number of generations    *)
(* and every choice of the generations in which the node serves.           *)
(*                                                                         *)
(* A crash may fall between any two file operations, so the inductive      *)
(* invariant describes the operations that are still to do and not only    *)
(* the files. A handler either builds up (pending files, the boundary      *)
(* file, then the publication) or cleans up (saved files first, then       *)
(* removals), and each kind keeps its own promise after every prefix of    *)
(* its operations. The invariant also says what a running process must     *)
(* remember for its next handler to be right, and that a start recovers it *)
(* from the boundary file.                                                 *)
(***************************************************************************)
EXTENDS DkgStorage, SequenceTheorems, TLAPS

(* A file operation of a handler, or the publication of an outcome. *)
Ops == [name : Names \cup {Published}, gen : 0 .. MaxGeneration]

(* The player's transcript of a ceremony. *)
Player == <<"retry", "player">>

(* The generations whose material the node must have: it serves in them,    *)
(* their completion was durable, and the chain is not past them.            *)
Live == {g \in serves \cap durable : g >= final}

(* Material that waits for its boundary: the pending files, the boundary    *)
(* file and the transcript, if there was one, all of generation g.          *)
Parked(g) ==
    /\ Complete(Pending, g) /\ disk[Boundary] = g
    /\ g \in transcribed => disk[Player] = g

(* An operation that the running handler has still to do. *)
Queued(op) == \E i \in DOMAIN todo : todo[i] = op

(* Every saved file has generation g or is about to be written with it. *)
Saving(g) == \A f \in Saved : disk[f] = g \/ Queued(Put(f, g))

(* The same for the pending files and the boundary file. *)
Parking(g) == \A f \in Pending \cup {Boundary} : disk[f] = g \/ Queued(Put(f, g))

(* A handler that promotes or retires: it saves first and removes after,    *)
(* what it saves is the only live generation, and once it is done every     *)
(* live generation is saved.                                                *)
CleanUp ==
    /\ \A i \in DOMAIN todo :
         \/ todo[i].name \in Saved
         \/ todo[i].name \in Names \ Saved /\ todo[i].gen = 0
    /\ \A i, j \in DOMAIN todo : i < j /\ todo[j].name \in Saved => todo[i].name \in Saved
    /\ \A i \in DOMAIN todo :
         todo[i].name \in Saved => todo[i].gen <= final /\ Live \subseteq {todo[i].gen}
    /\ \A g \in Live : Saving(g)

(* A handler that prepares the next generation: it leaves the saved files   *)
(* alone, and its publication comes last, after the files that it           *)
(* announces.                                                               *)
BuildUp ==
    /\ mode = "running"
    /\ \A i \in DOMAIN todo : todo[i].name \notin Saved /\ todo[i].gen = handled + 1
    /\ \A g \in Live : g = handled + 1 \/ Complete(Saved, g)
    /\ \A i \in DOMAIN todo :
         todo[i].name = Published =>
           i = Len(todo) /\ (handled + 1 \in serves => Parking(handled + 1))

(* What a handler may have left to do. *)
Plan == todo = <<>> \/ CleanUp \/ BuildUp

(* Live material is saved, or parked with its transcript. *)
Holding == \A g \in Live : Complete(Saved, g) \/ Parked(g)

(* What the memory of a running process knows: how far the chain was        *)
(* handled, and that a live next generation is published to it.             *)
Serving ==
    mode = "running" =>
       /\ handled \in 1 .. final
       /\ \A g \in durable : g <= handled + 1
       /\ handled \in Live => Saving(handled)
       /\ handled + 1 \in Live => ready = handled + 1

(* A start has found the generation that waits for its boundary. *)
Starting == mode = "starting" => \A g \in Live : g > final => ready = g

(* A process that is down has no handler. *)
Stopped == mode \in {"down", "failed"} => todo = <<>>

(* Nothing is durable beyond the next generation, and no saved file is      *)
(* ahead of the chain.                                                      *)
Frontier ==
    /\ \A g \in durable : g <= final + 1
    /\ \A f \in Saved : disk[f] <= final

(* The inductive invariant of the keys directory. *)
StorageInv ==
    /\ StorageTypeOK /\ todo \in Seq(Ops)
    /\ Frontier /\ Holding /\ Plan /\ Serving /\ Starting /\ Stopped

-----------------------------------------------------------------------------
(* The files have different names, and publishing is not writing one of     *)
(* them.                                                                    *)
LEMMA NamesApart ==
    /\ Saved \subseteq Names /\ Pending \subseteq Names /\ Boundary \in Names /\ Player \in Names
    /\ Saved \cap Pending = {} /\ Boundary \notin Saved /\ Player \notin Saved
    /\ Boundary \notin Pending /\ Player \notin Pending /\ Player # Boundary
    /\ Published \notin Names
    /\ RetryFiles \subseteq Names /\ RetryFiles \cap Saved = {}
BY DEF Names, Saved, Pending, Boundary, RetryFiles, Player, Published

(* The elements of a sequence without its first. *)
LEMMA TailFacts ==
    ASSUME NEW T, NEW s \in Seq(T), s # <<>>
    PROVE  /\ Tail(s) \in Seq(T) /\ Head(s) = s[1] /\ s[1] \in T /\ 1 \in DOMAIN s
           /\ Len(Tail(s)) = Len(s) - 1
           /\ \A i \in DOMAIN Tail(s) : i + 1 \in DOMAIN s /\ Tail(s)[i] = s[i + 1]
           /\ \A i \in DOMAIN s : i # 1 => i - 1 \in DOMAIN Tail(s) /\ Tail(s)[i - 1] = s[i]
  OBVIOUS

(* The invariant says what the checked property says. *)
LEMMA MaterialFollows == StorageInv => MaterialKept
BY DEF StorageInv, Holding, Live, MaterialKept, Parked, Player

(* The files of the first generation, all saved, satisfy the invariant. *)
LEMMA StorageInitInv == StorageInit => StorageInv
<1> SUFFICES ASSUME StorageInit PROVE StorageInv
  OBVIOUS
<1>1. StorageTypeOK
  BY StorageAssumption DEF StorageInit, StorageTypeOK, Generations
<1>2. todo \in Seq(Ops) /\ Plan /\ Starting /\ Stopped
  BY DEF StorageInit, Plan, Starting, Stopped
<1>3. Complete(Saved, 1) /\ Live = {1}
  BY NamesApart, StorageAssumption DEF StorageInit, Complete, Live, Generations
<1>4. Frontier /\ Holding
  BY <1>3 DEF StorageInit, Frontier, Holding, Complete
<1>5. Serving
  BY <1>3 DEF StorageInit, Serving, Saving, Complete
<1> QED
  BY <1>1, <1>2, <1>4, <1>5 DEF StorageInv

-----------------------------------------------------------------------------
(* One file operation: the first one of the handler is done, the others     *)
(* remain.                                                                  *)
LEMMA FileStepFacts ==
    ASSUME StorageInv, FileStep
    PROVE  /\ todo # <<>> /\ todo[1] \in Ops /\ 1 \in DOMAIN todo /\ todo' \in Seq(Ops)
           /\ Len(todo') = Len(todo) - 1
           /\ \A i \in DOMAIN todo' : i + 1 \in DOMAIN todo /\ todo'[i] = todo[i + 1]
           /\ \A o : Queued(o) => o = todo[1] \/ Queued(o)'
           /\ \A o : Queued(o)' => Queued(o)
           /\ todo[1].name \in Names => disk' = [disk EXCEPT ![todo[1].name] = todo[1].gen]
           /\ todo[1].name \notin Names => disk' = disk
           /\ todo[1].name # Published => ready' = ready /\ durable' = durable /\ transcribed' = transcribed
           /\ todo[1].name = Published =>
                /\ ready' = todo[1].gen /\ durable' = durable \cup {todo[1].gen}
                /\ transcribed' = {g \in transcribed \cup {todo[1].gen} : g = todo[1].gen => disk[Player] = g}
           /\ UNCHANGED <<serves, final, mode, active, share, handled>>
<1>1. todo \in Seq(Ops) /\ todo # <<>> /\ todo' = Tail(todo)
  BY DEF StorageInv, FileStep
<1>2. /\ Tail(todo) \in Seq(Ops) /\ Head(todo) = todo[1] /\ todo[1] \in Ops /\ 1 \in DOMAIN todo
      /\ Len(Tail(todo)) = Len(todo) - 1
      /\ \A i \in DOMAIN Tail(todo) : i + 1 \in DOMAIN todo /\ Tail(todo)[i] = todo[i + 1]
      /\ \A i \in DOMAIN todo : i # 1 => i - 1 \in DOMAIN Tail(todo) /\ Tail(todo)[i - 1] = todo[i]
  BY <1>1, TailFacts
<1>3. /\ \A o : Queued(o) => o = todo[1] \/ Queued(o)'
      /\ \A o : Queued(o)' => Queued(o)
  BY <1>1, <1>2 DEF Queued
<1> QED
  BY <1>1, <1>2, <1>3 DEF FileStep, Player

(* A file operation keeps the types. *)
LEMMA FileStepType == StorageInv /\ FileStep => StorageTypeOK'
<1> SUFFICES ASSUME StorageInv, FileStep PROVE StorageTypeOK'
  OBVIOUS
<1>1. StorageTypeOK /\ todo[1] \in Ops
  BY FileStepFacts DEF StorageInv
<1>2. disk' \in [Names -> 0 .. MaxGeneration]
  BY ZenonT(20), <1>1, FileStepFacts DEF StorageTypeOK, Ops
<1>3. {active', ready', handled'} \subseteq 0 .. MaxGeneration
  BY ZenonT(20), <1>1, FileStepFacts DEF StorageTypeOK, Ops
<1>4. todo[1].name = Published => todo[1].gen \in Generations
  BY SMTT(30), Z3T(30), FileStepFacts, NamesApart, <1>1 DEF StorageInv, Plan, CleanUp, BuildUp, StorageTypeOK, Generations, Ops
<1>5. durable' \subseteq Generations /\ transcribed' \subseteq durable'
  BY ZenonT(20), <1>1, <1>4, FileStepFacts DEF StorageTypeOK
<1> QED
  BY <1>1, <1>2, <1>3, <1>5, FileStepFacts DEF StorageTypeOK

(* An operation of a promotion or a retirement keeps the invariant: while   *)
(* saved files are incomplete nothing is removed.                           *)
LEMMA FileCleanUp == StorageInv /\ FileStep /\ CleanUp => StorageInv'
<1> SUFFICES ASSUME StorageInv, FileStep, CleanUp PROVE StorageInv'
  OBVIOUS
<1> DEFINE f1 == todo[1].name
           g1 == todo[1].gen
<1>t. StorageTypeOK /\ StorageTypeOK' /\ todo' \in Seq(Ops) /\ todo \in Seq(Ops)
  BY FileStepType, FileStepFacts DEF StorageInv
<1>1. /\ f1 \in Names /\ disk' = [disk EXCEPT ![f1] = g1] /\ 1 \in DOMAIN todo
      /\ UNCHANGED <<ready, durable, transcribed, serves, final, mode, active, share, handled>>
      /\ todo # <<>> /\ f1 \notin Saved => g1 = 0
      /\ Len(todo') = Len(todo) - 1
      /\ \A i \in DOMAIN todo' : i + 1 \in DOMAIN todo /\ todo'[i] = todo[i + 1]
      /\ todo[1] = Put(f1, g1)
  BY FileStepFacts, NamesApart DEF CleanUp, Ops, Put
<1>2. Live' = Live
  BY <1>1 DEF Live
<1>3. f1 \in Saved => g1 <= final /\ Live \subseteq {g1}
  BY <1>1 DEF CleanUp
<1>4. \A g \in Live : Saving(g)'
  <2> SUFFICES ASSUME NEW g \in Live, NEW f \in Saved PROVE (disk[f] = g \/ Queued(Put(f, g)))'
    BY DEF Saving, Saved
  <2>1. disk[f] = g \/ Queued(Put(f, g))
    BY DEF CleanUp, Saving
  <2>2. f \in Names
    BY NamesApart
  <2>3. CASE f = f1
    BY <1>1, <1>3, <2>2, <2>3, <1>t DEF StorageTypeOK
  <2>4. CASE f # f1
    BY <1>1, <2>1, <2>2, <2>4, <1>t, FileStepFacts DEF StorageTypeOK, Put
  <2> QED
    BY <2>3, <2>4
<1>5. CleanUp'
  <2>1. \A i \in DOMAIN todo' :
          \/ todo'[i].name \in Saved
          \/ todo'[i].name \in Names \ Saved /\ todo'[i].gen = 0
    BY <1>1 DEF CleanUp
  <2>2. \A i, j \in DOMAIN todo' : i < j /\ todo'[j].name \in Saved => todo'[i].name \in Saved
    <3> SUFFICES ASSUME NEW i \in DOMAIN todo', NEW j \in DOMAIN todo', i < j, todo'[j].name \in Saved
                 PROVE  todo'[i].name \in Saved
      OBVIOUS
    <3>1. i \in Int /\ j \in Int
      BY <1>t
    <3>2. i + 1 < j + 1 /\ todo[j + 1].name \in Saved
      BY <1>1, <3>1
    <3> QED
      BY <1>1, <3>2 DEF CleanUp
  <2>3. \A i \in DOMAIN todo' :
          todo'[i].name \in Saved => todo'[i].gen <= final /\ Live \subseteq {todo'[i].gen}
    BY <1>1 DEF CleanUp
  <2> QED
    BY <2>1, <2>2, <2>3, <1>1, <1>2, <1>4 DEF CleanUp, Names, Saved, Pending, Boundary, RetryFiles
<1>6. Holding'
  <2> SUFFICES ASSUME NEW g \in Live PROVE (Complete(Saved, g) \/ Parked(g))'
    BY <1>2 DEF Holding
  <2>1. Complete(Saved, g) \/ Parked(g)
    BY DEF StorageInv, Holding
  <2>2. CASE f1 \in Saved
    <3>1. g1 = g /\ g \in 0 .. MaxGeneration
      BY SMTT(30), Z3T(30), <1>3, <2>2, <1>t DEF StorageTypeOK, Live, Generations
    <3>2. Complete(Saved, g) => Complete(Saved, g)'
      BY <3>1, <1>1, <1>t, NamesApart DEF Complete, StorageTypeOK, Saved
    <3>3. Parked(g) => Parked(g)'
      BY ZenonT(20), <2>2, <1>1, <1>t, NamesApart DEF Complete, StorageTypeOK, Pending, Parked, Player, Boundary
    <3> QED
      BY <2>1, <3>2, <3>3
  <2>3. CASE f1 \notin Saved
    <3>1. \A i \in DOMAIN todo : todo[i].name \notin Saved
      <4> SUFFICES ASSUME NEW i \in DOMAIN todo, todo[i].name \in Saved PROVE FALSE
        OBVIOUS
      <4>1. i # 1 => 1 < i
        BY <1>t
      <4> QED
        BY <4>1, <1>1, <2>3 DEF CleanUp
    <3>2. Complete(Saved, g)
      BY <3>1 DEF CleanUp, Saving, Queued, Put, Complete
    <3>3. Complete(Saved, g)'
      BY ZenonT(20), <3>2, <2>3, <1>1, <1>t, NamesApart DEF Complete, StorageTypeOK, Saved
    <3> QED
      BY <3>3
  <2> QED
    BY <2>2, <2>3
<1>7. Frontier'
  <2>1. \A f \in Saved : disk'[f] <= final
    BY <1>1, <1>3, <1>t, NamesApart DEF StorageInv, Frontier, StorageTypeOK
  <2> QED
    BY <2>1, <1>1 DEF StorageInv, Frontier, Saved
<1>8. Serving' /\ Starting' /\ Stopped'
  BY <1>1, <1>2, <1>4 DEF StorageInv, Serving, Starting, Stopped
<1> QED
  BY <1>t, <1>5, <1>6, <1>7, <1>8 DEF StorageInv, Plan

(* An operation of a preparation keeps the invariant: a generation becomes  *)
(* live only with the publication, and its files are there by then.         *)
LEMMA FileBuildUp == StorageInv /\ FileStep /\ BuildUp => StorageInv'
<1> SUFFICES ASSUME StorageInv, FileStep, BuildUp PROVE StorageInv'
  OBVIOUS
<1> DEFINE f1 == todo[1].name
           h == handled + 1
<1>t. StorageTypeOK /\ StorageTypeOK' /\ todo' \in Seq(Ops) /\ todo \in Seq(Ops)
  BY FileStepType, FileStepFacts DEF StorageInv
<1>1. /\ UNCHANGED <<serves, final, mode, active, handled>> /\ 1 \in DOMAIN todo
      /\ todo # <<>> /\ f1 \notin Saved /\ mode = "running"
      /\ f1 \in Names \cup {Published} /\ todo[1].gen = h /\ h \in 0 .. MaxGeneration
      /\ Len(todo') = Len(todo) - 1
      /\ \A i \in DOMAIN todo' : i + 1 \in DOMAIN todo /\ todo'[i] = todo[i + 1]
      /\ todo[1] = Put(f1, h)
  BY FileStepFacts DEF BuildUp, Ops, Put
<1>s. /\ h \in 1 .. final + 1 /\ \A g \in durable : g <= h
      /\ handled \in Live => Saving(handled)
      /\ h \in Live => ready = h
  BY SMTT(30), Z3T(30), <1>1, <1>t DEF StorageInv, Serving, StorageTypeOK, Generations
<1>2. \A f \in Saved : disk'[f] = disk[f]
  BY <1>1, <1>t, FileStepFacts, NamesApart, ZenonT(20) DEF StorageTypeOK
<1>3. \A g : Complete(Saved, g) <=> Complete(Saved, g)'
  BY <1>2 DEF Complete, Saved
<1>4. Live' \subseteq Live \cup {h}
  BY <1>1, FileStepFacts DEF Live
<1>5. f1 = Published => /\ todo' = <<>> /\ disk' = disk /\ ready' = h /\ durable' = durable \cup {h}
                        /\ h \in transcribed' => disk[Player] = h
  BY SMTT(30), Z3T(30), <1>1, <1>t, FileStepFacts, NamesApart DEF BuildUp
<1>6. f1 # Published => /\ ready' = ready /\ durable' = durable /\ transcribed' = transcribed
                        /\ disk' = [disk EXCEPT ![f1] = h] /\ f1 \in Names /\ Live' = Live
  BY <1>1, FileStepFacts DEF Live
<1>7. \A g \in Live \ {h} : Complete(Saved, g)
  BY DEF BuildUp
<1>8. h \in serves /\ f1 = Published => Complete(Pending, h) /\ disk[Boundary] = h
  <2> SUFFICES ASSUME h \in serves, f1 = Published PROVE Complete(Pending, h) /\ disk[Boundary] = h
    OBVIOUS
  <2>1. Parking(h) /\ Len(todo) = 1
    BY <1>1 DEF BuildUp
  <2>2. \A f \in Names : ~Queued(Put(f, h))
    BY <2>1, <1>1, <1>t, NamesApart DEF Queued, Put
  <2> QED
    BY <2>1, <2>2, NamesApart DEF Parking, Complete
<1>9. Holding'
  <2> SUFFICES ASSUME NEW g \in Live' PROVE (Complete(Saved, g) \/ Parked(g))'
    BY DEF Holding
  <2>1. CASE g # h
    BY <2>1, <1>3, <1>4, <1>7
  <2>2. CASE g = h /\ f1 = Published
    <3>1. h \in serves
      BY <2>2, <1>1 DEF Live
    <3>2. Parked(g)'
      BY <3>1, <1>8, <2>2, <1>5, <1>1 DEF Parked, Complete, Pending, Boundary, Player
    <3> QED
      BY <3>2
  <2>3. CASE g = h /\ f1 # Published
    <3>1. Complete(Saved, g) \/ Parked(g)
      BY <2>3, <1>6 DEF StorageInv, Holding
    <3>2. \A f \in Names : disk[f] = g => disk'[f] = g
      BY <2>3, <1>6, <1>1, <1>t DEF StorageTypeOK
    <3>3. Parked(g) => Parked(g)'
      BY <3>2, <1>6, <2>3, NamesApart DEF Parked, Complete, Pending, Boundary, Player
    <3> QED
      BY <3>1, <3>3, <1>3
  <2> QED
    BY <2>1, <2>2, <2>3
<1>10. Plan'
  <2>1. CASE f1 = Published
    BY <2>1, <1>5 DEF Plan
  <2>2. CASE f1 # Published
    <3>1. \A i \in DOMAIN todo' : todo'[i].name \notin Saved /\ todo'[i].gen = h
      BY <1>1 DEF BuildUp
    <3>2. \A g \in Live : g = h \/ Complete(Saved, g)'
      BY <1>7, <1>3
    <3>3. ASSUME NEW i \in DOMAIN todo', todo'[i].name = Published
          PROVE  i = Len(todo') /\ (h \in serves => Parking(h)')
      <4>0. i \in Int
        BY <1>t
      <4>1. i + 1 = Len(todo) /\ (h \in serves => Parking(h))
        BY <3>3, <1>1 DEF BuildUp
      <4>2. i = Len(todo')
        BY <4>0, <4>1, <1>1, <1>t
      <4>3. ASSUME Parking(h) PROVE Parking(h)'
        <5>1. ASSUME NEW f \in Pending \cup {Boundary} PROVE disk'[f] = h \/ Queued(Put(f, h))'
          <6>1. f \in Names /\ (disk[f] = h \/ Queued(Put(f, h)))
            BY <4>3, NamesApart DEF Parking
          <6>2. CASE f = f1
            BY ZenonT(20), <6>2, <6>1, <1>6, <2>2, <1>t DEF StorageTypeOK
          <6>3. CASE f # f1
            BY <6>3, <6>1, <1>6, <2>2, <1>t, <1>1, FileStepFacts DEF StorageTypeOK, Put
          <6> QED
            BY <6>2, <6>3
        <5> QED
          BY <5>1, <1>1 DEF Parking, Pending, Boundary, Queued, Put
      <4> QED
        BY <4>1, <4>2, <4>3
    <3> HIDE DEF f1
    <3>4. BuildUp'
      BY ZenonT(20), <3>1, <3>2, <3>3, <1>1, <1>6, <2>2 DEF BuildUp, Saved, Published
    <3> QED
      BY <3>4 DEF Plan
  <2> QED
    BY <2>1, <2>2
<1>11. Frontier'
  BY <1>1, <1>2, <1>s, FileStepFacts DEF StorageInv, Frontier, Saved
<1>12. Serving'
  <2>1. handled \in Live' => Saving(handled)'
    <3> SUFFICES ASSUME handled \in Live' PROVE Saving(handled)'
      OBVIOUS
    <3>1. handled # h
      BY <1>t DEF StorageTypeOK
    <3>2. Complete(Saved, handled)
      BY <3>1, <1>4, <1>7
    <3> QED
      BY <3>2, <1>1, <1>2 DEF Saving, Complete, Saved
  <2>2. h \in Live' => ready' = h
    BY <1>5, <1>6, <1>s
  <2>3. \A g \in durable' : g <= h
    BY <1>5, <1>6, <1>s
  <2> QED
    BY <2>1, <2>2, <2>3, <1>1 DEF Serving, StorageInv
<1>13. Starting' /\ Stopped'
  BY <1>1 DEF Starting, Stopped
<1> QED
  BY ZenonT(20), <1>t, <1>9, <1>10, <1>11, <1>12, <1>13 DEF StorageInv

(* Every file operation keeps the invariant. *)
LEMMA FileStepInv == StorageInv /\ FileStep => StorageInv'
BY FileCleanUp, FileBuildUp DEF StorageInv, Plan, FileStep

-----------------------------------------------------------------------------
(* A sequence of removals outside the saved files. *)
Drops(s) ==
    s \in Seq(Ops) /\ \A i \in DOMAIN s : s[i].name \in Names \ Saved /\ s[i].gen = 0

(* A sequence that writes all saved files with generation g and then only   *)
(* removes other files.                                                     *)
SavesFirst(s, g) ==
    /\ s \in Seq(Ops)
    /\ \A i \in DOMAIN s : \/ s[i].name \in Saved /\ s[i].gen = g
                           \/ s[i].name \in Names \ Saved /\ s[i].gen = 0
    /\ \A i, j \in DOMAIN s : i < j /\ s[j].name \in Saved => s[i].name \in Saved
    /\ \A f \in Saved : \E i \in DOMAIN s : s[i] = Put(f, g)

(* The elements of a concatenation. *)
LEMMA ConcatFacts ==
    ASSUME NEW T, NEW s \in Seq(T), NEW t \in Seq(T)
    PROVE  /\ s \o t \in Seq(T)
           /\ \A i \in DOMAIN s : i \in DOMAIN (s \o t) /\ (s \o t)[i] = s[i]
           /\ \A i \in DOMAIN (s \o t) :
                \/ i \in DOMAIN s
                \/ i - Len(s) \in DOMAIN t /\ (s \o t)[i] = t[i - Len(s)] /\ i > Len(s)
  OBVIOUS

(* Removals followed by removals are removals. *)
LEMMA DropsConcat == ASSUME NEW s, NEW t, Drops(s), Drops(t) PROVE Drops(s \o t)
BY ConcatFacts DEF Drops

(* Writes of the saved files may be followed by removals. *)
LEMMA SavesConcat ==
    ASSUME NEW s, NEW t, NEW g, SavesFirst(s, g), Drops(t)
    PROVE  SavesFirst(s \o t, g)
<1> DEFINE u == s \o t
<1>1. s \in Seq(Ops) /\ t \in Seq(Ops)
  BY DEF SavesFirst, Drops
<1>2. /\ u \in Seq(Ops)
      /\ \A i \in DOMAIN s : i \in DOMAIN u /\ u[i] = s[i]
      /\ \A i \in DOMAIN u :
           \/ i \in DOMAIN s
           \/ i - Len(s) \in DOMAIN t /\ u[i] = t[i - Len(s)] /\ i > Len(s)
  BY <1>1, ConcatFacts
<1>3. \A i \in DOMAIN u : i \notin DOMAIN s => u[i].name \in Names \ Saved /\ u[i].gen = 0
  BY ZenonT(20), <1>2 DEF Drops
<1> HIDE DEF u
<1>4. \A i \in DOMAIN u : \/ u[i].name \in Saved /\ u[i].gen = g
                          \/ u[i].name \in Names \ Saved /\ u[i].gen = 0
  BY <1>2, <1>3 DEF SavesFirst
<1>5. ASSUME NEW i \in DOMAIN u, NEW j \in DOMAIN u, i < j, u[j].name \in Saved
      PROVE  u[i].name \in Saved
  <2>1. j \in DOMAIN s
    BY <1>3, <1>5
  <2>2. i \in DOMAIN s
    BY <2>1, <1>1, <1>2, <1>5
  <2> QED
    BY <2>1, <2>2, <1>2, <1>5 DEF SavesFirst
<1>6. \A f \in Saved : \E i \in DOMAIN u : u[i] = Put(f, g)
  BY <1>2 DEF SavesFirst
<1> QED
  BY <1>2, <1>4, <1>5, <1>6 DEF SavesFirst, u

(* Writes, removals and publications are operations. *)
LEMMA PutTyped ==
    /\ \A f \in Names : \A g \in 0 .. MaxGeneration : Put(f, g) \in Ops
    /\ \A g \in 0 .. MaxGeneration : Publish(g) \in Ops
BY DEF Put, Ops, Publish

(* A function on an initial interval is a sequence. *)
LEMMA SeqOfFunction ==
    ASSUME NEW T, NEW n \in Nat, NEW s \in [1 .. n -> T]
    PROVE  s \in Seq(T) /\ DOMAIN s = 1 .. n
OBVIOUS

(* The three files of save_dkg_state_files are the saved, or the pending,   *)
(* files.                                                                   *)
LEMMA TripletNames ==
    \A i \in 1 .. 3 : <<"saved", Triplet[i]>> \in Saved /\ <<"pending", Triplet[i]>> \in Pending
<1> SUFFICES ASSUME NEW i \in 1 .. 3
             PROVE  <<"saved", Triplet[i]>> \in Saved /\ <<"pending", Triplet[i]>> \in Pending
  OBVIOUS
<1>1. Triplet[i] \in {"share", "polynomial", "output"}
  <2>1. i = 1 \/ i = 2 \/ i = 3
    OBVIOUS
  <2> QED
    BY <2>1 DEF Triplet
<1> QED
  BY <1>1 DEF Saved, Pending

(* save_dkg_state_files writes all saved files. *)
LEMMA SaveAllFirst == ASSUME NEW g \in 0 .. MaxGeneration PROVE SavesFirst(SaveAll("saved", g), g)
<1> DEFINE s == SaveAll("saved", g)
<1>0. \A i \in 1 .. 3 : <<"saved", Triplet[i]>> \in Saved
  BY TripletNames
<1>1. DOMAIN s = 1 .. 3 /\ s \in [1 .. 3 -> Ops]
  BY <1>0, PutTyped, NamesApart DEF SaveAll
<1>2. s \in Seq(Ops)
  BY ZenonT(20), <1>1, SeqOfFunction, 3 \in Nat
<1>3. /\ s[1] = Put(<<"saved", "share">>, g)
      /\ s[2] = Put(<<"saved", "polynomial">>, g)
      /\ s[3] = Put(<<"saved", "output">>, g)
  BY DEF SaveAll, Triplet
<1>4. \A i \in 1 .. 3 : s[i].name \in Saved /\ s[i].gen = g
  BY <1>3 DEF Put, Saved
<1>5. \A f \in Saved : \E i \in 1 .. 3 : s[i] = Put(f, g)
  BY <1>3 DEF Saved
<1> HIDE DEF s
<1>6. SavesFirst(s, g)
  BY <1>1, <1>2, <1>4, <1>5 DEF SavesFirst
<1> QED
  BY <1>6 DEF s

(* remove_pending_dkg_state, the removal of the boundary file and           *)
(* DkgRetryStore::clear touch no saved file.                                *)
LEMMA DropSteps == Drops(RemovePending) /\ Drops(<<Drop(Boundary)>>) /\ Drops(ClearRetry)
<1>z. 0 \in 0 .. MaxGeneration
  BY StorageAssumption
<1>1. Drops(<<Drop(Boundary)>>)
  BY <1>z, NamesApart DEF Drops, Drop, Put, Ops
<1>2. Drops(ClearRetry)
  BY <1>z, NamesApart DEF Drops, ClearRetry, Drop, Put, Ops, RetryFiles
<1>p. \A i \in 1 .. 3 : <<"pending", Triplet[i]>> \in Pending
  BY TripletNames
<1>3. RemovePending \in [1 .. 3 -> Ops]
  BY <1>z, <1>p, PutTyped, NamesApart DEF RemovePending, Drop
<1>4. RemovePending \in Seq(Ops) /\ DOMAIN RemovePending = 1 .. 3
  BY ZenonT(20), <1>3, SeqOfFunction, 3 \in Nat
<1>5. \A i \in 1 .. 3 : RemovePending[i].name \in Names \ Saved /\ RemovePending[i].gen = 0
  BY <1>z DEF RemovePending, Drop, Put, Names, Pending, Triplet, Saved
<1>6. Drops(RemovePending)
  BY <1>4, <1>5 DEF Drops
<1> QED
  BY <1>1, <1>2, <1>6

(* So does retire_activated_dkg_retry_state. *)
LEMMA RetireDrops == Drops(Retire)
BY DropSteps, DropsConcat DEF Retire

(* So does the recovery of a boundary that is older than the finalized one. *)
LEMMA OlderDrops == Drops(RecoverOlder)
BY DropSteps, DropsConcat DEF RecoverOlder

(* The promotion of a finalized boundary saves before it retires. *)
LEMMA PromoteSaves == ASSUME NEW g \in 0 .. MaxGeneration PROVE SavesFirst(Promote(g), g)
BY SaveAllFirst, SavesConcat, RetireDrops DEF Promote

(* The recovery of a finalized boundary at start does the same. *)
LEMMA ExactSaves ==
    ASSUME NEW g \in 0 .. MaxGeneration
    PROVE  /\ g \in serves => SavesFirst(RecoverExact(g), g)
           /\ g \notin serves => Drops(RecoverExact(g))
<1>1. CASE g \in serves
  BY <1>1, SaveAllFirst, SavesConcat, DropSteps DEF RecoverExact
<1>2. CASE g \notin serves
  <2>1. Drops(<<>>)
    BY DEF Drops
  <2> QED
    BY <2>1, <1>2, DropSteps, DropsConcat DEF RecoverExact
<1> QED
  BY <1>1, <1>2

(* The promotion in obtain_threshold_material does the same. *)
LEMMA StartSaves == final \in 0 .. MaxGeneration => SavesFirst(PromoteOnStart, final)
BY SaveAllFirst, SavesConcat, DropSteps DEF PromoteOnStart

(* Removals are in order once every live generation is saved. *)
LEMMA CleanByDrops ==
    ASSUME Drops(todo'), \A g \in Live' : Complete(Saved, g)'
    PROVE  CleanUp' /\ todo' \in Seq(Ops)
BY DEF Drops, CleanUp, Saving, Complete, Names, Saved, Pending, Boundary, RetryFiles

(* A promotion is in order when no other generation is live. *)
LEMMA CleanBySaves ==
    ASSUME NEW g, SavesFirst(todo', g), g <= final', Live' \subseteq {g}
    PROVE  CleanUp' /\ todo' \in Seq(Ops) /\ Saving(g)'
<1>1. todo' \in Seq(Ops)
  BY DEF SavesFirst
<1>2. Saving(g)'
  BY DEF SavesFirst, Saving, Queued, Put, Saved
<1>3. \A f \in Live' : Saving(f)'
  BY <1>2
<1>4. CleanUp'
  BY <1>3 DEF SavesFirst, CleanUp, Names, Saved, Pending, Boundary, RetryFiles
<1> QED
  BY <1>1, <1>2, <1>4

(* What an idle process has: every live generation is the one in office,    *)
(* saved, or the next one, published.                                       *)
LEMMA IdleFacts ==
    ASSUME StorageInv, Idle
    PROVE  /\ handled \in 1 .. final /\ \A g \in durable : g <= handled + 1
           /\ \A g \in Live : g = handled + 1 \/ (g = handled /\ g = final /\ Complete(Saved, g))
           /\ handled + 1 \in Live => ready = handled + 1
<1>1. /\ handled \in 1 .. final /\ \A g \in durable : g <= handled + 1
      /\ handled \in Live => Saving(handled)
      /\ handled + 1 \in Live => ready = handled + 1
  BY DEF StorageInv, Serving, Idle
<1>2. Saving(handled) => Complete(Saved, handled)
  BY DEF Saving, Queued, Idle, Complete
<1>3. final \in Nat /\ durable \subseteq Nat
  BY DEF StorageInv, StorageTypeOK, Generations
<1>4. ASSUME NEW g \in Live PROVE g = handled + 1 \/ (g = handled /\ g = final /\ Complete(Saved, g))
  <2>1. g \in Nat /\ g >= final /\ g <= handled + 1
    BY ZenonT(20), <1>1, <1>3 DEF Live
  <2>2. g = handled + 1 \/ (g = handled /\ g = final)
    BY <1>1, <1>3, <2>1
  <2> QED
    BY <1>1, <1>2, <2>2
<1> QED
  BY <1>1, <1>4

(* A handler that prepares the next generation and starts from an idle      *)
(* process keeps the invariant.                                             *)
LEMMA BuildUpStarts ==
    ASSUME StorageInv, Idle, UNCHANGED <<serves, final, disk, mode, memory, history>>,
           todo' \in Seq(Ops),
           \A i \in DOMAIN todo' : todo'[i].name \notin Saved /\ todo'[i].gen = handled + 1,
           \A i \in DOMAIN todo' : todo'[i].name = Published =>
              /\ i = Len(todo')
              /\ handled + 1 \in serves =>
                   \A f \in Pending \cup {Boundary} : \E k \in DOMAIN todo' : todo'[k] = Put(f, handled + 1)
    PROVE  StorageInv'
<1>1. UNCHANGED <<serves, final, disk, mode, active, share, ready, handled, durable, transcribed>>
  BY DEF memory, history
<1>2. StorageTypeOK' /\ Live' = Live /\ \A g : Complete(Saved, g)' <=> Complete(Saved, g)
  BY <1>1 DEF StorageInv, StorageTypeOK, Live, Complete, Saved, Names, Pending, Boundary, RetryFiles
<1>3. handled + 1 \in serves /\ (\E i \in DOMAIN todo' : todo'[i].name = Published) => Parking(handled + 1)'
  BY ZenonT(20), <1>1 DEF Parking, Queued, Pending, Boundary, Player, Put
<1>4. BuildUp'
  BY ZenonT(20), <1>1, <1>2, <1>3, IdleFacts DEF BuildUp, Idle, Saved, Published
<1>5. Frontier'
  BY <1>1 DEF StorageInv, Frontier, Saved
<1>6. Holding'
  BY <1>1, <1>2 DEF StorageInv, Holding, Parked, Complete, Pending, Boundary, Player, Saved
<1>7. Serving'
  <2>1. handled \in Live => Saving(handled)'
    <3> SUFFICES ASSUME handled \in Live PROVE Saving(handled)'
      OBVIOUS
    <3>1. handled \in Int
      BY DEF StorageInv, StorageTypeOK
    <3>2. Complete(Saved, handled)
      BY <3>1, IdleFacts
    <3> QED
      BY <3>2, <1>1 DEF Saving, Complete, Saved
  <2> QED
    BY ZenonT(20), <2>1, <1>1, <1>2, IdleFacts DEF Serving
<1>8. Starting' /\ Stopped'
  BY ZenonT(20), <1>1 DEF Idle, Starting, Stopped
<1> QED
  BY ZenonT(20), <1>2, <1>4, <1>5, <1>6, <1>7, <1>8 DEF StorageInv, Plan

(* Recording a part in a ceremony keeps the invariant. *)
LEMMA TakePartInv == StorageInv /\ TakePart => StorageInv'
<1> SUFFICES ASSUME StorageInv, TakePart PROVE StorageInv'
  OBVIOUS
<1> DEFINE g == handled + 1
<1>1. Idle /\ g \in 0 .. MaxGeneration /\ UNCHANGED <<serves, final, disk, mode, memory, history>>
  BY DEF TakePart, Generations
<1>2. PICK f \in RetryFiles : todo' = <<Put(f, g)>>
  BY DEF TakePart, RetryFiles
<1>3. Put(f, g) \in Ops /\ Put(f, g).name \notin Saved /\ Put(f, g).gen = g /\ Put(f, g).name # Published
  BY <1>1, PutTyped, NamesApart DEF Put
<1> HIDE DEF g
<1>4. /\ todo' \in Seq(Ops) /\ DOMAIN todo' = {1} /\ todo'[1] = Put(f, g)
  BY <1>2, <1>3
<1> QED
  BY <1>1, <1>3, <1>4, BuildUpStarts DEF g

(* The elements of a concatenation of three and two operations. *)
LEMMA ThreeTwo ==
    ASSUME NEW T, NEW s \in Seq(T), NEW t \in Seq(T), Len(s) = 3, Len(t) = 2
    PROVE  /\ s \o t \in Seq(T) /\ Len(s \o t) = 5 /\ DOMAIN (s \o t) = 1 .. 5
           /\ \A i \in 1 .. 3 : (s \o t)[i] = s[i]
           /\ (s \o t)[4] = t[1] /\ (s \o t)[5] = t[2]
<1> DEFINE u == s \o t
<1>1. /\ u \in Seq(T) /\ Len(u) = Len(s) + Len(t)
      /\ \A i \in 1 .. Len(s) + Len(t) : u[i] = IF i <= Len(s) THEN s[i] ELSE t[i - Len(s)]
  BY ZenonT(20), ConcatProperties
<1> HIDE DEF u
<1>2. Len(u) = 5 /\ DOMAIN u = 1 .. 5
  BY <1>1
<1>3. (\A i \in 1 .. 3 : u[i] = s[i]) /\ u[4] = t[1] /\ u[5] = t[2]
  BY <1>1
<1> QED
  BY <1>1, <1>2, <1>3 DEF u

(* The operations of persist_completed_dkg_before_activation: pending       *)
(* files, boundary file, publication.                                       *)
LEMMA PersistOps ==
    ASSUME NEW g \in 0 .. MaxGeneration
    PROVE  /\ Persist(g) \in Seq(Ops)
           /\ \A i \in DOMAIN Persist(g) :
                /\ Persist(g)[i].name \notin Saved /\ Persist(g)[i].gen = g
                /\ Persist(g)[i].name = Published => i = Len(Persist(g))
           /\ g \in serves => \A f \in Pending \cup {Boundary} :
                \E k \in DOMAIN Persist(g) : Persist(g)[k] = Put(f, g)
<1> DEFINE e == <<Put(Boundary, g), Publish(g)>>
           a == SaveAll("pending", g)
<1>1. e \in Seq(Ops) /\ Len(e) = 2 /\ e[1] = Put(Boundary, g) /\ e[2] = Publish(g) /\ DOMAIN e = 1 .. 2
  BY PutTyped, NamesApart
<1>2. /\ e[1].name \notin Saved /\ e[1].gen = g /\ e[1].name # Published
      /\ e[2].name \notin Saved /\ e[2].gen = g
  BY <1>1, NamesApart DEF Put, Publish
<1>3. a \in Seq(Ops) /\ DOMAIN a = 1 .. 3 /\ \A i \in 1 .. 3 : a[i] = Put(<<"pending", Triplet[i]>>, g)
  <2>1. a \in [1 .. 3 -> Ops]
    BY ZenonT(20), TripletNames, PutTyped, NamesApart DEF SaveAll
  <2> QED
    BY <2>1, SeqOfFunction, 3 \in Nat DEF SaveAll
<1>4. \A i \in 1 .. 3 : a[i].name \notin Saved /\ a[i].gen = g /\ a[i].name # Published
  BY <1>3, TripletNames, NamesApart, SMTT(30), Z3T(30) DEF Put
<1>5. \A f \in Pending : \E k \in 1 .. 3 : a[k] = Put(f, g)
  <2>1. /\ a[1] = Put(<<"pending", "share">>, g)
        /\ a[2] = Put(<<"pending", "polynomial">>, g)
        /\ a[3] = Put(<<"pending", "output">>, g)
    BY <1>3 DEF Triplet
  <2> QED
    BY <2>1 DEF Pending
<1> HIDE DEF a, e
<1>6. CASE g \in serves
  <2>1. Persist(g) = a \o e
    BY <1>6 DEF Persist, a, e
  <2>2. /\ a \o e \in Seq(Ops) /\ Len(a \o e) = 5 /\ DOMAIN (a \o e) = 1 .. 5
        /\ \A i \in 1 .. 3 : (a \o e)[i] = a[i]
        /\ (a \o e)[4] = e[1] /\ (a \o e)[5] = e[2]
    <3>1. Len(a) = 3 /\ a \in Seq(Ops)
      BY <1>3
    <3>2. Len(e) = 2 /\ e \in Seq(Ops)
      BY <1>1
    <3> QED
      BY ZenonT(20), <3>1, <3>2, ThreeTwo
  <2> DEFINE u == a \o e
  <2> HIDE DEF u
  <2>3. /\ u \in Seq(Ops) /\ Len(u) = 5 /\ DOMAIN u = 1 .. 5
        /\ \A i \in 1 .. 3 : u[i] = a[i]
        /\ u[4] = e[1] /\ u[5] = e[2] /\ Persist(g) = u
    BY ZenonT(20), <2>1, <2>2 DEF u
  <2>4. \A i \in DOMAIN u : /\ u[i].name \notin Saved /\ u[i].gen = g
                            /\ u[i].name = Published => i = Len(u)
    BY <2>3, <1>2, <1>4
  <2>5. \A f \in Pending : \E k \in DOMAIN u : u[k] = Put(f, g)
    BY <2>3, <1>5
  <2>6. \E k \in DOMAIN u : u[k] = Put(Boundary, g)
    BY <2>3, <1>1
  <2> QED
    BY <2>3, <2>4, <2>5, <2>6
<1>7. CASE g \notin serves
  <2>1. Persist(g) = <<>> \o e
    BY <1>7 DEF Persist, e
  <2>2. Persist(g) = e
    BY <2>1, <1>1
  <2> QED
    BY <2>2, <1>1, <1>2, <1>7
<1> QED
  BY <1>6, <1>7

(* Making a result durable keeps the invariant. *)
LEMMA CompleteDkgInv == StorageInv /\ CompleteDkg => StorageInv'
<1> SUFFICES ASSUME StorageInv, CompleteDkg PROVE StorageInv'
  OBVIOUS
<1> DEFINE g == handled + 1
<1>1. /\ Idle /\ UNCHANGED <<serves, final, disk, mode, memory, history>>
      /\ todo' = Persist(g) /\ g \in 0 .. MaxGeneration
  BY DEF CompleteDkg, Generations
<1> HIDE DEF g
<1>2. g = handled + 1
  BY DEF g
<1> QED
  BY <1>1, <1>2, PersistOps, BuildUpStarts

-----------------------------------------------------------------------------
(* A step that touches no file keeps the material; the chain only lets      *)
(* generations go.                                                          *)
LEMMA DiskKept ==
    ASSUME StorageInv, UNCHANGED <<serves, disk, durable, transcribed>>, final' \in Generations,
           final' = final \/ final' = final + 1
    PROVE  /\ Live' \subseteq Live /\ Holding' /\ Frontier'
           /\ final' = final => Live' = Live
           /\ \A g : (Complete(Saved, g) <=> Complete(Saved, g)') /\ (Complete(Pending, g) <=> Complete(Pending, g)')
<1>1. final \in Nat /\ final' \in Nat /\ durable \subseteq Nat /\ final <= final'
  BY DEF StorageInv, StorageTypeOK, Generations
<1>2. Live' \subseteq Live /\ (final' = final => Live' = Live)
  <2>1. \A g \in Nat : g >= final' => g >= final
    BY <1>1
  <2> QED
    BY ZenonT(20), <2>1, <1>1 DEF Live
<1>3. \A g : (Complete(Saved, g) <=> Complete(Saved, g)') /\ (Complete(Pending, g) <=> Complete(Pending, g)')
  BY DEF Complete, Saved, Pending
<1>4. Holding'
  BY <1>2, <1>3 DEF StorageInv, Holding, Parked, Boundary, Player
<1>5. \A f \in Saved : disk[f] \in Int
  BY NamesApart DEF StorageInv, StorageTypeOK
<1>6. Frontier'
  <2>0. \A g \in durable : g \in Nat /\ g <= final + 1
    BY <1>1 DEF StorageInv, Frontier
  <2>1. ASSUME NEW g \in durable PROVE g <= final' + 1
    <3>1. g \in Nat /\ g <= final + 1 /\ final \in Nat /\ final' \in Nat /\ final <= final'
      BY <2>0, <1>1
    <3>2. \A a, b, c \in Nat : a <= b + 1 /\ b <= c => a <= c + 1
      OBVIOUS
    <3> QED
      BY <3>1, <3>2, Zenon
  <2>2. \A f \in Saved : disk[f] <= final'
    BY <1>1, <1>5 DEF StorageInv, Frontier
  <2> QED
    BY <2>1, <2>2 DEF Frontier, Saved
<1> QED
  BY <1>2, <1>3, <1>4, <1>6

(* Activation in memory keeps the invariant. *)
LEMMA ActivateDkgInv == StorageInv /\ ActivateDkg => StorageInv'
<1> SUFFICES ASSUME StorageInv, ActivateDkg PROVE StorageInv'
  OBVIOUS
<1>1. /\ UNCHANGED <<serves, final, disk, todo, mode, ready, handled, durable, transcribed>>
      /\ todo = <<>> /\ active' = ready /\ share' \in BOOLEAN
  BY DEF ActivateDkg, Idle, history
<1>2. StorageTypeOK'
  BY <1>1 DEF StorageInv, StorageTypeOK, Names, Saved, Pending, Boundary, RetryFiles
<1>3. Holding' /\ Frontier' /\ Live' = Live
  BY <1>1, DiskKept DEF StorageInv, StorageTypeOK
<1>4. Saving(handled) => Saving(handled)'
  BY <1>1 DEF Saving, Queued, Put, Saved
<1>5. Plan' /\ todo' \in Seq(Ops) /\ Serving' /\ Starting' /\ Stopped'
  BY <1>1, <1>3, <1>4 DEF StorageInv, Plan, Serving, Starting, Stopped
<1> QED
  BY <1>2, <1>3, <1>5 DEF StorageInv

(* The chain may finalize a boundary at any time. *)
LEMMA FinalizeBoundaryInv == StorageInv /\ FinalizeBoundary => StorageInv'
<1> SUFFICES ASSUME StorageInv, FinalizeBoundary PROVE StorageInv'
  OBVIOUS
<1>1. /\ UNCHANGED <<serves, disk, todo, mode, active, share, ready, handled, durable, transcribed>>
      /\ final' = final + 1 /\ final' \in Generations /\ final \in Nat
  BY StorageAssumption DEF FinalizeBoundary, memory, history, StorageInv, StorageTypeOK, Generations
<1>2. StorageTypeOK'
  BY <1>1 DEF StorageInv, StorageTypeOK, Names, Saved, Pending, Boundary, RetryFiles
<1>o. todo' \in Seq(Ops)
  BY <1>1 DEF StorageInv
<1>3. Holding' /\ Frontier' /\ Live' \subseteq Live
  BY <1>1, DiskKept
<1>4. \A g : (Saving(g) => Saving(g)') /\ (Parking(g) => Parking(g)') /\ (Complete(Saved, g) <=> Complete(Saved, g)')
  BY ZenonT(20), <1>1 DEF Saving, Parking, Complete, Queued, Put, Saved, Pending, Boundary, Player
<1>5. CleanUp => CleanUp'
  <2> SUFFICES ASSUME CleanUp PROVE CleanUp'
    BY ZenonT(20)
  <2>1. \A i \in DOMAIN todo : todo[i].name \in Saved => todo[i].gen <= final' /\ Live' \subseteq {todo[i].gen}
    <3>0. \A i \in DOMAIN todo : todo[i] \in Ops
      BY DEF StorageInv
    <3>1. \A i \in DOMAIN todo : todo[i].gen \in Int
      BY <3>0 DEF Ops
    <3> QED
      BY <3>1, <1>1, <1>3 DEF CleanUp
  <2>2. \A g \in Live' : Saving(g)'
    BY <1>3, <1>4, ZenonT(20) DEF CleanUp
  <2> QED
    BY <2>1, <2>2, <1>1 DEF CleanUp, Names, Saved, Pending, Boundary, RetryFiles
<1>6. BuildUp => BuildUp'
  <2> SUFFICES ASSUME BuildUp PROVE BuildUp'
    OBVIOUS
  <2>1. \A g \in Live' : g = handled + 1 \/ Complete(Saved, g)'
    BY ZenonT(20), <1>3, <1>4 DEF BuildUp
  <2>2. Parking(handled + 1) => Parking(handled + 1)'
    BY <1>1 DEF Parking, Queued, Put, Pending, Boundary, Player
  <2> QED
    BY <2>1, <2>2, <1>1 DEF BuildUp, Saved, Published
<1>7. Plan'
  BY ZenonT(20), <1>1, <1>5, <1>6 DEF StorageInv, Plan
<1>8. Serving'
  <2>1. Saving(handled) => Saving(handled)'
    BY <1>1 DEF Saving, Queued, Put, Saved
  <2>2. handled \in 1 .. final => handled \in 1 .. final'
    BY <1>1
  <2> QED
    BY ZenonT(20), <2>1, <2>2, <1>1, <1>3 DEF StorageInv, Serving
<1>9. Starting' /\ Stopped'
  <2>1. \A g \in Live : g \in Int
    BY DEF StorageInv, StorageTypeOK, Live, Generations
  <2> QED
    BY <2>1, <1>1, <1>3 DEF StorageInv, Starting, Stopped
<1> QED
  BY ZenonT(20), <1>2, <1>o, <1>3, <1>7, <1>8, <1>9 DEF StorageInv

(* A process that ends with any number of operations undone leaves the      *)
(* invariant intact.                                                        *)
LEMMA DownInv ==
    ASSUME StorageInv, UNCHANGED <<serves, final, disk, durable, transcribed>>, todo' = <<>>, Forget,
           mode' \in {"down", "failed"}
    PROVE  StorageInv'
<1>1. StorageTypeOK' /\ todo' \in Seq(Ops)
  <2>1. todo' \in Seq(Ops)
    OBVIOUS
  <2>z. 0 \in 0 .. MaxGeneration
    BY StorageAssumption
  <2>2. {active', ready', handled'} \subseteq 0 .. MaxGeneration /\ share' \in BOOLEAN
    BY ZenonT(20), <2>z DEF Forget
  <2>3. /\ serves' \subseteq Generations /\ final' \in Generations /\ durable' \subseteq Generations
        /\ disk' \in [Names -> 0 .. MaxGeneration] /\ transcribed' \subseteq durable'
    BY DEF StorageInv, StorageTypeOK
  <2>4. mode' \in {"down", "starting", "running", "exiting", "failed"}
    OBVIOUS
  <2> QED
    BY ZenonT(20), <2>1, <2>2, <2>3, <2>4 DEF StorageTypeOK, Names, Saved, Pending, Boundary, RetryFiles
<1>2. Holding' /\ Frontier'
  BY DiskKept DEF StorageInv, StorageTypeOK
<1>3. Plan' /\ Serving' /\ Starting' /\ Stopped'
  BY DEF Plan, Serving, Starting, Stopped
<1> QED
  BY <1>1, <1>2, <1>3 DEF StorageInv

(* A crash between two file operations keeps the invariant. *)
LEMMA StorageCrashInv == StorageInv /\ StorageCrash => StorageInv'
BY DownInv DEF StorageCrash, history

(* The exit of a process keeps the invariant. *)
LEMMA ExitProcessInv == StorageInv /\ ExitProcess => StorageInv'
BY DownInv DEF ExitProcess, history

(* take_committed_boundary_artifact keeps the invariant, for a holder, a    *)
(* leaver and a node that does not run with the output.                     *)
LEMMA HandleCommittedInv == StorageInv /\ HandleCommitted => StorageInv'
<1> SUFFICES ASSUME StorageInv, HandleCommitted PROVE StorageInv'
  OBVIOUS
<1>0. PICK g : g = handled + 1
  OBVIOUS
<1>1. /\ Idle /\ g <= final
      /\ handled' = g /\ UNCHANGED <<serves, final, disk, active, share, ready, durable, transcribed>>
      /\ mode' \in {"running", "exiting"} /\ (mode' = "running" => active = g)
      /\ active = g /\ g \in serves => todo' = Promote(g)
      /\ g \notin serves => todo' = Retire
      /\ active # g /\ g \in serves => todo' = <<>>
  BY <1>0 DEF HandleCommitted, Idle, history
<1>2. final \in 1 .. MaxGeneration /\ handled \in Int /\ g \in Int
  BY <1>0 DEF StorageInv, StorageTypeOK, Generations
<1>3. /\ handled \in 1 .. final /\ \A f \in durable : f <= g
      /\ \A f \in Live : f = g \/ (f = handled /\ f = final)
      /\ g \in Live => ready = g
  BY <1>0, <1>1, IdleFacts
<1>4. g \in 0 .. MaxGeneration /\ Live \subseteq {g} /\ g \in 1 .. final /\ handled < g
  <2>1. handled < g /\ handled # final /\ g \in 1 .. final
    BY <1>0, <1>1, <1>2, <1>3
  <2>2. Live \subseteq {g}
    BY <2>1, <1>3
  <2>3. g \in 0 .. MaxGeneration
    BY <2>1, <1>2, StorageAssumption
  <2> QED
    BY <2>1, <2>2, <2>3
<1>5. Holding' /\ Frontier' /\ Live' = Live
  BY ZenonT(20), <1>1, <1>2, DiskKept DEF Generations
<1>6. StorageTypeOK'
  BY <1>1, <1>4 DEF StorageInv, StorageTypeOK, Names, Saved, Pending, Boundary, RetryFiles
<1>7. /\ CleanUp' \/ todo' = <<>>
      /\ todo' \in Seq(Ops)
      /\ active = g /\ g \in Live => Saving(g)'
  <2>1. CASE active = g /\ g \in serves
    <3>1. SavesFirst(todo', g)
      BY <2>1, <1>1, <1>4, PromoteSaves
    <3> QED
      BY ZenonT(20), <3>1, <1>1, <1>4, <1>5, CleanBySaves
  <2>2. CASE g \notin serves
    <3>1. Live = {}
      BY <2>2, <1>4 DEF Live
    <3> QED
      BY <3>1, <2>2, <1>1, <1>5, RetireDrops, CleanByDrops
  <2>3. CASE active # g /\ g \in serves
    BY <2>3, <1>1
  <2> QED
    BY <2>1, <2>2, <2>3
<1>8. Serving'
  <2>1. active = g /\ g \in Live' => Saving(handled)'
    <3> SUFFICES ASSUME active = g, g \in Live PROVE Saving(handled)'
      BY <1>5
    <3>1. Saving(g)'
      BY <1>7
    <3> QED
      BY <3>1, <1>1 DEF Saving, Queued, Put, Saved
  <2>2. g + 1 \notin Live'
    BY <1>2, <1>4, <1>5
  <2>3. \A f \in durable : f <= g + 1
    <3>1. \A f \in durable : f \in Int
      BY DEF StorageInv, StorageTypeOK, Generations
    <3> QED
      BY <3>1, <1>2, <1>3
  <2> QED
    BY ZenonT(20), <2>1, <2>2, <2>3, <1>1, <1>4 DEF Serving
<1>9. Starting' /\ Stopped'
  BY <1>1 DEF Starting, Stopped
<1> QED
  BY <1>5, <1>6, <1>7, <1>8, <1>9 DEF StorageInv, Plan

(* Live material that is not saved is parked; the next generation always    *)
(* is.                                                                      *)
LEMMA NextParked ==
    ASSUME StorageInv, NEW g \in Live
    PROVE  /\ g \in {final, final + 1} /\ g \in Generations
           /\ g > final => Parked(g) /\ ~Complete(Saved, g)
           /\ ~Complete(Saved, g) => Parked(g)
<1>1. g \in Generations /\ final \in Generations /\ g >= final /\ g <= final + 1
  BY DEF StorageInv, StorageTypeOK, Live, Frontier
<1>2. g \in {final, final + 1}
  BY <1>1 DEF Generations
<1>3. Complete(Saved, g) \/ Parked(g)
  BY DEF StorageInv, Holding
<1>4. g > final => ~Complete(Saved, g)
  <2>1. disk[<<"saved", "share">>] <= final /\ <<"saved", "share">> \in Saved
    BY DEF StorageInv, Frontier, Saved
  <2> QED
    BY <2>1, <1>1 DEF Complete, Generations
<1> QED
  BY <1>1, <1>2, <1>3, <1>4

(* A start that knows the parked generation keeps the invariant. *)
LEMMA StartsInv ==
    ASSUME StorageInv, UNCHANGED <<serves, final, disk, durable, transcribed, active, share, handled>>,
           ready' \in 0 .. MaxGeneration, mode' = "starting",
           todo' \in Seq(Ops), todo' = <<>> \/ CleanUp',
           \A g \in Live : g > final => ready' = g
    PROVE  StorageInv'
<1>1. StorageTypeOK'
  BY DEF StorageInv, StorageTypeOK, Names, Saved, Pending, Boundary, RetryFiles
<1>2. Holding' /\ Frontier' /\ Live' = Live
  BY DiskKept DEF StorageInv, StorageTypeOK
<1>3. Plan' /\ Serving' /\ Starting' /\ Stopped'
  BY ZenonT(20), <1>2 DEF Plan, Serving, Starting, Stopped
<1> QED
  BY ZenonT(20), <1>1, <1>2, <1>3 DEF StorageInv

(* recover_pending_dkg_boundary_snapshot keeps the invariant, whatever the  *)
(* relation of the boundary file to the chain.                              *)
LEMMA RecoverPendingInv == StorageInv /\ RecoverPending => StorageInv'
<1> SUFFICES ASSUME StorageInv, RecoverPending PROVE StorageInv'
  OBVIOUS
<1> DEFINE b == disk[Boundary]
<1>1. /\ UNCHANGED <<serves, final, durable, transcribed>> /\ mode \in {"down", "failed"} /\ todo = <<>>
      /\ final \in 1 .. MaxGeneration /\ b \in 0 .. MaxGeneration /\ ready \in 0 .. MaxGeneration
  BY NamesApart DEF RecoverPending, StorageInv, Stopped, StorageTypeOK, Generations, history
<1>2. \A g \in Live : g \in Int /\ g \in {final, final + 1} /\ (g > final => b = g)
                      /\ (~Complete(Saved, g) => b = g)
  BY NextParked DEF Parked, Generations
<1>3. CASE Refuse
  BY <1>3, <1>1, DownInv DEF Refuse
<1>4. CASE /\ b = 0 /\ mode' = "starting" /\ UNCHANGED <<disk, todo, memory>>
  <2>1. \A g \in Live : g > final => FALSE
    BY <1>1, <1>2, <1>4
  <2>2. UNCHANGED <<active, share, ready, handled>> /\ todo' = <<>> /\ todo' \in Seq(Ops)
    BY <1>1, <1>4 DEF memory
  <2> QED
    BY ZenonT(20), <2>1, <2>2, <1>1, <1>4, StartsInv
<1>5. CASE /\ b \in 1 .. final - 1 /\ mode' = "starting" /\ todo' = RecoverOlder /\ UNCHANGED <<disk, memory>>
  <2>1. UNCHANGED <<active, share, ready, handled>>
    BY <1>5 DEF memory
  <2>2. \A g \in Live : Complete(Saved, g) /\ ~(g > final)
    BY <1>1, <1>2, <1>5
  <2>3. Live' = Live /\ \A g : Complete(Saved, g) => Complete(Saved, g)'
    BY <1>1, <1>5, DiskKept DEF Generations
  <2>4. CleanUp' /\ todo' \in Seq(Ops)
    BY ZenonT(20), <2>2, <2>3, <1>5, OlderDrops, CleanByDrops
  <2> QED
    BY ZenonT(20), <2>1, <2>2, <2>4, <1>1, <1>5, StartsInv
<1>6. CASE /\ b = final /\ (b \in serves => Complete(Pending, b))
           /\ mode' = "starting" /\ todo' = RecoverExact(b) /\ UNCHANGED <<disk, memory>>
  <2>1. UNCHANGED <<active, share, ready, handled>>
    BY <1>6 DEF memory
  <2>2. \A g \in Live : g = final
    BY <1>1, <1>2, <1>6
  <2>3. Live' = Live
    BY <1>1, <1>6, DiskKept DEF Generations
  <2>4. CleanUp' /\ todo' \in Seq(Ops)
    <3>1. CASE b \in serves
      <4>1. SavesFirst(todo', b) /\ b <= final' /\ Live' \subseteq {b}
        BY <3>1, <1>1, <1>6, <2>2, <2>3, ExactSaves
      <4> QED
        BY <4>1, CleanBySaves
    <3>2. CASE b \notin serves
      <4>1. Drops(todo') /\ Live' = {}
        BY ZenonT(20), <3>2, <1>1, <1>6, <2>2, <2>3, ExactSaves DEF Live
      <4> QED
        BY <4>1, CleanByDrops
    <3> QED
      BY <3>1, <3>2
  <2>5. \A g \in Live : ~(g > final)
    BY <2>2, <1>1
  <2> QED
    BY ZenonT(20), <2>1, <2>4, <2>5, <1>1, <1>6, StartsInv
<1>7. CASE /\ b > final /\ mode' = "starting" /\ ready' = b
           /\ UNCHANGED <<disk, todo, active, share, handled>>
  <2>1. \A g \in Live : g > final => ready' = g
    BY <1>2, <1>7
  <2>2. todo' = <<>> /\ todo' \in Seq(Ops)
    BY <1>1, <1>7
  <2> QED
    BY ZenonT(20), <2>1, <2>2, <1>1, <1>7, StartsInv
<1> QED
  BY ZenonT(20), <1>3, <1>4, <1>5, <1>6, <1>7 DEF RecoverPending

(* obtain_threshold_material keeps the invariant. *)
LEMMA ObtainMaterialInv == StorageInv /\ ObtainMaterial => StorageInv'
<1> SUFFICES ASSUME StorageInv, ObtainMaterial PROVE StorageInv'
  OBVIOUS
<1>1. UNCHANGED <<serves, final, durable, transcribed>> /\ mode = "starting" /\ final \in 1 .. MaxGeneration
  BY DEF ObtainMaterial, StorageInv, StorageTypeOK, Generations, history
<1>2. CASE Refuse
  BY <1>2, <1>1, DownInv DEF Refuse
<1>3. CASE /\ mode' = "running" /\ active' = final /\ share' \in BOOLEAN /\ handled' = final
           /\ \/ Complete(Saved, final) /\ todo' = <<>>
              \/ ~Complete(Saved, final) /\ Complete(Pending, final) /\ todo' = PromoteOnStart
              \/ ~Complete(Saved, final) /\ ~Complete(Pending, final) /\ todo' = <<>>
           /\ UNCHANGED <<disk, ready>>
  <2>1. StorageTypeOK'
    BY <1>1, <1>3 DEF StorageInv, StorageTypeOK, Names, Saved, Pending, Boundary, RetryFiles
  <2>2. Holding' /\ Frontier' /\ Live' = Live
    BY <1>1, <1>3, DiskKept DEF Generations
  <2>3. (CleanUp' \/ todo' = <<>>) /\ todo' \in Seq(Ops) /\ (final \in Live => Saving(final)')
    <3>1. CASE todo' = <<>> /\ (Complete(Saved, final) \/ ~Complete(Pending, final))
      <4>1. todo' \in Seq(Ops)
        BY <3>1
      <4>2. ASSUME final \in Live PROVE Saving(final)'
        <5>1. Complete(Saved, final)
          BY ZenonT(20), <3>1, <4>2, NextParked DEF Parked
        <5>2. \A f \in Saved : disk'[f] = final'
          BY <5>1, <1>1, <1>3 DEF Complete
        <5> QED
          BY <5>2 DEF Saving, Saved
      <4> QED
        BY <3>1, <4>1, <4>2
    <3>2. CASE ~Complete(Saved, final) /\ Complete(Pending, final) /\ todo' = PromoteOnStart
      <4>1. todo' = PromoteOnStart /\ Complete(Pending, final)
        BY <3>2
      <4>2. Live \subseteq {final}
        <5> SUFFICES ASSUME NEW g \in Live, g # final PROVE FALSE
          OBVIOUS
        <5>1. Parked(g)
          BY <1>1, NextParked
        <5>2. disk[<<"pending", "share">>] = g /\ disk[<<"pending", "share">>] = final
          BY <5>1, <4>1 DEF Parked, Complete, Pending
        <5> QED
          BY <5>2
      <4>3. SavesFirst(todo', final)
        BY <4>1, <1>1, StartSaves
      <4>h. PICK h : h = final
        OBVIOUS
      <4>4. SavesFirst(todo', h) /\ h <= final' /\ Live' \subseteq {h} /\ h = final
        BY <4>h, <4>2, <4>3, <2>2, <1>1
      <4>5. CleanUp' /\ todo' \in Seq(Ops) /\ Saving(h)'
        BY ZenonT(20), <4>4, CleanBySaves
      <4>6. Saving(final)'
        BY ZenonT(20), <4>5, <4>4, <1>1 DEF Saving, Queued, Put, Saved
      <4> QED
        BY <4>5, <4>6
    <3> QED
      BY <1>3, <3>1, <3>2
  <2>4. Serving'
    <3>1. \A g \in durable : g <= final + 1
      BY DEF StorageInv, Frontier
    <3>2. final + 1 \in Live => ready = final + 1
      BY <1>1 DEF StorageInv, Starting
    <3>3. final \in Live => Saving(handled)'
      BY <2>3, <1>3, <1>1 DEF Saving, Queued, Put
    <3> QED
      BY <3>1, <3>2, <3>3, <2>2, <1>1, <1>3 DEF Serving
  <2>5. Starting' /\ Stopped'
    BY <1>3, ZenonT(20) DEF Starting, Stopped
  <2> QED
    BY ZenonT(20), <2>1, <2>2, <2>3, <2>4, <2>5 DEF StorageInv, Plan
<1> QED
  BY ZenonT(20), <1>1, <1>2, <1>3 DEF ObtainMaterial

(* So does a step of the environment that leaves the node alone. *)
LEMMA StorageStutterInv == StorageInv /\ UNCHANGED storageVars => StorageInv'
<1> SUFFICES ASSUME StorageInv, UNCHANGED storageVars PROVE StorageInv'
  OBVIOUS
<1>1. UNCHANGED <<serves, final, disk, todo, mode, active, share, ready, handled, durable, transcribed>>
  BY DEF storageVars, memory, history
<1>2. StorageTypeOK' /\ todo' \in Seq(Ops)
  BY <1>1 DEF StorageInv, StorageTypeOK, Names, Saved, Pending, Boundary, RetryFiles, Ops, Published
<1>3. Live' = Live /\ Frontier'
  BY ZenonT(20), <1>1 DEF StorageInv, Frontier, Live, Saved
<1>4. Holding'
  BY ZenonT(20), <1>1, <1>3 DEF StorageInv, Holding, Parked, Complete, Saved, Pending, Boundary, Player
<1>5. CleanUp' <=> CleanUp
  BY <1>1, <1>3, SMTT(30), Z3T(30) DEF CleanUp, Queued, Saving, Saved, Names, Put
<1>6. BuildUp' <=> BuildUp
  BY <1>1, <1>3, ZenonT(20) DEF BuildUp, Queued, Parking, Complete, Saved, Pending, Boundary, Player,
       Put, Published
<1>7. Plan'
  BY <1>1, <1>5, <1>6 DEF StorageInv, Plan
<1>8. Serving'
  BY <1>1, <1>3, ZenonT(20) DEF StorageInv, Serving, Saving, Queued, Put, Saved
<1>9. Starting' /\ Stopped'
  BY <1>1, <1>3 DEF StorageInv, Starting, Stopped
<1> QED
  BY <1>2, <1>3, <1>4, <1>7, <1>8, <1>9 DEF StorageInv

(* Every step keeps the invariant. *)
LEMMA StorageStepInv == StorageInv /\ [StorageNext]_storageVars => StorageInv'
BY FileStepInv, TakePartInv, CompleteDkgInv, ActivateDkgInv, HandleCommittedInv, ExitProcessInv,
   FinalizeBoundaryInv, StorageCrashInv, RecoverPendingInv, ObtainMaterialInv, StorageStutterInv
   DEF StorageNext

(* Handlers, crashes and starts in any order keep the files and the         *)
(* operations that are left in the state the invariant describes.           *)
THEOREM StorageInvHolds == StorageSpec => []StorageInv
BY StorageInitInv, StorageStepInv, PTL DEF StorageSpec

(* Threshold material that persist_completed_dkg_before_activation made     *)
(* durable is complete on disk, saved or pending, until the chain has moved *)
(* past its generation, and the transcript of its ceremony stays until it   *)
(* is saved (engine/src/stack.rs): no order of crashes, promotions,         *)
(* retirements and restarts loses a share.                                  *)
THEOREM MaterialKeptHolds == StorageSpec => []MaterialKept
BY StorageInvHolds, MaterialFollows, PTL
=============================================================================

------------------------ MODULE HybridStorage_proofs ------------------------
(***************************************************************************)
(* What the backup file of storage/hybrid.go is worth: for any callers,    *)
(* names, requests, files and stops of the process.  The last backup of a  *)
(* clean exit runs alone; with one request at a time every backup does.    *)
(***************************************************************************)
EXTENDS HybridStorage, MemStorage_proofs

(* The file has one line for each name of S, with its current value, and   *)
(* nothing else.                                                           *)
Mirrors(S) ==
    /\ file \in Seq(Line)
    /\ \A i \in DOMAIN file :
        /\ file[i].id \in S
        /\ Bound(file[i].id) /\ file[i].value = heap[values[file[i].id]]
    /\ \A n \in S : \E i \in DOMAIN file : file[i].id = n
    /\ \A i, j \in DOMAIN file : file[i].id = file[j].id => i = j

(* The names whose lines the backup of a has written. *)
Written(a) == IF bpc[a] = "writing" THEN visited[a] \ {line[a].id} ELSE visited[a]

(* What a backup has made of the file that it has to itself, over a map     *)
(* that nobody changes.                                                    *)
SoleBackup(a) ==
    /\ bpc[a] = "truncated" => file = <<>>
    /\ bpc[a] \in {"ranging", "writing"} =>
        /\ Mirrors(Written(a)) /\ offset = Len(file)
        /\ due[a] = BoundNames /\ visited[a] \subseteq BoundNames
    /\ bpc[a] = "writing" =>
        /\ line[a].id \in visited[a]
        /\ line[a].value = heap[values[line[a].id]]
    /\ bpc[a] = "over" =>
        \E S \in SUBSET BoundNames : Mirrors(S) /\ (AllEncodable => S = BoundNames)

(* A caller backs up what its last item stored; main backs up when no       *)
(* request is left.                                                        *)
WhoBacksUp ==
    /\ \A c \in Callers : bpc[c] # "none" => pc[c] = "stored" /\ Len(todo[c]) = 1
    /\ bpc[Main] # "none" => phase \notin {"serving", "draining"}
    /\ up /\ phase \notin {"serving", "draining"} =>
        bpc[Main] # "none" /\ \A c \in Callers : pc[c] = "idle"
    /\ phase = "down" => bpc[Main] = "over"

FinalBackup == up /\ phase \in {"closing", "down"} => SoleBackup(Main)

HybridInv == MemInv /\ HTypeOK /\ WhoBacksUp /\ FinalBackup

(* With one request at a time. *)
OneCaller == \A c, d \in Callers : c = d

LoneInv == file \in Seq(Line) /\ \A a \in Actors : SoleBackup(a)

(* Every name has a type, and requests and files respect it. *)
Fitting(kind) ==
    /\ kind \in [Names -> {"gauge", "counter"}]
    /\ \A b \in Batches : \A i \in DOMAIN b : b[i].value.type = kind[b[i].id]
    /\ \A f \in Snapshots : \A i \in DOMAIN f : f[i].value.type = kind[f[i].id]

TypesFit(kind) ==
    /\ \A c \in Callers : pc[c] # "failed"
    /\ \A n \in BoundNames : heap[values[n]].type = kind[n]
    /\ \A c \in Callers : \A i \in DOMAIN todo[c] : todo[c][i].value.type = kind[todo[c][i].id]
    /\ \A i \in DOMAIN file : file[i].value.type = kind[file[i].id]
    /\ \A a \in Actors : bpc[a] = "writing" => line[a].value.type = kind[line[a].id]

-----------------------------------------------------------------------------
(* What the file says. *)
LEMMA LineIsACell == NoLine \notin Line /\ \A l \in Line : l \notin Torn
  BY ValueKinds DEF NoLine, Garbage, Bracket, Torn, Line

LEMMA LinesAreIntact ==
  ASSUME file \in Seq(Line)
  PROVE  Intact
<1>1. \A i \in DOMAIN file : file[i] \in Line
  OBVIOUS
<1> QED
  BY <1>1, LineIsACell DEF Intact

(* A name has one last line at most. *)
LEMMA LastLineUnique ==
  ASSUME NEW f \in Seq(Line), NEW n \in Names,
         NEW i \in 0 .. Len(f), NEW j \in 0 .. Len(f),
         LastLine(f, n, i), LastLine(f, n, j)
  PROVE  i = j
<1>1. \A k \in 0 .. Len(f) : k # 0 => k \in DOMAIN f
  OBVIOUS
<1> QED
  BY <1>1 DEF LastLine

LEMMA RecoverableIs ==
  ASSUME file \in Seq(Line), NEW n \in Names,
         NEW i \in 0 .. Len(file), LastLine(file, n, i)
  PROVE  Recoverable(n) = IF i = 0 THEN Absent ELSE file[i].value
<1> DEFINE j == CHOOSE j \in 0 .. Len(file) : LastLine(file, n, j)
<1>1. j \in 0 .. Len(file) /\ LastLine(file, n, j)
  OBVIOUS
<1>2. j = i
  BY <1>1, LastLineUnique
<1> QED
  BY <1>2 DEF Recoverable

(* What the start makes of a file is what the file shows. *)
LEMMA LoadedFacts == file \in Seq(Line) /\ Loaded(file) => MemInv /\ FileIsCurrent
<1> SUFFICES ASSUME file \in Seq(Line), Loaded(file) PROVE MemInv /\ FileIsCurrent
  OBVIOUS
<1>1. MemInv
  BY LoadedMemInv
<1>2. ASSUME NEW n \in Names PROVE Recoverable(n) = Shown[n]
  <2>1. values[n] \in 0 .. Len(file) /\ LastLine(file, n, values[n])
    BY DEF Loaded
  <2>2. values[n] # 0 => heap[values[n]] = file[values[n]].value
    BY <2>1 DEF Loaded
  <2> QED
    BY <2>1, <2>2, RecoverableIs DEF Shown, Bound
<1> QED
  BY <1>1, <1>2, LinesAreIntact DEF FileIsCurrent

(* What a later start makes of a file that mirrors some names. *)
LEMMA MirroredLast ==
  ASSUME NEW S, Mirrors(S), NEW n \in Names, NEW i \in 0 .. Len(file),
         LastLine(file, n, i)
  PROVE  (IF i = 0 THEN Absent ELSE file[i].value)
           = IF n \in S THEN Shown[n] ELSE Absent
<1>1. CASE i = 0
  BY <1>1 DEF LastLine, Mirrors
<1>2. CASE i # 0
  <2>1. i \in DOMAIN file /\ file[i].id = n
    BY <1>2 DEF LastLine, Mirrors
  <2> QED
    BY <1>2, <2>1 DEF Mirrors, Shown
<1> QED
  BY <1>1, <1>2

LEMMA MirrorsRecover ==
  ASSUME NEW S, Mirrors(S), NEW n \in Names
  PROVE  Recoverable(n) = IF n \in S THEN Shown[n] ELSE Absent
<1>1. PICK i \in 0 .. Len(file) : LastLine(file, n, i)
  <2>1. CASE n \in S
    <3>1. PICK i \in DOMAIN file : file[i].id = n
      BY <2>1 DEF Mirrors
    <3>2. i \in 0 .. Len(file) /\ i # 0
      BY <3>1 DEF Mirrors
    <3>3. \A j \in DOMAIN file : j > i => file[j].id # n
      BY <3>1 DEF Mirrors
    <3> QED
      BY <3>1, <3>2, <3>3 DEF LastLine
  <2>2. CASE n \notin S
    <3>1. LastLine(file, n, 0)
      BY <2>2 DEF LastLine, Mirrors
    <3> QED
      BY <3>1 DEF Mirrors
  <2> QED
    BY <2>1, <2>2
<1> QED
  BY <1>1, MirroredLast, RecoverableIs DEF Mirrors

LEMMA MirrorIsCurrent ==
  ASSUME Mirrors(BoundNames)
  PROVE  FileIsCurrent
<1>1. Intact
  BY LinesAreIntact DEF Mirrors
<1>2. \A n \in Names : Recoverable(n) = Shown[n]
  BY MirrorsRecover DEF BoundNames, Shown
<1> QED
  BY <1>1, <1>2 DEF FileIsCurrent

-----------------------------------------------------------------------------
(* A write at the end of the file appends; anywhere, it leaves cells. *)
LEMMA OverwrittenEnd ==
  ASSUME NEW f \in Seq(Cells), NEW l
  PROVE  Overwritten(f, Len(f), l) = {Append(f, l)}
<1>1. \A g : g \in Overwritten(f, Len(f), l) <=> g = f \o <<>> \o <<l>>
  <2>1. [i \in 1 .. Len(f) - Len(f) |-> Garbage] = <<>>
    OBVIOUS
  <2> QED
    BY <2>1 DEF Overwritten
<1>2. f \o <<>> \o <<l>> = Append(f, l)
  OBVIOUS
<1> QED
  BY <1>1, <1>2

LEMMA OverwrittenType ==
  ASSUME NEW f \in Seq(Cells), NEW o \in Nat, NEW l \in Cells
  PROVE  Overwritten(f, o, l) \subseteq Seq(Cells)
<1>1. Garbage \in Cells /\ Bracket \in Cells
  BY DEF Cells, Torn
<1>2. CASE o >= Len(f)
  <2>1. o - Len(f) \in Nat
    BY <1>2
  <2>2. [i \in 1 .. o - Len(f) |-> Garbage] \in Seq(Cells)
    BY <1>1, <2>1
  <2> QED
    BY <1>2, <2>2 DEF Overwritten
<1>3. CASE o < Len(f)
  <2> SUFFICES ASSUME NEW rest \in {<<>>, <<Garbage>>, <<Bracket>>},
                      NEW i \in o + 2 .. Len(f) + 1
               PROVE  SubSeq(f, 1, o) \o <<l>> \o rest \o SubSeq(f, i, Len(f)) \in Seq(Cells)
    <3>1. ~(o >= Len(f))
      BY <1>3
    <3>2. ASSUME NEW g \in Overwritten(f, o, l) PROVE g \in Seq(Cells)
      <4>1. \E rest \in {<<>>, <<Garbage>>, <<Bracket>>}, i \in o + 2 .. Len(f) + 1 :
              g = SubSeq(f, 1, o) \o <<l>> \o rest \o SubSeq(f, i, Len(f))
        BY <3>1, <3>2 DEF Overwritten
      <4> QED
        BY <4>1
    <3> QED
      BY <3>2
  <2>1. SubSeq(f, 1, o) \in Seq(Cells) /\ <<l>> \in Seq(Cells)
    BY <1>3
  <2>2. rest \in Seq(Cells)
    <3>1. <<Garbage>> \in Seq(Cells) /\ <<Bracket>> \in Seq(Cells)
      BY <1>1
    <3>2. <<>> \in Seq(Cells)
      OBVIOUS
    <3> QED
      BY <3>1, <3>2
  <2>3. SubSeq(f, i, Len(f)) \in Seq(Cells)
    OBVIOUS
  <2> QED
    BY <2>1, <2>2, <2>3
<1> QED
  BY <1>2, <1>3

-----------------------------------------------------------------------------
(* A backup that has the file to itself writes the map to it. *)
LEMMA SoleKept ==
  ASSUME NEW a \in Actors, SoleBackup(a),
         UNCHANGED <<values, heap, file, offset, bpc[a], due[a], visited[a], line[a]>>
  PROVE  SoleBackup(a)'
<1>1. \A S : Mirrors(S) <=> Mirrors(S)'
  BY DEF Mirrors, Bound
<1>2. BoundNames' = BoundNames /\ Written(a)' = Written(a)
  BY DEF BoundNames, Bound, Written
<1>3. AllEncodable' <=> AllEncodable
  BY <1>2 DEF AllEncodable, Encodable
<1> QED
  BY <1>1, <1>2, <1>3 DEF SoleBackup

LEMMA SoleStep ==
  ASSUME TypeOK, HTypeOK, NEW a \in Actors, SoleBackup(a), file \in Seq(Line), BackupStep(a)
  PROVE  SoleBackup(a)' /\ file' \in Seq(Line)
<1>1. /\ values \in [Names -> 0 .. Len(heap)] /\ heap \in Seq(Metric)
      /\ bpc \in [Actors -> {"none", "truncated", "ranging", "writing", "over"}]
      /\ due \in [Actors -> SUBSET Names] /\ visited \in [Actors -> SUBSET Names]
      /\ line \in [Actors -> Line \cup {NoLine}]
  BY DEF TypeOK, HTypeOK
<1>2. CASE SeekAndRange(a)
  <2>1. file = <<>> /\ file' = <<>> /\ offset' = 0 /\ bpc'[a] = "ranging"
    BY <1>1, <1>2 DEF SeekAndRange, SoleBackup, Moves
  <2>2. due'[a] = BoundNames /\ visited'[a] = {} /\ UNCHANGED <<values, heap>>
    BY <1>1, <1>2 DEF SeekAndRange, StartRange, memVars
  <2>3. Written(a)' = {} /\ BoundNames' = BoundNames
    BY <2>1, <2>2 DEF Written, BoundNames, Bound
  <2>4. Mirrors({})'
    BY <2>1 DEF Mirrors
  <2> QED
    BY <2>1, <2>2, <2>3, <2>4 DEF SoleBackup
<1>3. ASSUME NEW n \in Names, Visit(a, n) PROVE SoleBackup(a)' /\ file' \in Seq(Line)
  <2>1. /\ UNCHANGED <<values, heap, file, offset, due>>
        /\ visited'[a] = visited[a] \cup {n} /\ Bound(n) /\ n \notin visited[a]
        /\ bpc[a] = "ranging" /\ Written(a) = visited[a]
    BY <1>1, <1>3 DEF Visit, memVars, diskVars, Written
  <2>2. /\ Mirrors(visited[a]) /\ offset = Len(file)
        /\ due[a] = BoundNames /\ visited[a] \subseteq BoundNames
    BY <2>1 DEF SoleBackup
  <2>3. \A S : Mirrors(S) <=> Mirrors(S)'
    BY <2>1 DEF Mirrors, Bound
  <2>4. BoundNames' = BoundNames /\ n \in BoundNames
    BY <2>1 DEF BoundNames, Bound
  <2>5. CASE Encodable(heap[values[n]])
    <3>1. bpc'[a] = "writing" /\ line'[a] = [id |-> n, value |-> heap[values[n]]]
      BY <1>1, <1>3, <2>5 DEF Visit, Moves
    <3>2. Written(a)' = visited[a]
      BY <2>1, <3>1 DEF Written
    <3> QED
      BY <2>1, <2>2, <2>3, <2>4, <3>1, <3>2 DEF SoleBackup
  <2>6. CASE ~Encodable(heap[values[n]])
    <3>1. bpc'[a] = "over"
      BY <1>1, <1>3, <2>6 DEF Visit, Moves
    <3>2. ~AllEncodable'
      BY <2>1, <2>4, <2>6 DEF AllEncodable, Encodable, BoundNames, Bound
    <3> QED
      BY <2>1, <2>2, <2>3, <2>4, <3>1, <3>2 DEF SoleBackup
  <2> QED
    BY <2>5, <2>6
<1>4. CASE Write(a)
  <2> DEFINE n == line[a].id
  <2>1. /\ UNCHANGED <<values, heap, due, visited>>
        /\ bpc[a] = "writing" /\ bpc'[a] = "ranging" /\ offset' = offset + 1
        /\ file' \in Overwritten(file, offset, line[a])
    BY <1>1, <1>4 DEF Write, Moves, vars
  <2>2. /\ line[a] \in Line /\ n \in Names /\ line[a].value = heap[values[n]]
        /\ n \in visited[a] /\ visited[a] \subseteq BoundNames /\ due[a] = BoundNames
        /\ Mirrors(visited[a] \ {n}) /\ offset = Len(file)
    BY <2>1 DEF SoleBackup, HTypeOK, Written, Line
  <2>3. file' = Append(file, line[a])
    BY <2>1, <2>2, OverwrittenEnd DEF HTypeOK
  <2>4. /\ file' \in Seq(Line) /\ Len(file') = Len(file) + 1 /\ Len(file) \in Nat
        /\ file'[Len(file) + 1] = line[a]
        /\ \A i \in 1 .. Len(file) : file'[i] = file[i]
    BY <2>2, <2>3
  <2>5. /\ DOMAIN file' = 1 .. Len(file) + 1 /\ DOMAIN file = 1 .. Len(file)
        /\ \A i \in DOMAIN file' : i \in DOMAIN file \/ i = Len(file) + 1
    BY <2>4
  <2>6. BoundNames' = BoundNames /\ Bound(n)
    BY <2>1, <2>2 DEF BoundNames, Bound
  <2>7. Mirrors(visited[a])'
    <3>1. ASSUME NEW i \in DOMAIN file'
          PROVE  /\ file'[i].id \in visited[a]
                 /\ Bound(file'[i].id) /\ file'[i].value = heap[values[file'[i].id]]
      BY <2>2, <2>4, <2>5, <2>6 DEF Mirrors
    <3>2. ASSUME NEW m \in visited[a] PROVE \E i \in DOMAIN file' : file'[i].id = m
      <4>1. CASE m = n
        BY <2>4, <2>5, <4>1
      <4>2. CASE m # n
        <5>1. PICK i \in DOMAIN file : file[i].id = m
          BY <2>2, <4>2 DEF Mirrors
        <5> QED
          BY <2>4, <2>5, <5>1
      <4> QED
        BY <4>1, <4>2
    <3>3. ASSUME NEW i \in DOMAIN file', NEW j \in DOMAIN file', file'[i].id = file'[j].id
          PROVE  i = j
      <4>1. \A k \in DOMAIN file : file'[k] = file[k] /\ file[k].id # n
        BY <2>2, <2>4, <2>5 DEF Mirrors
      <4> QED
        BY <2>2, <2>4, <2>5, <3>3, <4>1 DEF Mirrors
    <3> QED
      BY <2>1, <2>4, <3>1, <3>2, <3>3 DEF Mirrors, Bound
  <2>8. Written(a)' = visited[a]
    BY <2>1 DEF Written
  <2> QED
    BY <2>1, <2>2, <2>4, <2>6, <2>7, <2>8 DEF SoleBackup
<1>5. CASE EndBackup(a)
  <2>1. /\ UNCHANGED <<values, heap, file>> /\ bpc[a] = "ranging" /\ bpc'[a] = "over"
        /\ due[a] \subseteq visited[a]
    BY <1>1, <1>5 DEF EndBackup, EndRange, memVars, diskVars, Moves
  <2>2. Mirrors(BoundNames)
    <3>1. visited[a] = BoundNames
      BY <2>1 DEF SoleBackup
    <3> QED
      BY <2>1, <3>1 DEF SoleBackup, Written
  <2>3. Mirrors(BoundNames)' /\ BoundNames' = BoundNames
    BY <2>1, <2>2 DEF Mirrors, BoundNames, Bound
  <2> QED
    BY <2>1, <2>3 DEF SoleBackup
<1> QED
  BY <1>2, <1>3, <1>4, <1>5 DEF BackupStep

-----------------------------------------------------------------------------
(* The steps of the backups and of main are no steps of the storage. *)
LEMMA OnlyRanging ==
  ASSUME \/ \E c \in Callers : BackupCaller(c)
         \/ \E a \in Actors : BackupStep(a)
         \/ Signal \/ Close \/ Exit \/ Refuse
  PROVE  /\ UNCHANGED <<values, heap, mu, up, pc, todo, ptr, sum, creators>>
         /\ ranging' \subseteq ranging \cup Actors
  BY DEF BackupCaller, BackupStep, SeekAndRange, Visit, Write, EndBackup, StartRange,
         EndRange, Signal, Close, Exit, Refuse, vars, memVars, callVars, histVars

LEMMA CrashMemInv ==
  ASSUME Crash
  PROVE  MemInv'
<1> USE DEF Crash
<1>0. heap' \in Seq(Metric) /\ Len(heap') = 0
  OBVIOUS
<1>1. TypeOK'
  <2>1. values' \in [Names -> 0 .. Len(heap')] /\ ptr' \in [Callers -> 0 .. Len(heap')]
    BY <1>0
  <2>2. /\ pc' \in [Callers -> Phases] /\ todo' \in [Callers -> Seq(DTO)]
        /\ \A c \in Callers : pc'[c] = "idle"
    BY DEF Phases
  <2>3. sum' \in [Names -> Int64] /\ creators' \in [Names -> SUBSET (Callers \cup {Main})]
    BY ZeroIsInt64
  <2> QED
    BY <1>0, <2>1, <2>2, <2>3 DEF TypeOK
<1>2. \A n \in Names : ~Bound(n)'
  BY DEF Bound
<1>3. /\ UpdateFindsKey' /\ WriterIsAlone' /\ CreatesOnce' /\ StoredIsBound'
      /\ ReplyReadsTheStoredMetric'
  BY DEF UpdateFindsKey, WriterIsAlone, CreatesOnce, StoredIsBound,
         ReplyReadsTheStoredMetric
<1>4. NoAlias' /\ LossOnlyByRacingCreates' /\ CreatedIsBound'
  BY <1>2 DEF NoAlias, LossOnlyByRacingCreates, CreatedIsBound
<1> QED
  BY <1>1, <1>3, <1>4 DEF MemInv

(* The server that starts has just loaded the whole lines its file begins  *)
(* with: all of them, when the file has no others.                         *)
LEMMA StartLoads ==
  ASSUME HTypeOK, Start
  PROVE  \E lines \in Seq(Line) : StartOn(lines) /\ Len(lines) \in 0 .. Len(file)
<1>1. PICK k \in 0 .. Len(file) : Loads(k) /\ StartOn(SubSeq(file, 1, k))
  BY DEF Start
<1>2. \A i \in 1 .. k : file[i] \in Line
  BY <1>1 DEF Loads, WholeLines, HTypeOK, Cells
<1>3. SubSeq(file, 1, k) \in Seq(Line) /\ Len(SubSeq(file, 1, k)) = k
  BY <1>2 DEF HTypeOK
<1> QED
  BY <1>1, <1>3

LEMMA StartOnIntact ==
  ASSUME file \in Seq(Line), Start
  PROVE  StartOn(file)
<1>1. PICK k \in 0 .. Len(file) : Loads(k) /\ StartOn(SubSeq(file, 1, k))
  BY DEF Start
<1>2. ~(k < Len(file))
  BY <1>1, LinesAreIntact DEF Loads, WholeLines, Intact
<1>3. SubSeq(file, 1, k) = file
  BY <1>2
<1> QED
  BY <1>1, <1>3

LEMMA IntactStarts ==
  ASSUME file \in Seq(Line)
  PROVE  ~Refuse
<1>1. Len(file) \in 0 .. Len(file) /\ Loads(Len(file))
  BY LinesAreIntact DEF Loads, WholeLines, Intact
<1> QED
  BY <1>1 DEF Refuse

LEMMA StartOnLoads ==
  ASSUME NEW CONSTANT lines, StartOn(lines)
  PROVE  Loaded(lines)'
  BY DEF StartOn, Loaded

LEMMA AnyLoad == \A lines \in Seq(Line) : Loaded(lines) => MemInv
  BY LoadedMemInv

LEMMA StartMemInv ==
  ASSUME HTypeOK, Start
  PROVE  MemInv'
<1>1. (\A lines \in Seq(Line) : Loaded(lines) => MemInv)'
  BY AnyLoad, PTL
<1>2. PICK lines \in Seq(Line) : StartOn(lines)
  BY StartLoads
<1> QED
  BY <1>1, <1>2, StartOnLoads

LEMMA StartIsCurrent ==
  ASSUME file \in Seq(Line), Start
  PROVE  FileIsCurrent'
<1>1. StartOn(file) /\ file' = file
  BY StartOnIntact DEF StartOn
<1>2. (file \in Seq(Line) /\ Loaded(file))'
  BY <1>1 DEF StartOn, Loaded, LastLine
<1> QED
  BY <1>2, LoadedFacts, PTL

(* The storage keeps its invariant under the backups, and across the ends *)
(* and starts of the process.                                             *)
LEMMA HNextMemInv ==
  ASSUME MemInv, HTypeOK, [HNext]_hybridVars
  PROVE  MemInv'
<1>1. ASSUME NEW c \in Callers, NEW b \in Batches, HBegin(c, b) PROVE MemInv'
  BY <1>1, BeginMemInv DEF HBegin
<1>2. ASSUME NEW c \in Callers, HStep(c) \/ HReturn(c) PROVE MemInv'
  BY <1>2, GetMemInv, UpdateApplyMemInv, UpdateFailMemInv, CreateNilMemInv,
     InsertBeginMemInv, InsertEndMemInv, NextItemMemInv, ReturnMemInv
     DEF HStep, HReturn
<1>3. ASSUME \/ \E c \in Callers : BackupCaller(c)
             \/ \E a \in Actors : BackupStep(a)
             \/ Signal \/ Close \/ Exit \/ Refuse
      PROVE  MemInv'
  <2>1. ranging' \subseteq Readers /\ up' \in BOOLEAN
    BY <1>3, OnlyRanging, ActorsAssumption DEF MemInv, TypeOK
  <2> QED
    BY <1>3, <2>1, OnlyRanging, RangingMemInv
<1>4. CASE Crash
  BY <1>4, CrashMemInv
<1>5. CASE Start
  BY <1>5, StartMemInv
<1>6. CASE UNCHANGED hybridVars
  <2>1. ranging' \subseteq Readers /\ up' \in BOOLEAN
    BY <1>6 DEF MemInv, TypeOK, hybridVars, vars
  <2> QED
    BY <1>6, <2>1, RangingMemInv DEF hybridVars, vars
<1> QED
  BY <1>1, <1>2, <1>3, <1>4, <1>5, <1>6 DEF HNext, CallerStep, MainStep, Actors

-----------------------------------------------------------------------------
(* The backup's own state keeps its types. *)
LEMMA BackupTypes ==
  ASSUME TypeOK, HTypeOK, NEW a \in Actors, BackupStep(a)
  PROVE  HTypeOK'
<1> USE DEF HTypeOK
<1>0. BoundNames \subseteq Names
  BY DEF BoundNames
<1>1. CASE SeekAndRange(a)
  BY <1>0, <1>1 DEF SeekAndRange, Moves
<1>2. ASSUME NEW n \in Names, Visit(a, n) PROVE HTypeOK'
  <2>1. [id |-> n, value |-> heap[values[n]]] \in Line
    BY <1>2, BoundMetric DEF Visit, Line
  <2> QED
    BY <1>2, <2>1 DEF Visit, Moves, diskVars
<1>3. CASE Write(a)
  <2>1. line[a] \in Line /\ line[a] \in Cells
    BY <1>3 DEF Write, Cells
  <2>2. file' \in Seq(Cells)
    BY <1>3, <2>1, OverwrittenType DEF Write
  <2> QED
    BY <1>3, <2>2 DEF Write, Moves
<1>4. CASE EndBackup(a)
  BY <1>4 DEF EndBackup, Moves, diskVars
<1> QED
  BY <1>1, <1>2, <1>3, <1>4 DEF BackupStep

LEMMA HNextTypes ==
  ASSUME TypeOK, HTypeOK, [HNext]_hybridVars
  PROVE  HTypeOK'
<1>1. CASE \E c \in Callers : (\E b \in Batches : HBegin(c, b)) \/ HStep(c)
  BY <1>1 DEF HBegin, HStep, HTypeOK, diskVars, backupVars
<1>2. ASSUME NEW c \in Callers, BackupCaller(c) \/ HReturn(c) PROVE HTypeOK'
  <2>1. c \in Actors /\ <<>> \in Seq(Cells)
    BY DEF Actors
  <2> QED
    BY <1>2, <2>1 DEF BackupCaller, HReturn, Moves, HTypeOK, diskVars
<1>3. CASE \E a \in Actors : BackupStep(a)
  BY <1>3, BackupTypes
<1>4. CASE Signal \/ Exit \/ Refuse
  BY <1>4 DEF Signal, Exit, Refuse, HTypeOK, diskVars, backupVars
<1>5. CASE Close
  <2>1. Main \in Actors /\ <<>> \in Seq(Cells)
    BY DEF Actors
  <2> QED
    BY <1>5, <2>1 DEF Close, Moves, HTypeOK
<1>6. CASE Crash
  BY <1>6 DEF Crash, HTypeOK, AllActors
<1>7. CASE Start
  <2>1. PICK lines \in Seq(Line) : StartOn(lines) /\ Len(lines) \in 0 .. Len(file)
    BY <1>7, StartLoads
  <2>2. offset' \in Nat
    BY <2>1 DEF StartOn
  <2> QED
    BY <2>1, <2>2 DEF StartOn, HTypeOK, AllActors
<1>8. CASE UNCHANGED hybridVars
  BY <1>8 DEF hybridVars, diskVars, backupVars, HTypeOK
<1> QED
  BY <1>1, <1>2, <1>3, <1>4, <1>5, <1>6, <1>7, <1>8 DEF HNext, CallerStep, MainStep, Actors

-----------------------------------------------------------------------------
(* Who is in a backup, and when. *)
LEMMA HNextWho ==
  ASSUME TypeOK, HTypeOK, WhoBacksUp, [HNext]_hybridVars
  PROVE  WhoBacksUp'
<1>0. /\ pc \in [Callers -> Phases] /\ todo \in [Callers -> Seq(DTO)]
      /\ bpc \in [Actors -> {"none", "truncated", "ranging", "writing", "over"}]
      /\ Main \in Actors /\ Callers \subseteq Actors /\ Main \notin Callers
  BY CallersAssumption DEF TypeOK, HTypeOK, Actors
<1>1. ASSUME NEW c \in Callers, NEW b \in Batches, HBegin(c, b) PROVE WhoBacksUp'
  BY <1>0, <1>1 DEF HBegin, Begin, GoTo, backupVars, memVars, WhoBacksUp
<1>2. ASSUME NEW c \in Callers, HStep(c) PROVE WhoBacksUp'
  <2>1. UNCHANGED <<phase, bpc, up>> /\ up
        /\ pc[c] # "idle" /\ bpc[c] = "none"
    BY <1>0, <1>2 DEF HStep, Get, UpdateApply, UpdateFail, CreateNil, InsertBegin,
           InsertEnd, NextItem, backupVars, memVars, WhoBacksUp
  <2>2. \A d \in Callers : d # c => pc'[d] = pc[d] /\ todo'[d] = todo[d]
    BY <1>0, <1>2 DEF HStep, Get, UpdateApply, UpdateFail, CreateNil, InsertBegin,
           InsertEnd, NextItem, GoTo
  <2> QED
    BY <1>0, <2>1, <2>2 DEF WhoBacksUp
<1>3. ASSUME NEW c \in Callers, BackupCaller(c) \/ HReturn(c) PROVE WhoBacksUp'
  <2>1. UNCHANGED <<phase, up>> /\ up /\ pc[c] # "idle"
    BY <1>3 DEF BackupCaller, HReturn, Return, vars, memVars
  <2>2. bpc'[Main] = bpc[Main]
    BY <1>0, <1>3 DEF BackupCaller, HReturn, Moves
  <2>3. ASSUME NEW d \in Callers, bpc'[d] # "none"
        PROVE  pc'[d] = "stored" /\ Len(todo'[d]) = 1
    <3>1. CASE d = c
      BY <1>0, <1>3, <2>3, <3>1 DEF BackupCaller, HReturn, Moves, vars
    <3>2. CASE d # c
      BY <1>0, <1>3, <2>3, <3>2
         DEF BackupCaller, HReturn, Return, GoTo, Moves, vars, WhoBacksUp
    <3> QED
      BY <3>1, <3>2
  <2> QED
    BY <2>1, <2>2, <2>3 DEF WhoBacksUp
<1>4. ASSUME NEW a \in Actors, BackupStep(a) PROVE WhoBacksUp'
  <2>1. UNCHANGED <<phase, up, pc, todo>> /\ bpc[a] \notin {"none", "over"} /\ bpc'[a] # "none"
        /\ \A e \in Actors : e # a => bpc'[e] = bpc[e]
    BY <1>0, <1>4, OnlyRanging
       DEF BackupStep, SeekAndRange, Visit, Write, EndBackup, Moves
  <2> QED
    BY <1>0, <2>1 DEF WhoBacksUp
<1>5. CASE Signal \/ Close \/ Exit
  BY <1>0, <1>5 DEF Signal, Close, Exit, Moves, vars, backupVars, WhoBacksUp
<1>6. CASE Refuse
  BY <1>0, <1>6 DEF Refuse, Stopped, vars, backupVars, WhoBacksUp
<1>7. CASE Crash
  BY <1>0, <1>7 DEF Crash, AllActors, WhoBacksUp
<1>8. CASE Start
  BY <1>0, <1>8 DEF Start, StartOn, AllActors, WhoBacksUp
<1>9. CASE UNCHANGED hybridVars
  BY <1>9 DEF hybridVars, vars, backupVars, WhoBacksUp
<1> QED
  BY <1>1, <1>2, <1>3, <1>4, <1>5, <1>6, <1>7, <1>8, <1>9 DEF HNext, CallerStep, MainStep, Actors

-----------------------------------------------------------------------------
(* The last backup has the file to itself: when main makes it, no request, *)
(* and so no other backup, is left.                                        *)
LEMMA HNextFinal ==
  ASSUME HybridInv, [HNext]_hybridVars
  PROVE  FinalBackup'
<1> USE DEF HybridInv
<1>0. /\ TypeOK /\ Main \in Actors /\ Main \notin Callers /\ Callers \subseteq Actors
      /\ bpc \in [Actors -> {"none", "truncated", "ranging", "writing", "over"}]
  BY CallersAssumption DEF MemInv, HTypeOK, Actors
<1> SUFFICES ASSUME up', phase' \in {"closing", "down"} PROVE SoleBackup(Main)'
  BY DEF FinalBackup
<1>1. CASE Close
  <2>1. file' = <<>> /\ bpc'[Main] = "truncated"
    BY <1>0, <1>1 DEF Close, Moves
  <2> QED
    BY <2>1 DEF SoleBackup
<1>2. CASE Start \/ Signal \/ Refuse \/ Crash
  BY <1>2 DEF Start, StartOn, Signal, Refuse, Crash
<1>3. CASE ~(Start \/ Signal \/ Refuse \/ Crash \/ Close)
  <2>1. up /\ phase \in {"closing", "down"}
    BY <1>3 DEF HNext, CallerStep, MainStep, HBegin, HStep, BackupCaller, HReturn, BackupStep,
           SeekAndRange, Visit, Write, EndBackup, StartRange, EndRange, Begin, Get,
           UpdateApply, UpdateFail, CreateNil, InsertBegin, InsertEnd, NextItem, Return,
           Exit, hybridVars, vars, memVars
  <2>2. SoleBackup(Main) /\ \A c \in Callers : pc[c] = "idle" /\ bpc[c] = "none"
    BY <2>1 DEF FinalBackup, WhoBacksUp
  <2>3. \/ Exit \/ UNCHANGED hybridVars
        \/ BackupStep(Main)
    <3>1. ASSUME NEW c \in Callers PROVE ~CallerStep(c) /\ \A b \in Batches : ~HBegin(c, b)
      BY <2>1, <2>2 DEF CallerStep, HBegin, HStep, BackupCaller, HReturn, BackupStep,
           SeekAndRange, Visit, Write, EndBackup, Get,
           UpdateApply, UpdateFail, CreateNil, InsertBegin, InsertEnd, NextItem, Return
    <3> QED
      BY <1>3, <3>1 DEF HNext, MainStep
  <2>4. CASE Exit \/ UNCHANGED hybridVars
    BY <1>0, <2>2, <2>4, SoleKept DEF Exit, hybridVars, vars, diskVars, backupVars
  <2>5. CASE BackupStep(Main)
    <3>1. CASE bpc[Main] \in {"none", "over"}
      BY <2>5, <3>1 DEF BackupStep, SeekAndRange, Visit, Write, EndBackup
    <3>2. CASE bpc[Main] \notin {"none", "over"}
      <4>1. file \in Seq(Line)
        <5>1. CASE bpc[Main] = "truncated"
          BY <2>2, <5>1 DEF SoleBackup
        <5>2. CASE bpc[Main] \in {"ranging", "writing"}
          BY <2>2, <5>2 DEF SoleBackup, Mirrors
        <5> QED
          BY <1>0, <3>2, <5>1, <5>2
      <4> QED
        BY <1>0, <2>2, <2>5, <4>1, SoleStep
    <3> QED
      BY <3>1, <3>2
  <2> QED
    BY <2>3, <2>4, <2>5
<1> QED
  BY <1>1, <1>2, <1>3

LEMMA HInitInv == HInit => HybridInv
<1> SUFFICES ASSUME HInit PROVE HybridInv
  OBVIOUS
<1>1. file \in Seq(Line) /\ Loaded(file)
  BY SnapshotsAssumption DEF HInit
<1>2. MemInv
  BY <1>1, LoadedMemInv
<1>3. file \in Seq(Cells)
  BY <1>1 DEF Cells
<1>4. HTypeOK
  <2>1. Len(file) \in Nat
    BY <1>1
  <2> QED
    BY <1>3, <2>1 DEF HInit, HTypeOK, AllActors
<1>5. WhoBacksUp /\ FinalBackup
  BY DEF HInit, WhoBacksUp, FinalBackup, AllActors, Actors
<1> QED
  BY <1>2, <1>4, <1>5 DEF HybridInv

(* The invariant holds whatever the requests, the backups in each other's  *)
(* way, the kills and the starts on what they leave in the file.           *)
THEOREM BackupInvariant == HSpec => []HybridInv
<1>1. HybridInv /\ [HNext]_hybridVars => HybridInv'
  <2> SUFFICES ASSUME HybridInv, [HNext]_hybridVars PROVE HybridInv'
    OBVIOUS
  <2>1. MemInv' /\ HTypeOK'
    BY HNextMemInv, HNextTypes DEF HybridInv, MemInv
  <2>2. WhoBacksUp' /\ FinalBackup'
    BY HNextWho, HNextFinal DEF HybridInv, MemInv
  <2> QED
    BY <2>1, <2>2 DEF HybridInv
<1> QED
  BY <1>1, HInitInv, PTL DEF HSpec

(* HybridStorage's state always has the types HybridStorage.tla gives it. *)
THEOREM BackupTypeCorrect == HSpec => []HTypeOK
  BY BackupInvariant, PTL DEF HybridInv

(* What is proved of the storage alone holds with the backup beside it and  *)
(* across restarts of the server: no name shares a metric, no delta is lost *)
(* but to racing creations.                                                 *)
THEOREM StorageInvariantSurvives == HSpec => []MemInv
  BY BackupInvariant, PTL DEF HybridInv

(* The file that a clean exit leaves is the memory's content, however badly *)
(* overlapping backups had torn it before, when JSON can carry the values.  *)
THEOREM CleanExitIsWhole == HSpec => []CleanExitSavesEverything
<1>1. HybridInv => CleanExitSavesEverything
  BY MirrorIsCurrent
     DEF HybridInv, CleanExitSavesEverything, FinalBackup, SoleBackup, WhoBacksUp
<1> QED
  BY <1>1, BackupInvariant, PTL

(* The server that starts after a clean exit always starts, and serves what *)
(* the one before it ended with.                                            *)
THEOREM CleanRestartIsLossless == HSpec => CleanRestartLosesNothing
<1>1. ASSUME HybridInv, [HNext]_hybridVars,
             phase = "down", up, AllEncodable, phase' # "down"
      PROVE  phase' = "serving" /\ Shown' = Shown
  <2>1. Mirrors(BoundNames)
    BY <1>1 DEF HybridInv, FinalBackup, SoleBackup, WhoBacksUp
  <2>2. ~Refuse
    BY <2>1, IntactStarts DEF Mirrors
  <2>3. Start
    BY <1>1, <2>2 DEF HNext, CallerStep, MainStep, HBegin, HStep, BackupCaller, HReturn,
           BackupStep, SeekAndRange, Visit, Write, EndBackup, Signal, Close, Exit, Crash,
           hybridVars
  <2>0. StartOn(file)
    BY <2>1, <2>3, StartOnIntact DEF Mirrors
  <2>4. ASSUME NEW n \in Names PROVE Shown'[n] = Shown[n]
    <3>1. values'[n] \in 0 .. Len(file) /\ LastLine(file, n, values'[n])
      BY <2>0 DEF StartOn
    <3>2. Shown[n] = IF values'[n] = 0 THEN Absent ELSE file[values'[n]].value
      BY <2>1, <3>1, MirroredLast DEF BoundNames, Shown
    <3>3. values'[n] # 0 => heap'[values'[n]] = file[values'[n]].value
      BY <2>0, <3>1, <2>1 DEF StartOn, Mirrors
    <3> QED
      BY <3>2, <3>3 DEF Shown, Bound
  <2> QED
    BY <2>0, <2>4 DEF StartOn, Shown
<1>2. HybridInv /\ [HNext]_hybridVars
        => [phase = "down" /\ up /\ AllEncodable /\ phase' # "down"
              => phase' = "serving" /\ Shown' = Shown]_hybridVars
  BY <1>1
<1> QED
  BY <1>2, BackupInvariant, PTL DEF HSpec, CleanRestartLosesNothing

-----------------------------------------------------------------------------
(* With one request at a time every backup has the file to itself. *)
LEMMA OneBackup ==
  ASSUME OneCaller, WhoBacksUp, up,
         NEW a \in Actors, NEW e \in Actors, bpc[a] # "none", bpc[e] # "none"
  PROVE  a = e
<1>1. ASSUME NEW c \in Callers, bpc[c] # "none" PROVE bpc[Main] = "none"
  BY <1>1 DEF WhoBacksUp
<1> QED
  BY <1>1 DEF OneCaller, Actors

LEMMA LoneNext ==
  ASSUME OneCaller, HybridInv, LoneInv, [HNext]_hybridVars
  PROVE  LoneInv'
<1>0. /\ TypeOK /\ HTypeOK /\ WhoBacksUp
      /\ pc \in [Callers -> Phases] /\ todo \in [Callers -> Seq(DTO)]
      /\ bpc \in [Actors -> {"none", "truncated", "ranging", "writing", "over"}]
      /\ Main \in Actors /\ Callers \subseteq Actors /\ Main \notin Callers
      /\ file \in Seq(Line) /\ \A a \in Actors : SoleBackup(a)
  BY CallersAssumption DEF HybridInv, MemInv, TypeOK, HTypeOK, Actors, LoneInv
<1>1. ASSUME NEW a \in Actors, bpc'[a] = "none" PROVE SoleBackup(a)'
  BY <1>1 DEF SoleBackup
<1>2. ASSUME UNCHANGED <<values, heap, file, offset, due, visited, line>>,
             \A a \in Actors : bpc'[a] \in {"none", bpc[a]}
      PROVE  LoneInv'
  BY <1>0, <1>1, <1>2, SoleKept DEF LoneInv
<1>3. ASSUME file' \in Seq(Line), \A a \in Actors : bpc'[a] = "none" PROVE LoneInv'
  BY <1>1, <1>3 DEF LoneInv
<1>4. ASSUME NEW c \in Callers, NEW b \in Batches, HBegin(c, b) PROVE LoneInv'
  BY <1>2, <1>4 DEF HBegin, Begin, memVars, diskVars, backupVars
<1>5. ASSUME NEW c \in Callers, HStep(c) PROVE LoneInv'
  <2>1. bpc[c] = "none" /\ bpc[Main] = "none"
    <3>1. up /\ pc[c] # "idle" /\ (pc[c] = "stored" => Len(todo[c]) > 1)
      BY <1>5 DEF HStep, Get, UpdateApply, UpdateFail, CreateNil, InsertBegin, InsertEnd,
             NextItem
    <3>2. Len(todo[c]) > 1 => Len(todo[c]) # 1
      <4>1. Len(todo[c]) \in Nat
        BY <1>0
      <4>2. \A k \in Nat : k > 1 => k # 1
        OBVIOUS
      <4> QED
        BY <4>1, <4>2
    <3>3. bpc[c] = "none"
      BY <1>0, <3>1, <3>2 DEF WhoBacksUp
    <3>4. phase \in {"serving", "draining"}
      BY <1>0, <3>1 DEF WhoBacksUp
    <3> QED
      BY <1>0, <3>3, <3>4 DEF WhoBacksUp
  <2>2. \A a \in Actors : bpc[a] = "none"
    BY <2>1 DEF OneCaller, Actors
  <2> QED
    BY <1>0, <1>3, <1>5, <2>2 DEF HStep, diskVars, backupVars
<1>6. ASSUME NEW c \in Callers, BackupCaller(c) PROVE LoneInv'
  <2>1. file' = <<>> /\ bpc' = [bpc EXCEPT ![c] = "truncated"] /\ up /\ pc[c] = "stored"
    BY <1>6 DEF BackupCaller, Moves
  <2>2. bpc'[Main] = "none" /\ bpc'[c] = "truncated"
    BY <1>0, <2>1 DEF WhoBacksUp
  <2>3. \A a \in Actors : a = c \/ a = Main
    BY DEF OneCaller, Actors
  <2>4. SoleBackup(c)'
    BY <2>1, <2>2 DEF SoleBackup
  <2> QED
    BY <1>0, <1>1, <2>1, <2>2, <2>3, <2>4 DEF LoneInv
<1>7. ASSUME NEW c \in Callers, HReturn(c) PROVE LoneInv'
  BY <1>0, <1>2, <1>7 DEF HReturn, Return, Moves, memVars, diskVars
<1>8. ASSUME NEW a \in Actors, BackupStep(a) PROVE LoneInv'
  <2>1. /\ bpc[a] # "none" /\ up
        /\ \A e \in Actors : e # a => bpc'[e] = bpc[e]
    BY <1>0, <1>8 DEF BackupStep, SeekAndRange, Visit, Write, EndBackup, StartRange,
           EndRange, Moves
  <2>2. \A e \in Actors : e # a => bpc'[e] = "none"
    BY <1>0, <2>1, OneBackup
  <2>3. SoleBackup(a)' /\ file' \in Seq(Line)
    BY <1>0, <1>8, SoleStep
  <2> QED
    BY <1>1, <2>2, <2>3 DEF LoneInv
<1>9. CASE Close
  <2>1. file' = <<>> /\ bpc'[Main] = "truncated" /\ \A c \in Callers : bpc'[c] = "none"
    BY <1>0, <1>9 DEF Close, Moves, WhoBacksUp
  <2>2. SoleBackup(Main)'
    BY <2>1 DEF SoleBackup
  <2> QED
    BY <1>1, <2>1, <2>2 DEF LoneInv, Actors
<1>10. CASE Signal \/ Exit \/ Refuse \/ UNCHANGED hybridVars
  BY <1>2, <1>10 DEF Signal, Exit, Refuse, hybridVars, vars, diskVars, backupVars
<1>11. CASE Crash
  BY <1>0, <1>3, <1>11 DEF Crash, AllActors
<1>12. CASE Start
  BY <1>0, <1>3, <1>12 DEF Start, StartOn, AllActors
<1> QED
  BY <1>4, <1>5, <1>6, <1>7, <1>8, <1>9, <1>10, <1>11, <1>12
     DEF HNext, CallerStep, MainStep, Actors

(* With one caller at a time it holds together with LoneInv: no two backups *)
(* share the file's position, so that every file is whole lines, and the   *)
(* lines are of values the memory still has.                               *)
THEOREM LoneInvariant == ASSUME OneCaller PROVE HSpec => [](HybridInv /\ LoneInv)
<1>1. HInit => LoneInv
  BY SnapshotsAssumption DEF HInit, LoneInv, AllActors, SoleBackup
<1>2. HybridInv /\ LoneInv /\ [HNext]_hybridVars => LoneInv'
  BY LoneNext
<1> QED
  BY <1>1, <1>2, BackupInvariant, PTL DEF HSpec

(* With one request at a time no stop of the process leaves a file that the *)
(* next start refuses or reads in part: a backup cut short is a prefix of   *)
(* whole lines.                                                             *)
THEOREM LoneServerAlwaysStarts == ASSUME OneCaller PROVE HSpec => []StartsReadAll
<1> DEFINE Runs == phase # "refused"
<1>1. HInit => Runs
  BY DEF HInit
<1>2. LoneInv /\ Runs /\ [HNext]_hybridVars => Runs'
  <2> SUFFICES ASSUME LoneInv, Runs, [HNext]_hybridVars PROVE Runs'
    OBVIOUS
  <2>1. ~Refuse
    BY IntactStarts DEF LoneInv
  <2> QED
    BY <2>1 DEF HNext, CallerStep, MainStep, HBegin, HStep, BackupCaller,
           HReturn, BackupStep, SeekAndRange, Visit, Write, EndBackup, Signal, Close, Exit,
           Crash, Start, StartOn, hybridVars
<1>3. LoneInv /\ Runs => StartsReadAll
  BY LinesAreIntact DEF LoneInv, StartsReadAll
<1> HIDE DEF Runs
<1> QED
  BY <1>1, <1>2, <1>3, LoneInvariant, PTL DEF HSpec

(* With one request at a time a file never holds a value that the memory  *)
(* does not: a kill in the middle of a backup loses names, nothing else.  *)
THEOREM LoneBackupIsCurrent == ASSUME OneCaller PROVE HSpec => []BackupHoldsNoOldValue
<1>1. HybridInv /\ LoneInv => BackupHoldsNoOldValue
  <2> SUFFICES ASSUME HybridInv, LoneInv, NEW c \in Callers, bpc[c] # "none", NEW n \in Names
               PROVE  Recoverable(n) \in {Absent, Shown[n]}
    BY DEF BackupHoldsNoOldValue
  <2>1. SoleBackup(c) /\ bpc[c] \in {"truncated", "ranging", "writing", "over"}
    BY DEF HybridInv, HTypeOK, LoneInv, Actors
  <2>2. PICK S \in SUBSET Names : Mirrors(S)
    <3>1. CASE bpc[c] = "truncated"
      <4>1. Mirrors({})
        BY <2>1, <3>1 DEF SoleBackup, Mirrors
      <4> QED
        BY <4>1
    <3>2. CASE bpc[c] \in {"ranging", "writing"}
      <4>1. Mirrors(Written(c)) /\ Written(c) \subseteq Names
        BY <2>1, <3>2 DEF SoleBackup, Written, BoundNames
      <4> QED
        BY <4>1
    <3>3. CASE bpc[c] = "over"
      BY <2>1, <3>3 DEF SoleBackup, BoundNames
    <3> QED
      BY <2>1, <3>1, <3>2, <3>3
  <2> QED
    BY <2>2, MirrorsRecover
<1> QED
  BY <1>1, LoneInvariant, PTL

-----------------------------------------------------------------------------
(* When every name has a type that requests and files respect, it keeps it *)
(* in the memory and in the file, and no call fails.                       *)
LEMMA FittingItem ==
  ASSUME NEW kind, Fitting(kind), TypesFit(kind), TypeOK, NEW c \in Callers, pc[c] # "idle"
  PROVE  Given(c).type = kind[Name(c)] /\ Given(c) # Nil
<1>1. todo[c] \in Seq(DTO) /\ todo[c] # <<>> /\ Name(c) \in Names
  BY ItemType
<1>2. 1 \in DOMAIN todo[c] /\ Item(c) = todo[c][1]
  BY <1>1 DEF Item
<1>3. Given(c).type = kind[Name(c)]
  BY <1>2 DEF TypesFit, Given, Name
<1> QED
  BY <1>1, <1>3 DEF Fitting, Nil

(* The metrics that names are bound to, and the items left, after a step of *)
(* the storage.                                                             *)
LEMMA FitStorage ==
  ASSUME NEW kind, Fitting(kind), TypesFit(kind), MemInv, NEW c \in Callers,
         \/ \E b \in Batches : Begin(c, b)
         \/ Get(c) \/ UpdateApply(c) \/ UpdateFail(c) \/ CreateNil(c)
         \/ InsertBegin(c) \/ InsertEnd(c) \/ NextItem(c) \/ Return(c)
  PROVE  /\ \A d \in Callers : pc'[d] # "failed"
         /\ \A n \in BoundNames' : heap'[values'[n]].type = kind[n]
         /\ \A d \in Callers : \A i \in DOMAIN todo'[d] :
              todo'[d][i].value.type = kind[todo'[d][i].id]
<1> USE DEF TypesFit
<1>0. /\ TypeOK /\ pc \in [Callers -> Phases] /\ todo \in [Callers -> Seq(DTO)]
      /\ values \in [Names -> 0 .. Len(heap)] /\ heap \in Seq(Metric)
  BY DEF MemInv, TypeOK
<1>1. \A n \in Names : Bound(n) => values[n] \in DOMAIN heap /\ heap[values[n]] \in Metric
  BY <1>0, BoundMetric
<1>2. CASE \E b \in Batches : Begin(c, b)
  BY <1>0, <1>2 DEF Begin, GoTo, memVars, BoundNames, Bound, Fitting
<1>3. CASE Get(c)
  BY <1>0, <1>3 DEF Get, GoTo, memVars, BoundNames, Bound
<1>4. CASE UpdateApply(c)
  <2>1. PICK n \in Names, v \in Value : n = Name(c) /\ v = Given(c)
    BY <1>0, <1>4, ItemType DEF UpdateApply
  <2>2. /\ Bound(n) /\ heap[values[n]].type = v.type
        /\ heap' = [heap EXCEPT ![values[n]] = Updated(heap[values[n]], v)]
        /\ UNCHANGED <<values, todo>> /\ pc' = [pc EXCEPT ![c] = "stored"]
    BY <1>4, <2>1 DEF UpdateApply, GoTo
  <2>3. Updated(heap[values[n]], v).type = heap[values[n]].type
    BY <1>1, <2>1, <2>2, UpdatedFacts
  <2>4. \A i \in DOMAIN heap : heap'[i].type = heap[i].type
    BY <2>2, <2>3
  <2> QED
    BY <1>0, <1>1, <2>2, <2>4 DEF BoundNames, Bound
<1>5. CASE UpdateFail(c) \/ CreateNil(c)
  <2>1. Given(c).type = kind[Name(c)] /\ Given(c) # Nil /\ Name(c) \in Names
    BY <1>0, <1>5, FittingItem, ItemType DEF UpdateFail, CreateNil
  <2> QED
    BY <1>5, <2>1 DEF UpdateFail, CreateNil, BoundNames
<1>6. CASE InsertBegin(c)
  <2>1. /\ heap' = Append(heap, Given(c)) /\ UNCHANGED <<values, todo>>
        /\ pc' = [pc EXCEPT ![c] = "inserting"]
    BY <1>6 DEF InsertBegin, GoTo
  <2>2. \A i \in DOMAIN heap : heap'[i] = heap[i]
    BY <1>0, <2>1
  <2> QED
    BY <1>0, <1>1, <2>1, <2>2 DEF BoundNames, Bound
<1>7. CASE InsertEnd(c)
  <2>1. /\ values' = [values EXCEPT ![Name(c)] = ptr[c]] /\ UNCHANGED <<heap, todo>>
        /\ pc' = [pc EXCEPT ![c] = "stored"] /\ pc[c] = "inserting"
    BY <1>7 DEF InsertEnd, GoTo
  <2>a. heap[ptr[c]] = Given(c)
    BY <2>1 DEF MemInv, WriterIsAlone
  <2>2. heap[ptr[c]] = Given(c) /\ Given(c).type = kind[Name(c)]
    BY <1>0, <2>1, <2>a, FittingItem
  <2>3. ASSUME NEW n \in BoundNames' PROVE heap'[values'[n]].type = kind[n]
    <3>1. CASE n = Name(c)
      BY <1>0, <2>1, <2>2, <3>1 DEF BoundNames
    <3>2. CASE n # Name(c)
      BY <1>0, <2>1, <3>2 DEF BoundNames, Bound
    <3> QED
      BY <3>1, <3>2
  <2> QED
    BY <1>0, <2>1, <2>3
<1>8. CASE NextItem(c)
  <2>1. todo' = [todo EXCEPT ![c] = Tail(todo[c])] /\ Len(todo[c]) > 1
        /\ pc' = [pc EXCEPT ![c] = "get"] /\ UNCHANGED <<values, heap>>
    BY <1>8 DEF NextItem, GoTo, memVars
  <2>2. \A i \in DOMAIN Tail(todo[c]) :
           i + 1 \in DOMAIN todo[c] /\ Tail(todo[c])[i] = todo[c][i + 1]
    BY <1>0, <2>1
  <2> QED
    BY <1>0, <2>1, <2>2 DEF BoundNames, Bound
<1>9. CASE Return(c)
  BY <1>0, <1>9 DEF Return, GoTo, memVars, BoundNames, Bound
<1> QED
  BY <1>2, <1>3, <1>4, <1>5, <1>6, <1>7, <1>8, <1>9

LEMMA FitNext ==
  ASSUME NEW kind, Fitting(kind), TypesFit(kind), HybridInv, LoneInv, LoneInv',
         [HNext]_hybridVars
  PROVE  TypesFit(kind)'
<1>0. /\ TypeOK /\ MemInv /\ HTypeOK
      /\ bpc \in [Actors -> {"none", "truncated", "ranging", "writing", "over"}]
      /\ Main \in Actors /\ Callers \subseteq Actors
      /\ line \in [Actors -> Line \cup {NoLine}]
      /\ visited \in [Actors -> SUBSET Names]
      /\ file \in Seq(Line)
  BY DEF HybridInv, MemInv, HTypeOK, Actors, LoneInv
<1>1. ASSUME UNCHANGED <<values, heap, pc, todo, line>>, file' \in {file, <<>>},
             \A a \in Actors : bpc'[a] = "writing" => bpc[a] = "writing"
      PROVE  TypesFit(kind)'
  BY <1>1 DEF TypesFit, BoundNames, Bound
<1>2. ASSUME NEW c \in Callers,
             (\E b \in Batches : HBegin(c, b)) \/ HStep(c) \/ HReturn(c)
      PROVE  TypesFit(kind)'
  <2>1. UNCHANGED <<file, line>> /\ \A a \in Actors : bpc'[a] = "writing" => bpc[a] = "writing"
    BY <1>0, <1>2 DEF HBegin, HStep, HReturn, Moves, diskVars, backupVars
  <2>2. \/ \E b \in Batches : Begin(c, b)
        \/ Get(c) \/ UpdateApply(c) \/ UpdateFail(c) \/ CreateNil(c)
        \/ InsertBegin(c) \/ InsertEnd(c) \/ NextItem(c) \/ Return(c)
    BY <1>2 DEF HBegin, HStep, HReturn
  <2> QED
    BY <1>0, <2>1, <2>2, FitStorage DEF TypesFit
<1>3. ASSUME NEW c \in Callers, BackupCaller(c) PROVE TypesFit(kind)'
  BY <1>0, <1>1, <1>3 DEF BackupCaller, Moves, vars
<1>4. ASSUME NEW a \in Actors, BackupStep(a) PROVE TypesFit(kind)'
  <2>1. CASE SeekAndRange(a) \/ EndBackup(a)
    BY <1>0, <1>1, <2>1
       DEF SeekAndRange, EndBackup, StartRange, EndRange, Moves, memVars, callVars, diskVars
  <2>2. ASSUME NEW n \in Names, Visit(a, n) PROVE TypesFit(kind)'
    <3>1. UNCHANGED <<values, heap, pc, todo, file>> /\ n \in BoundNames
      BY <2>2 DEF Visit, memVars, callVars, diskVars, BoundNames
    <3>2. ASSUME NEW e \in Actors, bpc'[e] = "writing"
          PROVE  line'[e].value.type = kind[line'[e].id]
      <4>1. CASE e = a
        BY <1>0, <2>2, <3>1, <3>2, <4>1 DEF Visit, Moves, TypesFit
      <4>2. CASE e # a
        BY <1>0, <2>2, <3>2, <4>2 DEF Visit, Moves, TypesFit
      <4> QED
        BY <4>1, <4>2
    <3> QED
      BY <3>1, <3>2 DEF TypesFit, BoundNames, Bound
  <2>3. CASE Write(a)
    <3>1. /\ UNCHANGED <<values, heap, pc, todo>> /\ bpc[a] = "writing"
          /\ line' = [line EXCEPT ![a] = NoLine] /\ bpc' = [bpc EXCEPT ![a] = "ranging"]
          /\ file' \in Overwritten(file, offset, line[a])
      BY <2>3 DEF Write, Moves, vars
    <3>2. offset = Len(file) /\ line[a] \in Line
      BY <1>0, <3>1 DEF LoneInv, SoleBackup, HTypeOK
    <3>3. file' = Append(file, line[a])
      BY <1>0, <3>1, <3>2, OverwrittenEnd DEF HTypeOK
    <3>4. \A i \in DOMAIN file' : file'[i] = line[a] \/ (i \in DOMAIN file /\ file'[i] = file[i])
      BY <1>0, <3>2, <3>3
    <3>5. \A i \in DOMAIN file' : file'[i].value.type = kind[file'[i].id]
      BY <3>1, <3>4 DEF TypesFit
    <3> QED
      BY <1>0, <3>1, <3>5 DEF TypesFit, BoundNames, Bound
  <2> QED
    BY <1>4, <2>1, <2>2, <2>3 DEF BackupStep
<1>5. CASE Signal \/ Close \/ Exit \/ Refuse \/ UNCHANGED hybridVars
  BY <1>0, <1>1, <1>5
     DEF Signal, Close, Exit, Refuse, Moves, hybridVars, vars, diskVars, backupVars
<1>6. CASE Crash
  BY <1>6 DEF Crash, AllActors, TypesFit, BoundNames, Bound
<1>7. CASE Start
  <2>0. StartOn(file)
    BY <1>0, <1>7, StartOnIntact DEF LoneInv
  <2>1. ASSUME NEW n \in BoundNames' PROVE heap'[values'[n]].type = kind[n]
    <3>1. n \in Names /\ values'[n] # 0 /\ LastLine(file, n, values'[n])
          /\ values'[n] \in 0 .. Len(file)
      BY <2>0 DEF StartOn, BoundNames, Bound
    <3>2. values'[n] \in DOMAIN file /\ file[values'[n]].id = n
      BY <1>0, <3>1 DEF LastLine
    <3> QED
      BY <1>0, <2>0, <3>2 DEF StartOn, TypesFit
  <2> QED
    BY <1>0, <2>0, <2>1 DEF StartOn, AllActors, TypesFit
<1> QED
  BY <1>2, <1>3, <1>4, <1>5, <1>6, <1>7 DEF HNext, CallerStep, MainStep, Actors

LEMMA FitInit == ASSUME NEW kind, Fitting(kind), HInit PROVE TypesFit(kind)
<1>1. file \in Seq(Line) /\ file \in Snapshots /\ Loaded(file)
  BY SnapshotsAssumption DEF HInit
<1>2. \A i \in DOMAIN file : file[i].value.type = kind[file[i].id]
  BY <1>1 DEF Fitting
<1>3. ASSUME NEW n \in BoundNames PROVE heap[values[n]].type = kind[n]
  <2>1. n \in Names /\ values[n] # 0 /\ LastLine(file, n, values[n])
        /\ values[n] \in 0 .. Len(file)
    BY <1>1 DEF Loaded, BoundNames, Bound
  <2>2. values[n] \in DOMAIN file /\ file[values[n]].id = n
    BY <1>1, <2>1 DEF LastLine
  <2> QED
    BY <1>1, <1>2, <2>2 DEF Loaded
<1> QED
  BY <1>1, <1>2, <1>3 DEF HInit, Loaded, AllActors, TypesFit

(* With one request at a time, storeInterval 0 and values that fit, a call *)
(* that was answered is in the file: a kill after it loses nothing of it.  *)
THEOREM LoneCallsAreSaved ==
  ASSUME OneCaller, NEW kind, Fitting(kind)
  PROVE  HSpec => []ReturnedIsSaved
<1>1. HInit => TypesFit(kind) /\ ReturnedIsSaved
  <2> SUFFICES ASSUME HInit PROVE TypesFit(kind) /\ ReturnedIsSaved
    OBVIOUS
  <2>1. file \in Seq(Line) /\ Loaded(file)
    BY SnapshotsAssumption DEF HInit
  <2> QED
    BY <2>1, FitInit, LoadedFacts DEF ReturnedIsSaved
<1>2. ASSUME HybridInv, LoneInv, LoneInv', TypesFit(kind), ReturnedIsSaved, [HNext]_hybridVars
      PROVE  ReturnedIsSaved'
  <2>0. bpc \in [Actors -> {"none", "truncated", "ranging", "writing", "over"}]
        /\ pc \in [Callers -> Phases] /\ HTypeOK /\ WhoBacksUp
    BY <1>2 DEF HybridInv, MemInv, TypeOK, HTypeOK
  <2> SUFFICES ASSUME EveryTime, up', phase' \in {"serving", "draining"}, AllEncodable',
                      \A c \in Callers : pc'[c] = "idle"
               PROVE  FileIsCurrent'
    BY DEF ReturnedIsSaved
  <2>1. ASSUME UNCHANGED <<values, heap, file>>, FileIsCurrent PROVE FileIsCurrent'
    BY <2>1 DEF FileIsCurrent, Intact, Recoverable, Shown, Bound
  <2>2. ASSUME NEW c \in Callers, (\E b \in Batches : HBegin(c, b)) \/ HStep(c)
        PROVE  FALSE
    BY <2>0, <2>2 DEF HBegin, Begin, HStep, Get, UpdateApply, UpdateFail, CreateNil,
           InsertBegin, InsertEnd, NextItem, GoTo
  <2>3. ASSUME NEW c \in Callers, BackupCaller(c) \/ BackupStep(c) PROVE FALSE
    <3>1. pc[c] = "stored" /\ pc' = pc
      BY <2>0, <2>3, OnlyRanging
         DEF BackupCaller, BackupStep, SeekAndRange, Visit, Write, EndBackup, WhoBacksUp,
             vars, Actors
    <3> QED
      BY <3>1
  <2>4. ASSUME NEW c \in Callers, HReturn(c) PROVE FileIsCurrent'
    <3>1. bpc[c] = "over" /\ UNCHANGED <<values, heap, file>>
      BY <1>2, <2>4 DEF HReturn, Return, memVars, diskVars, TypesFit
    <3>2. AllEncodable
      BY <3>1 DEF AllEncodable, Encodable, BoundNames, Bound
    <3>3. Mirrors(BoundNames)
      BY <1>2, <3>1, <3>2 DEF LoneInv, SoleBackup, Actors
    <3> QED
      BY <2>1, <3>1, <3>3, MirrorIsCurrent
  <2>5. CASE Signal \/ UNCHANGED hybridVars
    <3>1. /\ UNCHANGED <<values, heap, file, up, pc>>
          /\ phase \in {"serving", "draining"}
      BY <2>5 DEF Signal, hybridVars, vars, diskVars
    <3>2. AllEncodable
      BY <3>1 DEF AllEncodable, Encodable, BoundNames, Bound
    <3> QED
      BY <1>2, <2>1, <3>1, <3>2 DEF ReturnedIsSaved
  <2>6. CASE MainStep
    <3>1. phase \notin {"serving", "draining"} \/ Close
      BY <2>0, <2>6 DEF MainStep, BackupStep, SeekAndRange, Visit, Write, EndBackup, Exit,
             WhoBacksUp
    <3>2. phase' = phase \/ phase' \notin {"serving", "draining"}
      BY <2>6 DEF MainStep, BackupStep, SeekAndRange, Visit, Write, EndBackup, Exit, Close
    <3> QED
      BY <3>1, <3>2 DEF Close
  <2>7. CASE Crash \/ Refuse
    BY <2>7 DEF Crash, Refuse
  <2>8. CASE Start
    BY <1>2, <2>8, StartIsCurrent DEF LoneInv
  <2> QED
    BY <1>2, <2>2, <2>3, <2>4, <2>5, <2>6, <2>7, <2>8 DEF HNext, CallerStep
<1>3. HybridInv /\ LoneInv /\ LoneInv' /\ TypesFit(kind) /\ ReturnedIsSaved /\ [HNext]_hybridVars
        => TypesFit(kind)' /\ ReturnedIsSaved'
  BY <1>2, FitNext
<1> QED
  BY <1>1, <1>3, LoneInvariant, PTL DEF HSpec
=============================================================================

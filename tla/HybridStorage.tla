--------------------------- MODULE HybridStorage ---------------------------
(***************************************************************************)
(* MemStorage with a backup file (storage/hybrid.go), from one start of    *)
(* the server process to the next.  A write that succeeds may be followed, *)
(* in its own goroutine and outside the mutex, by a backup of the whole    *)
(* map; main makes a last one when the server has stopped.  All of them    *)
(* truncate, seek and write one shared file: nothing keeps two backups, or *)
(* a backup and a write to the map, apart.                                 *)
(*                                                                         *)
(* The file is a sequence of cells.  A cell is a line as the encoder wrote *)
(* it, or torn: zero bytes where a write went beyond the end, or the rest  *)
(* of a line that another one overwrote in part.  Decoding what is torn is *)
(* an error, unless it begins with the bracket that ends a line: More then *)
(* says that there is nothing more to decode.                              *)
(*                                                                         *)
(* Batches are not empty: Updates with an empty list writes nothing, but   *)
(* calls backupCaller as any other write does.                             *)
(***************************************************************************)
EXTENDS MemStorage

CONSTANTS
    EveryTime,      \* storeInterval is 0: each write is followed by a backup
    Unencodable     \* the float64 values JSON has no text for: NaN, infinities

ASSUME UnencodableAssumption == Unencodable \subseteq Floats

VARIABLES
    phase,      \* "serving", "draining", "closing", "down" or "refused"
    file,       \* what the backup file holds
    offset,     \* its position, shared by all who write to it
    stored,     \* lastStored is no longer the zero time
    bpc,        \* where each backup is
    due,        \* the names its range over the map has still to visit
    visited,    \* the names it has visited
    line,       \* the line it is about to write
    \* history, read by no action
    saved       \* the names of the last backup that was completed

diskVars   == <<file, offset, stored>>
backupVars == <<bpc, due, visited, line>>
hybridVars == <<vars, phase, diskVars, backupVars, saved>>

Actors == Callers \cup {Main}
ASSUME ActorsAssumption == Readers = Actors

Garbage == [id |-> "garbage", value |-> Absent]
Bracket == [id |-> "bracket", value |-> Absent]
Torn    == {Garbage, Bracket}
NoLine  == [id |-> "none", value |-> Absent]

BoundNames == {n \in Names : Bound(n)}
Encodable(m) == m.val \notin Unencodable \/ m.type = "counter"

Moves(a, p) == bpc' = [bpc EXCEPT ![a] = p]

AllActors(x) == [a \in Actors |-> x]

(* The server has started on a file that an earlier one left, or on none. *)
HInit ==
    /\ file \in Snapshots
    /\ Loaded(file)
    /\ phase = "serving"
    /\ offset = Len(file)
    /\ stored = FALSE
    /\ bpc = AllActors("none") /\ line = AllActors(NoLine)
    /\ due = AllActors({}) /\ visited = AllActors({})
    /\ saved = BoundNames

-----------------------------------------------------------------------------
(* The steps of MemStorage up to the return of its call.  No connection is *)
(* accepted once a signal has come.  A request that begins after it on one *)
(* that was open counts as begun before it: the signal closes the listener *)
(* and starts the drain, which waits for both alike, and no request looks  *)
(* at either.                                                              *)
HBegin(c, b) ==
    /\ phase = "serving"
    /\ Begin(c, b)
    /\ UNCHANGED <<phase, diskVars, backupVars, saved>>

HStep(c) ==
    /\ \/ Get(c) \/ UpdateApply(c) \/ UpdateFail(c) \/ CreateNil(c)
       \/ InsertBegin(c) \/ InsertEnd(c) \/ NextItem(c)
    /\ UNCHANGED <<phase, diskVars, backupVars, saved>>

(* Mutated form of BackupCaller: the file is not truncated. *)
BackupOverOld(c) ==
    /\ up /\ pc[c] = "stored" /\ Len(todo[c]) = 1 /\ bpc[c] = "none"
    /\ Moves(c, "truncated")
    /\ UNCHANGED <<vars, phase, file, offset, stored, due, visited, line, saved>>

(* backupCaller: the last write of the call went through, and the interval  *)
(* has passed since the last backup.  Backup truncates the file first.  A   *)
(* call that failed does not come here.                                     *)
BackupCaller(c) ==
    /\ up /\ pc[c] = "stored" /\ Len(todo[c]) = 1 /\ bpc[c] = "none"
    /\ file' = <<>>
    /\ Moves(c, "truncated")
    /\ UNCHANGED <<vars, phase, offset, stored, due, visited, line, saved>>

(* Mutated form of HReturn: the interval counts from the start of the server. *)
ReturnUnsaved(c) ==
    /\ pc[c] = "failed" \/ bpc[c] \in {"none", "over"}
    /\ Return(c)
    /\ Moves(c, "none")
    /\ UNCHANGED <<phase, diskVars, due, visited, line, saved>>

(* The call returns: it failed, or its backup is over, or the interval has *)
(* not passed yet, which it always has for a zero lastStored.              *)
HReturn(c) ==
    /\ \/ pc[c] = "failed"
       \/ bpc[c] = "over"
       \/ bpc[c] = "none" /\ stored /\ ~EveryTime
    /\ Return(c)
    /\ Moves(c, "none")
    /\ UNCHANGED <<phase, diskVars, due, visited, line, saved>>

-----------------------------------------------------------------------------
(* Mutated form of SeekAndRange: no Seek. *)
RangeOnly(a) ==
    /\ bpc[a] = "truncated"
    /\ stored' = TRUE
    /\ StartRange(a)
    /\ due' = [due EXCEPT ![a] = BoundNames]
    /\ visited' = [visited EXCEPT ![a] = {}]
    /\ Moves(a, "ranging")
    /\ UNCHANGED <<phase, file, offset, line, saved>>

(* Backup goes on: Seek, lastStored, and a range over the live map begins. *)
SeekAndRange(a) ==
    /\ bpc[a] = "truncated"
    /\ offset' = 0
    /\ stored' = TRUE
    /\ StartRange(a)
    /\ due' = [due EXCEPT ![a] = BoundNames]
    /\ visited' = [visited EXCEPT ![a] = {}]
    /\ Moves(a, "ranging")
    /\ UNCHANGED <<phase, file, line, saved>>

(* Mutated form of Visit: the line is not filled before it is written. *)
VisitBlank(a, n) ==
    /\ up /\ bpc[a] = "ranging"
    /\ Bound(n) /\ n \notin visited[a]
    /\ visited' = [visited EXCEPT ![a] = @ \cup {n}]
    /\ Moves(a, "writing")
    /\ UNCHANGED <<vars, phase, diskVars, due, line, saved>>

(* The range yields a name, maybe one that was inserted after it began;     *)
(* GetValue reads the metric without the mutex.  A value JSON can not carry *)
(* makes Encode fail, and the backup ends there.                            *)
Visit(a, n) ==
    /\ up /\ bpc[a] = "ranging"
    /\ Bound(n) /\ n \notin visited[a]
    /\ visited' = [visited EXCEPT ![a] = @ \cup {n}]
    /\ IF Encodable(heap[values[n]])
       THEN /\ line' = [line EXCEPT ![a] = [id |-> n, value |-> heap[values[n]]]]
            /\ Moves(a, "writing")
            /\ UNCHANGED ranging
       ELSE /\ Moves(a, "over")
            /\ ranging' = ranging \ {a}
            /\ UNCHANGED line
    /\ UNCHANGED <<memVars, callVars, histVars, phase, diskVars, due, saved>>

(* One write at the shared offset.  Beyond the end it leaves a hole.  Over  *)
(* what another backup wrote it fits exactly, or leaves the rest of the old *)
(* line behind, or eats cells that follow, the last of them in part, as the *)
(* lengths of the lines have it.                                            *)
Overwritten(f, o, l) ==
    IF o >= Len(f)
    THEN { f \o [i \in 1 .. o - Len(f) |-> Garbage] \o <<l>> }
    ELSE UNION { { SubSeq(f, 1, o) \o <<l>> \o rest \o SubSeq(f, i, Len(f)) :
                     rest \in {<<>>, <<Garbage>>, <<Bracket>>} } :
                   i \in o + 2 .. Len(f) + 1 }

Write(a) ==
    /\ up /\ bpc[a] = "writing"
    /\ file' \in Overwritten(file, offset, line[a])
    /\ offset' = offset + 1
    /\ line' = [line EXCEPT ![a] = NoLine]
    /\ Moves(a, "ranging")
    /\ UNCHANGED <<vars, phase, stored, due, visited, saved>>

(* Mutated form of EndBackup: the range may end before its time. *)
EndBackupEarly(a) ==
    /\ bpc[a] = "ranging"
    /\ EndRange(a)
    /\ due' = [due EXCEPT ![a] = {}]
    /\ visited' = [visited EXCEPT ![a] = {}]
    /\ saved' = visited[a]
    /\ Moves(a, "over")
    /\ UNCHANGED <<phase, diskVars, line>>

(* The range is over: it has yielded every name that was there at its start. *)
EndBackup(a) ==
    /\ bpc[a] = "ranging" /\ due[a] \subseteq visited[a]
    /\ EndRange(a)
    /\ due' = [due EXCEPT ![a] = {}]
    /\ visited' = [visited EXCEPT ![a] = {}]
    /\ saved' = visited[a]
    /\ Moves(a, "over")
    /\ UNCHANGED <<phase, diskVars, line>>

-----------------------------------------------------------------------------
(* A signal: Shutdown (GracefulStop) closes the listener and waits for the *)
(* requests under way, without a deadline.                                 *)
Signal ==
    /\ up /\ phase = "serving"
    /\ phase' = "draining"
    /\ UNCHANGED <<vars, diskVars, backupVars, saved>>

(* Mutated form of Close: it does not wait for the requests under way. *)
CloseAtOnce ==
    /\ up /\ phase = "draining"
    /\ phase' = "closing"
    /\ file' = <<>>
    /\ Moves(Main, "truncated")
    /\ UNCHANGED <<vars, offset, stored, due, visited, line, saved>>

(* Shutdown has returned, and main's deferred Close makes a last backup. *)
Close ==
    /\ up /\ phase = "draining"
    /\ \A c \in Callers : pc[c] = "idle"
    /\ phase' = "closing"
    /\ file' = <<>>
    /\ Moves(Main, "truncated")
    /\ UNCHANGED <<vars, offset, stored, due, visited, line, saved>>

Exit ==
    /\ up /\ phase = "closing" /\ bpc[Main] = "over"
    /\ phase' = "down"
    /\ UNCHANGED <<vars, diskVars, backupVars, saved>>

(* The process is killed between two of its steps, or by the Go runtime     *)
(* (FatalMapRace): the memory is gone, the file stays as it is.             *)
Crash ==
    /\ up /\ phase \in {"serving", "draining", "closing"}
    /\ up' = FALSE
    /\ values' = [n \in Names |-> 0] /\ heap' = <<>> /\ mu' = NoCaller
    /\ pc' = [c \in Callers |-> "idle"]
    /\ todo' = [c \in Callers |-> <<>>]
    /\ ptr' = [c \in Callers |-> 0]
    /\ ranging' = {}
    /\ sum' = [n \in Names |-> 0] /\ creators' = [n \in Names |-> {}]
    /\ bpc' = AllActors("none") /\ line' = AllActors(NoLine)
    /\ due' = AllActors({}) /\ visited' = AllActors({})
    /\ offset' = 0 /\ stored' = FALSE
    /\ UNCHANGED <<phase, file, saved>>

Stopped == ~up \/ phase = "down"
Intact  == \A i \in DOMAIN file : file[i] \notin Torn

(* The lines before the first torn cell are k. *)
WholeLines(k) ==
    /\ \A i \in 1 .. k : file[i] \notin Torn
    /\ k < Len(file) => file[k + 1] \in Torn

(* Restore ends without an error after k lines. *)
Loads(k) == WholeLines(k) /\ (k < Len(file) => file[k + 1] = Bracket)

(* The server is started again: NewHybridStorage opens the file and Restore *)
(* inserts its lines in order, up to the end or to a bracket.  It serves    *)
(* only after that, and does not write to the file meanwhile, so the start  *)
(* is one step.                                                             *)
StartOn(lines) ==
    /\ values' \in [Names -> 0 .. Len(lines)]
    /\ \A n \in Names : LastLine(lines, n, values'[n])
    /\ heap' = [i \in DOMAIN lines |-> lines[i].value]
    /\ mu' = NoCaller /\ up' = TRUE
    /\ pc' = [c \in Callers |-> "idle"]
    /\ todo' = [c \in Callers |-> <<>>]
    /\ ptr' = [c \in Callers |-> 0]
    /\ ranging' = {}
    /\ sum' = [n \in Names |-> Starts(n)']
    /\ creators' = [n \in Names |-> IF Bound(n)' THEN {Main} ELSE {}]
    /\ phase' = "serving"
    /\ offset' \in Len(lines) .. Len(file) /\ stored' = FALSE
    /\ bpc' = AllActors("none") /\ line' = AllActors(NoLine)
    /\ due' = AllActors({}) /\ visited' = AllActors({})
    /\ saved' = {n \in Names : Bound(n)'}
    /\ UNCHANGED file

Start ==
    /\ Stopped /\ phase # "refused"
    /\ \E k \in 0 .. Len(file) : Loads(k) /\ StartOn(SubSeq(file, 1, k))

(* Restore can not decode the file: the server does not start. *)
Refuse ==
    /\ Stopped /\ phase # "refused"
    /\ \A k \in 0 .. Len(file) : ~Loads(k)
    /\ phase' = "refused"
    /\ UNCHANGED <<vars, diskVars, backupVars, saved>>

-----------------------------------------------------------------------------
BackupStep(a) ==
    \/ SeekAndRange(a)
    \/ \E n \in Names : Visit(a, n)
    \/ Write(a)
    \/ EndBackup(a)

CallerStep(c) == HStep(c) \/ BackupCaller(c) \/ HReturn(c) \/ BackupStep(c)
MainStep == Close \/ BackupStep(Main) \/ Exit

HNext ==
    \/ \E c \in Callers : (\E b \in Batches : HBegin(c, b)) \/ CallerStep(c)
    \/ Signal \/ MainStep \/ Crash
    \/ Start \/ Refuse

HSpec == HInit /\ [][HNext]_hybridVars

(* Goroutines that can run are run.  Nothing makes a signal, a crash or a *)
(* start happen.                                                          *)
HFairness ==
    /\ \A c \in Callers : WF_hybridVars(CallerStep(c))
    /\ WF_hybridVars(MainStep)
HFairSpec == HSpec /\ HFairness

-----------------------------------------------------------------------------
Cells == Line \cup Torn

(* The types of the backup's state. *)
HTypeOK ==
    /\ phase \in {"serving", "draining", "closing", "down", "refused"}
    /\ file \in Seq(Cells)
    /\ offset \in Nat
    /\ stored \in BOOLEAN
    /\ bpc \in [Actors -> {"none", "truncated", "ranging", "writing", "over"}]
    /\ due \in [Actors -> SUBSET Names]
    /\ visited \in [Actors -> SUBSET Names]
    /\ line \in [Actors -> Line \cup {NoLine}]
    /\ \A a \in Actors : bpc[a] = "writing" => line[a] \in Line

(* What Restore makes of an intact file: each name's last line. *)
Recoverable(n) == LET i == CHOOSE i \in 0 .. Len(file) : LastLine(file, n, i)
                  IN  IF i = 0 THEN Absent ELSE file[i].value

FileIsCurrent == Intact /\ \A n \in Names : Recoverable(n) = Shown[n]

AllEncodable == \A n \in BoundNames : Encodable(heap[values[n]])

(* After a clean exit the file holds exactly what the memory held, though   *)
(* concurrent backups may have torn it before: the last backup runs alone   *)
(* and starts from an empty file.  Only a value JSON can not carry spoils   *)
(* it.                                                                      *)
CleanExitSavesEverything ==
    phase = "down" /\ up /\ AllEncodable => FileIsCurrent

(* The next start after a clean exit is never refused, and serves the       *)
(* metrics the last process ended with.                                     *)
CleanRestartLosesNothing ==
    [][phase = "down" /\ up /\ AllEncodable /\ phase' # "down"
         => phase' = "serving" /\ Shown' = Shown]_hybridVars

(* With one request at a time and no interval, a call that has returned is  *)
(* in the file.                                                             *)
ReturnedIsSaved ==
    EveryTime /\ up /\ phase \in {"serving", "draining"}
        /\ AllEncodable /\ (\A c \in Callers : pc[c] = "idle")
            => FileIsCurrent

(* With one request at a time no stop, clean or not, leaves a file that     *)
(* makes the next server refuse to start or stop reading half-way: what a   *)
(* crash cuts short is a prefix of whole lines.                             *)
StartsReadAll == phase # "refused" /\ (Stopped => Intact)

(* With one request at a time a backup that is cut short may forget a name, *)
(* but holds no value that is not the current one: after a crash in it the  *)
(* server is never told a value it did not have at the end.                 *)
BackupHoldsNoOldValue ==
    \A c \in Callers :
        bpc[c] # "none" =>
            \A n \in Names : Recoverable(n) \in {Absent, Shown[n]}

(* A server that is told to stop stops, after a backup, or crashes. *)
SignalledStops ==
    phase = "draining" /\ up ~> phase = "down" \/ ~up

(* What the flag -r promises ("restore data on server start"), for a server  *)
(* that was killed: the names of the last completed backup are restored.     *)
RestartFindsSavedNames ==
    [][~up /\ up' => \A n \in saved : Bound(n)']_hybridVars

(* What Close announces ("make final backup before shutdown"): after a clean *)
(* exit the file holds every metric of the memory whose own value JSON has a *)
(* text for, whatever the values of the others.                              *)
FinalBackupIsWhole ==
    phase = "down" /\ up =>
        /\ Intact
        /\ \A n \in BoundNames :
               Encodable(heap[values[n]]) => Recoverable(n) = Shown[n]
=============================================================================

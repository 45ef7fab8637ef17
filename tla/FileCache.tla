------------------------------ MODULE FileCache ------------------------------
(***************************************************************************)
(* Static files: file.h, the per worker copies of file_cache.v, and        *)
(* send_file of file.v with the stream the engine runs after it.  The      *)
(* files are written by another process between any two system calls.      *)
(***************************************************************************)
EXTENDS Integers, Sequences, FiniteSets, FiniteSetsExt

CONSTANTS
    Paths,
    Sizes,      \* of files
    InlineMax,  \* file_inline_max
    CacheMax,   \* file_cache_max
    MaxWritten, \* bound: changes on disk
    MaxRequests \* bound: requests

ASSUME FileAssumption ==
    /\ Sizes \subseteq Nat
    /\ {InlineMax, CacheMax, MaxWritten, MaxRequests} \subseteq Nat

VARIABLES
    knows_ino,  \* the platform has inodes and ctime (not Windows)
    inodes,     \* every file there was: kind, size, mtime and ctime, which names its content
    disk,       \* the inode of each path, 0 when there is none
    ctime,      \* the last change
    fcache,     \* the copies: what stat said of the file, the content read, data.cap
    fcache_idx, \* by path: the slot, or 0
    fcache_bytes,
    fpc,        \* where the handler is
    path,       \* of its request
    info,       \* finfo[0]
    fd,         \* the handler's open file: its inode, 0 for -1
    got,        \* the content its reads have given
    answer,     \* the last response: status, length promised, content sent
    stream,     \* the connection's file_fd (its inode, 0 for -1), file_off and file_left
    misclosed,  \* something not open was closed, or an open file forgotten
    requests    \* bound

diskFiles == <<knows_ino, inodes, disk, ctime>>
cacheVars == <<fcache, fcache_idx, fcache_bytes>>
fileVars == <<diskFiles, cacheVars, fpc, path, info, fd, got, answer, stream, misclosed, requests>>

\* st_mode: a regular file, a directory, anything else.
Regular == 1
Directory == 2
Kinds == {0, Regular, Directory}
NoInfo == [kind |-> 0, size |-> 0, mtime |-> 0, ino |-> -1, ctime |-> 0]
NoAnswer == [status |-> 0, length |-> 0, sent |-> <<>>, broken |-> FALSE]
NoStream == [fd |-> 0, off |-> 0, left |-> 0]

\* viltrum_file_describe: a time before 1970 becomes 0, and Windows has neither
\* inode nor ctime.
describe(i) ==
    LET f == inodes[i]
    IN  [kind |-> f.kind, size |-> f.size, mtime |-> IF f.mtime < 0 THEN 0 ELSE f.mtime,
         ino |-> IF knows_ino THEN i ELSE -1, ctime |-> IF knows_ino THEN f.ctime ELSE 0]

FileInit ==
    /\ knows_ino \in BOOLEAN
    /\ \E s \in Sizes :
           inodes = [i \in 1..Cardinality(Paths) |-> [kind |-> Regular, size |-> s, mtime |-> 0, ctime |-> i]]
    /\ disk = CHOOSE d \in [Paths -> 1..Cardinality(Paths)] : IsInjective(d)
    /\ ctime = Cardinality(Paths)
    /\ fcache = <<>> /\ fcache_idx = [p \in Paths |-> 0] /\ fcache_bytes = 0
    /\ fpc = "idle" /\ path = CHOOSE p \in Paths : TRUE
    /\ info = NoInfo /\ fd = 0 /\ got = <<>>
    /\ answer = NoAnswer /\ stream = NoStream /\ misclosed = FALSE
    /\ requests = 0

-----------------------------------------------------------------------------
(* The other process (external).  mtime may be set to anything, ctime only *)
(* moves on.                                                               *)

Files == [kind : {Regular}, size : Sizes, mtime : {-1, 0}, ctime : {ctime + 1}]
Others == [kind : Kinds \ {Regular}, size : {0}, mtime : {0}, ctime : {ctime + 1}]

Touch ==
    /\ ctime < Cardinality(Paths) + MaxWritten
    /\ ctime' = ctime + 1
    /\ UNCHANGED <<knows_ino, cacheVars, fpc, path, info, fd, got, answer, stream, misclosed, requests>>

\* In place, which whoever has the file open sees.
Rewrite(p) ==
    /\ Touch
    /\ disk[p] # 0
    /\ inodes[disk[p]].kind = Regular /\ \E f \in Files : inodes' = [inodes EXCEPT ![disk[p]] = f]
    /\ UNCHANGED disk

\* A rename onto the path, or a removal.
Replace(p) ==
    /\ Touch
    /\ \/ /\ \E f \in Files \cup Others : inodes' = Append(inodes, f)
          /\ disk' = [disk EXCEPT ![p] = Len(inodes')]
       \/ /\ disk[p] # 0
          /\ disk' = [disk EXCEPT ![p] = 0]
          /\ UNCHANGED inodes

-----------------------------------------------------------------------------
(* The handler.                                                            *)

\* stat_pbuf, and the 404 for what is no regular file.
StatPath(p) ==
    /\ fpc = "idle" /\ stream = NoStream /\ requests < MaxRequests
    /\ path' = p /\ requests' = requests + 1
    /\ LET i == IF disk[p] = 0 THEN NoInfo ELSE describe(disk[p])
       IN  IF i.kind = Regular THEN fpc' = "load" /\ info' = i /\ answer' = NoAnswer
           ELSE fpc' = "idle" /\ info' = NoInfo /\ answer' = [NoAnswer EXCEPT !.status = 404]
    /\ UNCHANGED <<diskFiles, cacheVars, fd, got, stream, misclosed>>

\* file(): the same, for a file that is opened at once and never cached.
OpenPath(p) ==
    /\ fpc = "idle" /\ stream = NoStream /\ requests < MaxRequests
    /\ path' = p /\ requests' = requests + 1
    /\ LET i == IF disk[p] = 0 THEN NoInfo ELSE describe(disk[p])
       IN  IF i.kind = Regular THEN fpc' = "send" /\ info' = i /\ fd' = disk[p] /\ answer' = NoAnswer
           ELSE /\ fpc' = "idle" /\ info' = NoInfo /\ fd' = 0
                /\ answer' = [NoAnswer EXCEPT !.status = 404]
    /\ UNCHANGED <<diskFiles, cacheVars, got, stream, misclosed>>


same_file(a, b) ==
    /\ a.kind = Regular
    /\ a.size = b.size /\ a.mtime = b.mtime /\ a.ino = b.ino /\ a.ctime = b.ctime

Slot == fcache_idx[path]
Hit == Slot > 0 /\ info.ino >= 0 /\ same_file(fcache[Slot].info, info)

\* load_pbuf up to the open.  viltrum_file_open opens and describes; it closes
\* a directory itself, load_pbuf what is neither that nor a regular file.
Load ==
    /\ fpc = "load"
    /\ \/ /\ Hit
          /\ fpc' = "send" /\ fd' = 0
          /\ UNCHANGED <<info, answer>>
       \/ /\ ~Hit
          /\ LET i == IF disk[path] = 0 THEN NoInfo ELSE describe(disk[path])
             IN  \/ /\ i.kind # Regular
                    /\ fpc' = "idle" /\ info' = i /\ fd' = 0
                    /\ answer' = [NoAnswer EXCEPT !.status = 404]
                 \/ /\ i.kind = Regular
                    /\ fd' = disk[path] /\ info' = i
                    /\ fpc' = IF i.ino < 0 \/ i.size > InlineMax THEN "send" ELSE "cache"
                    /\ UNCHANGED answer
    /\ UNCHANGED <<diskFiles, cacheVars, path, got, stream, misclosed, requests>>

OldCap == IF Slot > 0 THEN fcache[Slot].cap ELSE 0

OverBudget(size) == size > OldCap /\ fcache_bytes + size - OldCap > CacheMax

\* cache_fd up to the read: the budget, the slot, its buffer.
CacheRoom ==
    /\ fpc = "cache"
    /\ \/ /\ OverBudget(info.size)
          /\ fpc' = "send"
          /\ UNCHANGED cacheVars
       \/ /\ ~OverBudget(info.size)
          /\ LET s   == IF Slot > 0 THEN Slot ELSE Len(fcache) + 1
                 cap == IF OldCap < info.size THEN info.size ELSE OldCap
             IN  /\ fcache' = IF Slot > 0 THEN [fcache EXCEPT ![s].cap = cap]
                              ELSE Append(fcache, [info |-> NoInfo, data |-> <<>>, cap |-> cap])
                 /\ fcache_idx' = [fcache_idx EXCEPT ![path] = s]
                 /\ fcache_bytes' = fcache_bytes + cap - OldCap
          /\ fpc' = "read"
    /\ UNCHANGED <<diskFiles, path, info, fd, got, answer, stream, misclosed, requests>>

\* One unit of read_at; the content of a unit is named by the ctime it has.
ReadUnit == got' = Append(got, inodes[fd].ctime)
AtEnd == Len(got) >= inodes[fd].size

CacheRead ==
    /\ fpc = "read" /\ Len(got) < info.size /\ ~AtEnd
    /\ ReadUnit
    /\ UNCHANGED <<diskFiles, cacheVars, fpc, path, info, fd, answer, stream, misclosed, requests>>

\* viltrum_file_close of the handler's file.
CloseFile == fd' = 0 /\ misclosed' = (misclosed \/ fd = 0)

\* The end of cache_fd: the copy is whole, or the file has shrunk.
CacheEnd ==
    /\ fpc = "read"
    /\ fpc' = "send" /\ got' = <<>>
    /\ \/ /\ Len(got) = info.size
          /\ fcache' = [fcache EXCEPT ![Slot].info = info, ![Slot].data = got]
          /\ CloseFile
       \/ /\ Len(got) < info.size /\ AtEnd
          /\ fcache' = [fcache EXCEPT ![Slot].info.kind = 0, ![Slot].data = got]
          /\ UNCHANGED <<fd, misclosed>>
    /\ UNCHANGED <<diskFiles, fcache_idx, fcache_bytes, path, info, answer, stream, requests>>

\* Status, offset and length of the answers send_file gives: the file, one of its
\* ranges, and those without content.
Full == [status |-> 200, off |-> 0, n |-> info.size, body |-> TRUE]
Ranges == {[status |-> 206, off |-> o, n |-> k, body |-> TRUE] :
               o \in 0..(info.size - 1), k \in 1..info.size}
Bodiless == {[status |-> 304, off |-> 0, n |-> 0, body |-> FALSE],
             [status |-> 416, off |-> 0, n |-> 0, body |-> FALSE],
             [Full EXCEPT !.body = FALSE]}
Answers == {Full} \cup Bodiless \cup {a \in Ranges : a.off + a.n <= info.size}

\* Mutant of CloseIfOpen: an answer without content forgets the file.
CloseNever == UNCHANGED <<fd, misclosed>>

\* close_fd: an answer from the cache has none.
CloseIfOpen == IF fd = 0 THEN UNCHANGED <<fd, misclosed>> ELSE CloseFile

\* send_file.  A short answer is read or copied behind its head; a long one is
\* left to the engine, with the open file.
SendFile ==
    /\ fpc = "send"
    /\ \E a \in Answers :
           /\ answer' = [NoAnswer EXCEPT !.status = a.status, !.length = IF a.body THEN a.n ELSE 0,
                                         !.sent = IF a.body /\ fd = 0 /\ a.n <= InlineMax
                                                  THEN SubSeq(fcache[Slot].data, a.off + 1, a.off + a.n)
                                                  ELSE <<>>]
           /\ \/ /\ ~a.body \/ a.n = 0
                 /\ CloseIfOpen
                 /\ fpc' = "idle"
                 /\ UNCHANGED stream
              \/ /\ a.body /\ a.n > InlineMax
                 /\ stream' = [fd |-> fd, off |-> a.off, left |-> a.n]
                 /\ fd' = 0 /\ misclosed' = (misclosed \/ fd = 0)
                 /\ fpc' = "idle"
              \/ /\ a.body /\ a.n \in 1..InlineMax
                 /\ fpc' = IF fd = 0 THEN "idle" ELSE "inline"
                 /\ stream' = IF fd = 0 THEN NoStream ELSE [fd |-> 0, off |-> a.off, left |-> a.n]
                 /\ UNCHANGED <<fd, misclosed>>
    /\ UNCHANGED <<diskFiles, cacheVars, path, info, got, requests>>

\* A unit of the answer's content from inode i at stream.off.
MoreAt(i) == stream.off < inodes[i].size
Advance == [stream EXCEPT !.off = @ + 1, !.left = @ - 1]
Sent(i) == [answer EXCEPT !.sent = Append(@, inodes[i].ctime)]

\* Mutant of WholeOrNot: what was read is the answer.
AsRead == answer

\* The answer, taken back when the file has shrunk since its length was promised.
WholeOrNot == IF stream.left = 0 THEN answer ELSE [NoAnswer EXCEPT !.status = 500, !.broken = TRUE]

\* read_at behind the head, up to the end of the answer or of the file.
SendInline ==
    /\ fpc = "inline"
    /\ \/ /\ stream.left > 0 /\ MoreAt(fd)
          /\ answer' = Sent(fd) /\ stream' = Advance
          /\ UNCHANGED <<fpc, fd, misclosed>>
       \/ /\ stream.left = 0 \/ ~MoreAt(fd)
          /\ CloseFile
          /\ answer' = WholeOrNot
          /\ stream' = NoStream
          /\ fpc' = "idle"
    /\ UNCHANGED <<diskFiles, cacheVars, path, info, got, requests>>

\* The engine's send_file, inline_file and end_file: the rest of the file, as
\* far as it goes.
StreamFile ==
    /\ fpc = "idle" /\ stream.fd # 0
    /\ \/ /\ stream.left > 0 /\ MoreAt(stream.fd)
          /\ answer' = Sent(stream.fd) /\ stream' = Advance
       \/ /\ stream.left = 0 \/ ~MoreAt(stream.fd)
          /\ answer' = [answer EXCEPT !.broken = stream.left > 0]
          /\ stream' = NoStream
    /\ UNCHANGED <<diskFiles, cacheVars, fpc, path, info, fd, got, misclosed, requests>>

\* The connection closes in the middle of it.
StreamDropped ==
    /\ fpc = "idle" /\ stream.fd # 0
    /\ answer' = [answer EXCEPT !.broken = TRUE]
    /\ stream' = NoStream
    /\ UNCHANGED <<diskFiles, cacheVars, fpc, path, info, fd, got, misclosed, requests>>

FileNext ==
    \/ \E p \in Paths : Rewrite(p) \/ Replace(p) \/ StatPath(p) \/ OpenPath(p)
    \/ Load \/ CacheRoom \/ CacheRead \/ CacheEnd \/ SendFile \/ SendInline
    \/ StreamFile \/ StreamDropped
FileSpec == FileInit /\ [][FileNext]_fileVars

-----------------------------------------------------------------------------
\* Every file opened is closed once, by the handler or by the engine that took
\* it over: none is open between requests, and a copy's answer closes nothing
\* (load_pbuf, cache_fd, send_file, end_file).
FdsBalanced ==
    /\ ~misclosed
    /\ fpc = "idle" => fd = 0
    /\ fpc \in {"cache", "read", "inline"} => fd # 0

\* A copy that stat would let through is what the file holds now: a write during
\* or after the read that made it, a file that came in its place, or a clock set
\* back never leaves old content to be served (same_file, cache_fd).
CopiesCurrent ==
    \A p \in Paths :
        LET e == fcache[fcache_idx[p]]
        IN  (fcache_idx[p] > 0 /\ disk[p] > 0 /\ knows_ino /\ same_file(e.info, describe(disk[p]))) =>
                e.data = [k \in 1..inodes[disk[p]].size |-> inodes[disk[p]].ctime]

\* The copies stay within file_cache_max, and fcache_bytes is what they take.
WithinBudget ==
    /\ fcache_bytes <= CacheMax
    /\ fcache_bytes = MapThenSumSet(LAMBDA k : fcache[k].cap, DOMAIN fcache)


\* A response that is over has all the content its head promised, or the
\* connection closes.
PromiseKept ==
    (fpc = "idle" /\ stream = NoStream /\ ~answer.broken) => Len(answer.sent) = answer.length
=============================================================================

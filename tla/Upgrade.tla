------------------------------ MODULE Upgrade ------------------------------
(***************************************************************************)
(* The self-updating client of upgrade/: the server serves the newest      *)
(* version of a program from its directory, piece by piece; the client     *)
(* asks for the version, fetches the file into name.new, then the program  *)
(* update, and exits; update deletes the old program, moves name.new into  *)
(* its place and starts it.                                                *)
(*                                                                         *)
(* A file is the function that gives for each of its pieces of 32 KB the   *)
(* version it comes from, NoFile if it does not exist.  A version is a     *)
(* file name.v<n> that never changes once it is complete.                  *)
(***************************************************************************)
EXTENDS Integers, FiniteSets

CONSTANTS
  Versions,    \* versions of the program
  Size,        \* for each version the number of its pieces
  MaxErrors,   \* bound: failing calls, writes, moves and starts
  MaxCrashes,  \* bound: crashes and stops of the client's program or machine
  MaxRemoved   \* bound: versions that are deleted on the server

ASSUME VersionsAssumption == Versions \subseteq Nat \ {0} /\ Size \in [Versions -> Nat \ {0}]

VARIABLES
  stored,   \* server: pieces of each version in the directory, 0 if there is no such file
  verMap,   \* server: verMap[name], 0 if there is none
  removed,  \* server: the versions that were deleted
  early,    \* versions that were read before their file was complete
  running,  \* client: clientVersion of the running program, 0 if none runs
  clientpc, \* client: what its goroutine does next
  newVer,   \* client: newVer
  info,     \* client: Version and Total of the first piece
  fileBuf,  \* client: the buffer of getRemoteFile
  fileIdx,  \* client: pieces that are in it
  bin,      \* the program
  new,      \* the program .new
  updater,  \* what the program update does next, "none" if it does not run
  faults, crashes

upServer == <<stored, verMap, removed, early>>
upClient == <<running, clientpc, newVer, info, fileBuf, fileIdx>>
upDisk == <<bin, new>>
upCounts == <<faults, crashes>>
upVars == <<upServer, upClient, upDisk, updater, upCounts>>

NoFile == [i \in {} |-> i]
Image(v, n) == [i \in 1 .. n |-> v]

\* The client runs some version; the server has none yet.
UpInit ==
  /\ stored = [v \in Versions |-> 0] /\ verMap = 0 /\ removed = {} /\ early = {}
  /\ running \in Versions /\ clientpc = "ask" /\ newVer = 0
  /\ info = [ver |-> 0, total |-> 0] /\ fileBuf = NoFile /\ fileIdx = 0
  /\ bin = Image(running, Size[running]) /\ new = NoFile
  /\ updater = "none" /\ faults = 0 /\ crashes = 0

-----------------------------------------------------------------------------
(* The server.  Its files come and go by hand. *)

Publish(v) ==
  /\ stored[v] < Size[v] /\ v \notin removed
  /\ stored' = [stored EXCEPT ![v] = Size[v]]
  /\ UNCHANGED <<verMap, removed, early, upClient, upDisk, updater, upCounts>>

\* A slow copy.
Copy(v) ==
  /\ stored[v] < Size[v] /\ v \notin removed
  /\ stored' = [stored EXCEPT ![v] = @ + 1]
  /\ UNCHANGED <<verMap, removed, early, upClient, upDisk, updater, upCounts>>

Withdraw(v) ==
  /\ stored[v] > 0 /\ Cardinality(removed) < MaxRemoved
  /\ stored' = [stored EXCEPT ![v] = 0] /\ removed' = removed \cup {v}
  /\ UNCHANGED <<verMap, early, upClient, upDisk, updater, upCounts>>

\* One round of versionMoniter: the highest version in the directory.
versionMoniter ==
  /\ verMap' \in {v \in Versions : stored[v] > 0 /\ \A u \in Versions : stored[u] > 0 => u <= v}
                 \cup (IF \A v \in Versions : stored[v] = 0 THEN {0} ELSE {})
  /\ UNCHANGED <<stored, removed, early, upClient, upDisk, updater, upCounts>>

\* UpdateFile finds a piece at index i in the file of verMap; there is no file without a version.
Served(i) == verMap # 0 /\ i < stored[verMap]

\* ret.Version and ret.Total, and the note that the file was not complete.
Reads == early' = early \cup (IF stored[verMap] < Size[verMap] THEN {verMap} ELSE {})

-----------------------------------------------------------------------------
(* The client.  A call either gets its answer or fails; a failed call and  *)
(* an answer with an error end in the same lines.                          *)

Fails == faults < MaxErrors /\ faults' = faults + 1 /\ UNCHANGED crashes

\* Mutant: any other version is fetched.
AskVersionDiffers ==
  /\ running # 0 /\ clientpc = "ask"
  /\ newVer' = verMap /\ clientpc' = (IF verMap # running THEN "first" ELSE "ask")
  /\ UNCHANGED <<upServer, running, info, fileBuf, fileIdx, upDisk, updater, upCounts>>

\* GetLastedVersion; a call that fails leaves newVer = clientVersion.
AskVersion ==
  /\ running # 0 /\ clientpc = "ask"
  /\ newVer' = verMap /\ clientpc' = (IF verMap > running THEN "first" ELSE "ask")
  /\ UNCHANGED <<upServer, running, info, fileBuf, fileIdx, upDisk, updater, upCounts>>

\* Mutant: the goroutine ends with the first failure.
GiveUpForGood == clientpc' = "ended" /\ UNCHANGED <<running, newVer, info, fileBuf, fileIdx>>

\* return nil: the goroutine sleeps and asks again.
GiveUp == clientpc' = "ask" /\ UNCHANGED <<running, newVer, info, fileBuf, fileIdx>>

\* The first call of getRemoteFile.
FirstPiece ==
  /\ clientpc = "first"
  /\ \/ /\ Served(0) /\ Reads
        /\ info' = [ver |-> verMap, total |-> stored[verMap]]
        /\ fileBuf' = [i \in 1 .. stored[verMap] |-> IF i = 1 THEN verMap ELSE 0]
        /\ fileIdx' = 1 /\ clientpc' = "more"
        /\ UNCHANGED <<stored, verMap, removed, running, newVer, upCounts>>
     \/ ~Served(0) /\ GiveUp /\ UNCHANGED <<upServer, upCounts>>
     \/ Fails /\ GiveUp /\ UNCHANGED upServer
  /\ UNCHANGED <<upDisk, updater>>

\* Mutant: the answer's version and size are not compared with the first one's.
NextPieceTrusts ==
  /\ clientpc = "more" /\ fileIdx < info.total
  /\ \/ /\ Served(fileIdx) /\ Reads
        /\ fileBuf' = [fileBuf EXCEPT ![fileIdx + 1] = verMap] /\ fileIdx' = fileIdx + 1
        /\ UNCHANGED <<stored, verMap, removed, running, clientpc, newVer, info, upCounts>>
     \/ ~Served(fileIdx) /\ GiveUp /\ UNCHANGED <<upServer, upCounts>>
  /\ UNCHANGED <<upDisk, updater>>

\* Its loop, while fileIdx < info.Total.
NextPiece ==
  /\ clientpc = "more" /\ fileIdx < info.total
  /\ \/ /\ Served(fileIdx) /\ verMap = info.ver /\ stored[verMap] = info.total /\ Reads
        /\ fileBuf' = [fileBuf EXCEPT ![fileIdx + 1] = verMap] /\ fileIdx' = fileIdx + 1
        /\ UNCHANGED <<stored, verMap, removed, running, clientpc, newVer, info, upCounts>>
     \/ /\ ~(Served(fileIdx) /\ verMap = info.ver /\ stored[verMap] = info.total)
        /\ GiveUp /\ UNCHANGED <<upServer, upCounts>>
     \/ Fails /\ GiveUp /\ UNCHANGED upServer
  /\ UNCHANGED <<upDisk, updater>>

\* FileCreateAndWrite(name.new): the file is truncated...
CreateNew ==
  /\ clientpc = "more" /\ fileIdx = info.total
  /\ new' = NoFile /\ clientpc' = "write"
  /\ UNCHANGED <<upServer, running, newVer, info, fileBuf, fileIdx, bin, updater, upCounts>>

\* ...and written, or a part of it is.
WriteNew ==
  /\ clientpc = "write"
  /\ \/ new' = fileBuf /\ clientpc' = "update" /\ UNCHANGED <<running, newVer, info, fileBuf, fileIdx, upCounts>>
     \/ /\ Fails /\ GiveUp
        /\ \E n \in 0 .. info.total - 1 : new' = [i \in 1 .. n |-> fileBuf[i]]
  /\ UNCHANGED <<upServer, bin, updater>>

\* getRemoteFile("update") and the file update, which has no versions.
FetchUpdate ==
  /\ clientpc = "update"
  /\ \/ clientpc' = "exit" /\ UNCHANGED <<running, newVer, info, fileBuf, fileIdx, upCounts>>
     \/ Fails /\ GiveUp
  /\ UNCHANGED <<upServer, upDisk, updater>>

\* WaitStopSignal gets the command: stop, exe(cmd).
ExitAndUpdate ==
  /\ clientpc = "exit"
  /\ running' = 0 /\ clientpc' = "ask"
  /\ \/ updater' = "check" /\ UNCHANGED upCounts
     \/ Fails /\ UNCHANGED updater
  /\ UNCHANGED <<upServer, newVer, info, fileBuf, fileIdx, upDisk>>

\* A signal, or a crash.  Both may come at any moment.
Crash ==
  /\ crashes < MaxCrashes /\ crashes' = crashes + 1
  /\ running # 0 \/ updater # "none"
  /\ running' = 0 /\ clientpc' = "ask" /\ updater' = "none"
  /\ UNCHANGED <<upServer, newVer, info, fileBuf, fileIdx, upDisk, faults>>

\* Somebody starts the program, which is not done while update runs.
Start ==
  /\ running = 0 /\ updater = "none" /\ bin # NoFile
  /\ running' = bin[1]
  /\ UNCHANGED <<upServer, clientpc, newVer, info, fileBuf, fileIdx, upDisk, updater, upCounts>>

-----------------------------------------------------------------------------
(* The program update *)

UpdateCheck ==
  /\ updater = "check"
  /\ updater' = IF new # NoFile THEN "delete" ELSE "none"
  /\ UNCHANGED <<upServer, upClient, upDisk, upCounts>>

\* FileDelete fails if there is nothing to delete.
UpdateDelete ==
  /\ updater = "delete"
  /\ \/ bin # NoFile /\ bin' = NoFile /\ updater' = "move" /\ UNCHANGED upCounts
     \/ bin = NoFile /\ updater' = "none" /\ UNCHANGED <<bin, upCounts>>
     \/ Fails /\ updater' = "none" /\ UNCHANGED bin
  /\ UNCHANGED <<upServer, upClient, new>>

UpdateMove ==
  /\ updater = "move"
  /\ \/ bin' = new /\ new' = NoFile /\ updater' = "exe" /\ UNCHANGED upCounts
     \/ Fails /\ updater' = "none" /\ UNCHANGED <<bin, new>>
  /\ UNCHANGED <<upServer, upClient>>

UpdateExe ==
  /\ updater = "exe" /\ updater' = "none"
  /\ \/ running' = bin[1] /\ UNCHANGED upCounts
     \/ Fails /\ UNCHANGED running
  /\ UNCHANGED <<upServer, clientpc, newVer, info, fileBuf, fileIdx, upDisk>>

UpNext ==
  \/ \E v \in Versions : Publish(v) \/ Copy(v) \/ Withdraw(v)
  \/ versionMoniter
  \/ AskVersion \/ FirstPiece \/ NextPiece \/ CreateNew \/ WriteNew \/ FetchUpdate \/ ExitAndUpdate
  \/ Crash \/ Start
  \/ UpdateCheck \/ UpdateDelete \/ UpdateMove \/ UpdateExe

UpSpec == UpInit /\ [][UpNext]_upVars

\* The server scans, the client and update run, and a program that is down is started again.
UpFair ==
  /\ WF_upVars(versionMoniter) /\ WF_upVars(AskVersion) /\ WF_upVars(FirstPiece) /\ WF_upVars(NextPiece)
  /\ WF_upVars(CreateNew) /\ WF_upVars(WriteNew) /\ WF_upVars(FetchUpdate) /\ WF_upVars(ExitAndUpdate)
  /\ WF_upVars(Start) /\ WF_upVars(UpdateCheck \/ UpdateDelete \/ UpdateMove \/ UpdateExe)

-----------------------------------------------------------------------------
(* Properties *)

\* Every variable has its type; the server never holds more pieces of a version than it has.
UpTypeOK ==
  /\ stored \in [Versions -> Nat] /\ \A v \in Versions : stored[v] <= Size[v]
  /\ verMap \in Versions \cup {0} /\ removed \subseteq Versions /\ early \subseteq Versions
  /\ running \in Versions \cup {0} /\ newVer \in Versions \cup {0}
  /\ clientpc \in {"ask", "first", "more", "write", "update", "exit"}
  /\ info \in [ver : Versions \cup {0}, total : Nat] /\ fileIdx \in Nat
  /\ updater \in {"none", "check", "delete", "move", "exe"}
  /\ faults \in Nat /\ crashes \in Nat

\* A file that can be run: all pieces of one version, fewer only if the version is in e, those that the
\* server gave away while their files were still being copied.
Runs(f, e) == \E v \in Versions : \E n \in 1 .. Size[v] : f = Image(v, n) /\ (n = Size[v] \/ v \in e)

\* Whatever call, write, move or machine fails and whenever the server changes its files, there is a
\* program to go back to: the program is one whole version, or it is missing, and then the .new beside it
\* is one whole version (getRemoteFile's comparisons, and the order of FileDelete and FileMove in Update).
ProgramKept == Runs(bin, early) \/ (bin = NoFile /\ Runs(new, early))

\* An update installs a higher version, unless one was taken back: getRemoteFile asks for the file after
\* GetLastedVersion has answered, and does not look at its version again.
NeverDowngrade == removed = {} /\ updater \in {"check", "delete"} /\ bin # NoFile => new[1] > bin[1]

Newest(v) == stored[v] = Size[v] /\ \A u \in Versions : stored[u] > 0 => u <= v

\* When the server's newest version stays, the client comes to run it or a higher one, whatever failed on the
\* way, unless the program itself was lost between FileDelete and FileMove (StartClient's retries).
Converges == \A v \in Versions : <>[]Newest(v) => <>[](running >= v \/ bin = NoFile)
============================================================================

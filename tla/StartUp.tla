-------------------------------- MODULE StartUp --------------------------------
(***************************************************************************)
(* Kernel::Initialize (server/Kernel.cpp) from the start of the server     *)
(* process to its accept loop, and its next starts on the file that is     *)
(* then there: BufferManager::Initialize (BufferList), Disk::initialize,   *)
(* which formats myDisk.img (DiskFormat) and writes it in three parts if   *)
(* it does not exist, the mapping of the file, and the reads that the root *)
(* directory, the superblock and the mkdirs of bin, etc and dev come to.   *)
(*                                                                         *)
(* The process can be killed anywhere, and a write can come up short on a  *)
(* full host disk.  Of the file only its length is kept once it is written *)
(* (in sectors; the start-up never changes what has a place in it).        *)
(***************************************************************************)
EXTENDS Integers, Sequences, FiniteSets

CONSTANTS
  NBUF,                \* BufferManager::NBUF
  Group, DataStart, DataSize,
  NoFile,              \* myDisk.img does not exist
  Page,                \* sectors in a page of memory: 8
  Cuts                 \* where a write that is cut off may end (page bounds)

\* Group, DataStart and DataSize as in DiskLayout; the superblock and the root's
\* inode are in front of the data zone.
ASSUME StartUpAssumption ==
  /\ NBUF \in Nat \ {0}
  /\ Group \in Nat /\ Group >= 2
  /\ DataStart \in Nat /\ DataStart > 2
  /\ DataSize \in Nat /\ DataSize >= Group
  /\ (DataSize - (Group - 1)) % Group # 0 /\ DataSize % Group # 0
  /\ NoFile \notin Nat
  /\ Page \in Nat \ {0}
  /\ Cuts \subseteq Nat

VARIABLES
  forw, back, built,   \* the list of buffers
  leftBlock, i, image, \* the datablock that init_datablock fills
  sectors,             \* length of myDisk.img
  pc,                  \* where Initialize is
  cut                  \* an init_disk has not written all it should

listVars == <<forw, back, built>>

formatVars == <<leftBlock, i, image>>

vars == <<listVars, formatVars, sectors, pc, cut>>

List == INSTANCE BufferList

Format == INSTANCE DiskFormat

Total == DataStart + DataSize            \* sectors of a whole image

SuperSectors == 2

Writing == {"super", "inodes", "data"}

Pc == {"down", "buffers", "disk", "format", "mmap", "root", "serving"} \cup Writing

NoTables == <<>>                         \* no datablock in memory

TypeOK ==
  /\ List!TypeOK
  /\ pc = "format" => Format!TypeOK
  /\ sectors \in 0 .. Total \cup {NoFile}
  /\ pc \in Pc
  /\ cut \in BOOLEAN

NoMemory ==
  /\ List!Init
  /\ leftBlock = 0 /\ i = 0 /\ image = NoTables

Init == NoMemory /\ sectors = NoFile /\ pc = "down" /\ cut = FALSE

Goto(from, to) == pc = from /\ pc' = to

-----------------------------------------------------------------------------
\* A new process: all memory is zero-filled.
Start == Goto("down", "buffers") /\ UNCHANGED <<listVars, formatVars, sectors, cut>>

\* InitBuffer.
InitBuffer ==
  \/ /\ pc = "buffers" /\ List!InitializeBuf
     /\ UNCHANGED <<formatVars, sectors, pc, cut>>
  \/ /\ Goto("buffers", "disk") /\ ~ List!MoreBuffers
     /\ UNCHANGED <<listVars, formatVars, sectors, cut>>

Found == sectors # NoFile

\* InitDisk: an image that can be opened is taken as it is.
OpenDisk ==
  /\ Goto("disk", "mmap") /\ Found
  /\ UNCHANGED <<listVars, formatVars, sectors, cut>>

\* init_disk: open(O_CREAT) makes an empty file.
CreateDisk ==
  /\ Goto("disk", "format") /\ ~ Found
  /\ sectors' = 0
  /\ leftBlock' = DataSize /\ i' = 0
  /\ image' = [s \in Format!DataZone |-> <<>>]
  /\ UNCHANGED <<listVars, cut>>

InitDatablock ==
  \/ /\ pc = "format" /\ Format!FormatGroup
     /\ UNCHANGED <<listVars, sectors, pc, cut>>
  \/ /\ Goto("format", "super") /\ leftBlock = 0
     /\ UNCHANGED <<listVars, formatVars, sectors, cut>>

\* The three writes: the superblock, the inode zone, the data zone.
Written(from) ==
  CASE from = "super"  -> SuperSectors
    [] from = "inodes" -> DataStart - SuperSectors
    [] from = "data"   -> DataSize

\* Mutant: the write of the data zone is missing.
AfterWriteNoData(from) == IF from = "super" THEN "inodes" ELSE "mmap"

AfterWrite(from) ==
  CASE from = "super" -> "inodes" [] from = "inodes" -> "data" [] from = "data" -> "mmap"

Write(from) ==
  /\ Goto(from, AfterWrite(from))
  /\ sectors' = sectors + Written(from)
  /\ leftBlock' = 0 /\ i' = 0 /\ image' = NoTables
  /\ UNCHANGED <<listVars, cut>>

\* write() returns less, or nothing, on a full disk.  Nobody looks at the
\* result; the writes after it get nothing either.
WriteShort(from) ==
  /\ Goto(from, "mmap")
  /\ \E n \in Cuts \cup {sectors} :
       /\ n \in sectors .. sectors + Written(from) - 1
       /\ sectors' = n
  /\ cut' = TRUE
  /\ leftBlock' = 0 /\ i' = 0 /\ image' = NoTables
  /\ UNCHANGED listVars

InitDisk == \E from \in Writing : Write(from) \/ WriteShort(from)

-----------------------------------------------------------------------------
\* The process is gone, and its memory with it.
Dies ==
  /\ pc' = "down"
  /\ forw' = [x \in List!Node |-> List!bFreeList]
  /\ back' = [x \in List!Node |-> List!bFreeList]
  /\ built' = 0
  /\ leftBlock' = 0 /\ i' = 0 /\ image' = NoTables

\* init_mmap: mmap of no bytes fails and the program exits.
InitMmap ==
  \/ /\ Goto("mmap", "root") /\ sectors > 0
     /\ UNCHANGED <<listVars, formatVars, sectors, cut>>
  \/ /\ pc = "mmap" /\ sectors = 0
     /\ Dies
     /\ UNCHANGED <<sectors, cut>>

\* Sectors below this one can be read and written through the mapping; those
\* behind the end of the file, in its last page, read as zero.
Mapped == ((sectors + Page - 1) \div Page) * Page

RootSector == SuperSectors               \* of inode 0, the root

\* s_inode holds 0 .. 99 and IAlloc pops the last: eight inodes a sector.
FirstPopped == SuperSectors + 99 \div 8

\* A root inode that was never written reads as mode 0: it is no directory, and
\* the calls on bin, etc and dev return ENOTDIR.
RootIsDir == sectors > RootSector

\* The sectors the rest of Initialize reads: the root's inode, the superblock,
\* and, if the root is a directory, the inodes that mkdir takes; from the second
\* start on perhaps the root's data, which may be anywhere in the data zone.
Needed == 0 .. RootSector \cup (IF RootIsDir THEN {FirstPopped} ELSE {})

MayNeed == IF RootIsDir THEN {DataStart, Total - 1} ELSE {}

\* IGet(ROOTINO), LoadSuperBlock, Sys_ChDir and the three Sys_Mkdir.
LoadRoot ==
  /\ Goto("root", "serving")
  /\ \A s \in Needed : s < Mapped
  /\ UNCHANGED <<listVars, formatVars, sectors, cut>>

\* A sector behind the mapping: SIGBUS.
LoadRootFaults ==
  /\ pc = "root"
  /\ \E s \in Needed \cup MayNeed : s >= Mapped
  /\ Dies
  /\ UNCHANGED <<sectors, cut>>

-----------------------------------------------------------------------------
\* The server's sessions: their flushes rearrange the list, and on a short
\* image they come to a sector that is not there.
BflushMove(bp) ==
  /\ pc = "serving" /\ bp \in List!Linked
  /\ List!BflushMove(bp)
  /\ UNCHANGED <<formatVars, sectors, pc, cut>>

SessionFaults ==
  /\ pc = "serving" /\ Mapped < Total
  /\ Dies
  /\ UNCHANGED <<sectors, cut>>

\* Killed, in the middle of a write too.
Kill ==
  /\ pc # "down"
  /\ Dies
  /\ cut' = (cut \/ pc = "format" \/ pc \in Writing)
  /\ \/ UNCHANGED sectors
     \/ pc \in Writing
        /\ \E n \in Cuts : n \in sectors .. sectors + Written(pc) - 1 /\ sectors' = n

Initialize ==
  \/ InitBuffer
  \/ OpenDisk \/ CreateDisk \/ InitDatablock \/ InitDisk
  \/ InitMmap
  \/ LoadRoot \/ LoadRootFaults

Next ==
  \/ Start
  \/ Initialize
  \/ \E bp \in List!Buf : BflushMove(bp)
  \/ SessionFaults
  \/ Kill

\* A process that was started runs on; it need not be started again.
Spec == Init /\ [][Next]_vars /\ WF_vars(Initialize)

-----------------------------------------------------------------------------
(***************************************************************************)
(* Properties.                                                             *)
(***************************************************************************)

Queue == INSTANCE BufferQueue WITH queue <- List!Chain, stale <- List!StaleBack

\* The pointer surgery of Initialize and Bflush does to the b_forw chain
\* exactly what BufferQueue says, stale back pointers included: every step is
\* an InsertFront or a Requeue of the sequence, or ends the process.
ImplementsQueue ==
  Queue!QueueInit /\
  [][Queue!QueueNext \/ Queue!QueueInit']_<<List!Chain, List!StaleBack>>

\* A loop over b_forw always comes back to bFreeList, and b_back of the head is
\* the last buffer: the GetBlk and Bflush loops end, and Bflush appends at the
\* end and nowhere else (BufferManager.cpp:58, 70, 186, 196-199).
RingCloses == List!Ring

\* The list of buffers as the loops over it rely on it: RingCloses, on pointers,
\* a file and a program counter that are what they can be.
ListInv == TypeOK /\ RingCloses

\* When init_disk is about to write, the list init_superblock computed and the
\* tables init_datablock made hold every block of the data zone, each exactly
\* once: the group left over, whose table is written nowhere on the disk, is
\* the superblock's.  (FreeBlocks starts from the result.)
ZoneOnTheList ==
  pc = "super" =>
    /\ Format!ChainIs(Format!Chain(Format!SuperList, image), Format!DataZone)
    /\ image = Format!FormattedTables

\* A server that serves has a whole image, with a root directory, unless an
\* init_disk was cut off, in this start or in an earlier one: then it may serve
\* what is there, though never an empty file.  ("Initializing disk
\* successfully", Disk.cpp:69, is printed either way.)
ServesWhole ==
  pc = "serving" =>
    /\ sectors > 0
    /\ ~ cut => sectors = Total /\ RootIsDir

\* Every start comes to an end: the loops of Initialize and init_datablock are
\* left, and the server accepts or the process is gone.
StartEnds == pc \notin {"down", "serving"} ~> pc \in {"down", "serving"}

=============================================================================

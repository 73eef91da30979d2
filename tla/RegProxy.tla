------------------------------ MODULE RegProxy ------------------------------
(***************************************************************************)
(* How the programs of lib/C reach the registers of a NetFPGA, and what    *)
(* nf_download does to it through them: the server of reg_lib, which       *)
(* serves its connections one after the other; the library its clients are *)
(* linked with; the same functions of common/nf2util.c for the programs on *)
(* the board's own host; the download (download/nf_download.c); the device *)
(* information and its check (common/nf2util_proxy_common.c); and the      *)
(* programming interface of the CPCI (cnet_reprogram.v), whose FIFO forgets *)
(* everything when it overflows.  The Virtex, which clears itself, takes   *)
(* the words, checks them and raises DONE or INIT, is external.            *)
(*                                                                         *)
(* A register access is two steps for a client of the proxy: the request   *)
(* sent with what the last answer led to, and the server's answer.         *)
(***************************************************************************)
EXTENDS Integers, Sequences, FiniteSets

CONSTANTS
  Remote,      \* programs linked with libreg_proxy
  Local,       \* programs linked with libnf2
  Downloaders, \* the programs that are nf_download; the others check or show
  Iface,       \* program -> the number in its interface's name, nf2cN
  NumCards,    \* num_netfpgas, the server's argument
  Images,      \* bitfiles: [dir, mod (of the device ID block), ver, cpci]
  Job,         \* program -> its file, or what it asks of it: [dir, min, max]
  CpciVersion, \* version of the board's CPCI
  Words,       \* words of a bitfile
  Burst,       \* words between two looks at the FIFO
  BlockWords,  \* READ_BUFFER_SIZE, in words
  FifoDepth,   \* fifo_8x32
  MaxErrors,   \* bound: ioctls that fail at the server, and damaged words
  MaxKills,    \* bound: programs that are killed
  None         \* -1, NULL, an answer nobody can use

Clients == Remote \cup Local
Any == -1      \* VERSION_ANY

ASSUME RegProxyAssumption ==
  /\ Remote \cap Local = {} /\ Downloaders \subseteq Clients
  /\ Iface \in [Clients -> Nat] /\ NumCards \in Nat
  /\ \A c \in Downloaders : Job[c] \in Images
  /\ {Words, Burst, BlockWords, FifoDepth} \subseteq Nat \ {0}
  /\ {MaxErrors, MaxKills} \subseteq Nat
  /\ \A i \in Images : i.mod \in 0 .. 2 /\ i.ver \in Int
  /\ None \notin Images /\ None \notin Images \X (1 .. Words)

VARIABLES
  cl,     \* the programs: control state and memory
  conns,  \* the server's connections, the one it serves first
  board,  \* the programming interface and the Virtex
  errors, \* failures that happened
  kills   \* programs killed

vars == <<cl, conns, board, errors, kills>>

File(i) == [k \in 1 .. Words |-> <<i, k>>]

NoInfo == [prog |-> FALSE, mod |-> 0, ver |-> 0, cpci |-> None, dir |-> None,
           mine |-> None]

Fresh == [pc |-> "check", io |-> "none", sent |-> 0, count |-> 0, tries |-> 0,
          info |-> NoInfo]

(* Steps of a program that are one access to a register. *)
Accesses == {"reset", "status", "init1", "init2", "word", "poll", "done",
             "prog", "md5", "block"}
(* check_iface, openDescriptor and closeDescriptor ask the server too. *)
Requests == Accesses \cup {"check", "open", "close"}
Pcs == Requests \cup {"verdict", "exit", "end"}

Infos == [prog : BOOLEAN, mod : 0 .. 2, ver : Int, cpci : {i.cpci : i \in Images} \cup {None},
          dir : {i.dir : i \in Images} \cup {None}, mine : {CpciVersion, None}]

TypeOK ==
  /\ \A c \in Clients :
       /\ cl[c].pc \in Pcs
       /\ cl[c].io \in {"none", "sent", "dead"}
       /\ cl[c].sent \in 0 .. Words
       /\ cl[c].count \in 0 .. Burst - 1
       /\ cl[c].tries \in 0 .. 3
       /\ cl[c].info \in Infos
  /\ \A k \in 1 .. Len(conns) :
       /\ conns[k].client \in Remote
       /\ {conns[k].open, conns[k].asked} \subseteq BOOLEAN
  /\ board.st \in {"idle", "clear", "download"}
  /\ Len(board.fifo) <= FifoDepth /\ Len(board.cfg) <= Words
  /\ errors \in 0 .. MaxErrors /\ kills \in 0 .. MaxKills

(***************************************************************************)
(* The programming interface.                                              *)
(***************************************************************************)

(* CPCI_PROGRAMMING_CONTROL: PROG_B clears the Virtex, and with it DONE;   *)
(* while it is being cleared only the FIFO is reset.                       *)
ProgReset(b) == [b EXCEPT !.fifo = << >>, !.st = "clear", !.init = TRUE,
                          !.done = FALSE, !.cfg = << >>]

(* CPCI_PROGRAMMING_DATA: a word for the FIFO; its overflow resets it. *)
ProgData(b, w) ==
  [b EXCEPT !.fifo = IF Len(@) = FifoDepth THEN << >> ELSE Append(@, w)]

(* The Virtex ends its initialisation: INIT falls, the download may start. *)
Cleared ==
  /\ board.st = "clear"
  /\ board' = [board EXCEPT !.st = "download", !.init = FALSE]
  /\ UNCHANGED <<cl, conns, errors, kills>>

(* The Virtex has all its words: DONE when they are a bitfile, else INIT,  *)
(* and cnet_reprogram starts again from PROG_B with an empty FIFO.         *)
Configured(b) ==
  IF Len(b.cfg) < Words THEN b
  ELSE IF \E i \in Images : b.cfg = File(i)
       THEN [b EXCEPT !.done = TRUE, !.st = "idle"]
       ELSE ProgReset(b)

(* RP_Download: a word from the FIFO to the Virtex, perhaps damaged. *)
Shift ==
  /\ board.st = "download" /\ board.fifo # << >>
  /\ \E damaged \in BOOLEAN :
       /\ damaged => errors < MaxErrors
       /\ errors' = errors + (IF damaged THEN 1 ELSE 0)
       /\ board' = Configured([board EXCEPT !.fifo = Tail(@),
            !.cfg = Append(@, IF damaged THEN None ELSE Head(board.fifo))])
  /\ UNCHANGED <<cl, conns, kills>>

(* CPCI_PROGRAMMING_STATUS. *)
Status(b) == [done |-> b.done, init |-> b.init, empty |-> b.fifo = << >>]

(* The bitfile in the Virtex, None while it is not programmed. *)
Loaded(b) == IF b.done THEN CHOOSE i \in Images : b.cfg = File(i) ELSE None

(***************************************************************************)
(* A register access: what is read, and what a write does.                 *)
(***************************************************************************)

NoBlock == [mod |-> 0, ver |-> 0, cpci |-> None, dir |-> None]

(* The device ID block is garbage, and its MD5 wrong, without a bitfile. *)
IdBlock(b) ==
  IF Loaded(b) = None THEN NoBlock ELSE Loaded(b)

Effect(c, s, b) ==
  CASE s.pc = "reset" -> ProgReset(b)
    [] s.pc = "word" -> ProgData(b, File(Job[c])[s.sent + 1])
    [] OTHER -> b

(* 0xBADDD065, readReg's value when the server could not read the register: *)
(* as a status it says INIT; no MD5, no version and no name are like it.    *)
BadStatus == [done |-> FALSE, init |-> TRUE, empty |-> FALSE]

(***************************************************************************)
(* The device information and its check.                                   *)
(***************************************************************************)

(* getProjDir, for a bitfile of module version 1 getProjName. *)
ProjDir(info) == IF info.mod = 0 THEN None ELSE info.dir

Packed(v, default) ==
  LET part(k) == IF v[k] = Any THEN default ELSE v[k]
  IN  (part(1) * 256 + part(2)) * 256 + part(3)

(* A number shifted by 16 bits in an int. *)
SignedInt(n) == LET low == n % 65536
                IN  (IF low < 32768 THEN low ELSE low - 65536) * 65536

(* getDeviceMajor, getDeviceMinor, getDeviceRevision: version 1 of the ID  *)
(* block has one number; without a block they are made of -1.              *)
VirtexVer(info) ==
  CASE info.mod = 2 -> info.ver
    [] info.mod = 1 -> SignedInt(info.ver)
    [] OTHER -> 16777215

(* mutant: the upper bound's open parts count as 0 *)
CheckLowMax(info, w) ==
  /\ info.prog
  /\ ProjDir(info) = w.dir
  /\ Packed(w.min, 0) <= VirtexVer(info) /\ VirtexVer(info) <= Packed(w.max, 0)

CheckVirtexBitfile(info, w) ==
  /\ info.prog
  /\ ProjDir(info) = w.dir
  /\ Packed(w.min, 0) <= VirtexVer(info) /\ VirtexVer(info) <= Packed(w.max, 255)

(* VerifyDevInfo: a bitfile built for another CPCI ends nf_download. *)
VerifyDevInfo(info) == info.mod = 0 \/ info.cpci = info.mine

(***************************************************************************)
(* The programs.  After(c, s, b, ok): program c in state s has its answer, *)
(* from board b if the access succeeded.                                   *)
(***************************************************************************)

(* A program that ends forgets everything. *)
Goto(s, pc) == IF pc \in {"exit", "end"} THEN [Fresh EXCEPT !.pc = pc, !.io = s.io]
               ELSE [s EXCEPT !.pc = pc]

(* DownloadCode: the next word, or the wait for DONE. *)
NextWord(s) ==
  IF s.sent = Words THEN Goto([s EXCEPT !.tries = 0, !.count = 0], "done")
  ELSE Goto([s EXCEPT !.tries = 0], "word")

(* mutant: the FIFO is looked at one word too late *)
WordSentLate(s) ==
  LET t == [s EXCEPT !.sent = @ + 1,
                     !.count = IF (s.sent + 1) % BlockWords = 0 THEN 0
                               ELSE (@ + 1) % (Burst + 1)]
  IN  IF s.count = Burst THEN Goto(t, "poll") ELSE NextWord(t)

(* DownloadVirtexCodeBlock: count starts again at every block of the file. *)
WordSent(s) ==
  LET t == [s EXCEPT !.sent = @ + 1,
                     !.count = IF (s.sent + 1) % BlockWords = 0 THEN 0
                               ELSE (@ + 1) % Burst]
  IN  IF s.count + 1 = Burst THEN Goto(t, "poll") ELSE NextWord(t)

(* mutant: the end of the download is read from the FIFO, as between bursts *)
AfterDoneFifo(s, st) ==
  IF st.empty /\ ~st.init THEN Goto([s EXCEPT !.sent = 0, !.tries = 0], "prog")
  ELSE Goto([s EXCEPT !.tries = @ + 1], IF st.init \/ s.tries = 2 THEN "exit" ELSE "done")

(* The end of DownloadCode: DONE went high, INIT, or not yet. *)
AfterDone(s, st) ==
  IF st.done THEN Goto([s EXCEPT !.sent = 0, !.tries = 0], "prog")
  ELSE Goto([s EXCEPT !.tries = @ + 1], IF st.init \/ s.tries = 2 THEN "exit" ELSE "done")

(* The statuses nf_download waits for, and how often.  What it writes when *)
(* DONE is high (ResetDevice, the PHYs) changes nothing that is modelled.  *)
AfterStatus(s, st) ==
  CASE s.pc = "status" -> Goto(s, IF st.done \/ ~st.empty THEN "exit" ELSE "init1")
    [] s.pc = "init1" -> IF st.init \/ st.empty THEN Goto(s, "init2") ELSE NextWord(s)
    [] s.pc = "init2" ->
         IF ~st.init THEN NextWord(s)
         ELSE Goto([s EXCEPT !.tries = @ + 1], IF s.tries = 2 THEN "exit" ELSE "init1")
    [] s.pc = "poll" ->
         IF st.done \/ (~st.init /\ st.empty) THEN NextWord(s)
         ELSE Goto(s, IF st.init THEN "exit" ELSE "poll")
    [] s.pc = "done" -> AfterDone(s, st)

(* nf2_read_info: the CPCI's registers, the MD5 sum of the device ID block, *)
(* and if it is one of the two known ones the block itself.                 *)
AfterInfo(s, st, block) ==
  CASE s.pc = "prog" -> Goto([s EXCEPT !.info.mine = CpciVersion, !.info.prog = st.done], "md5")
    [] s.pc = "md5" -> Goto([s EXCEPT !.info.mod = block.mod],
                            IF block.mod = 0 THEN "verdict" ELSE "block")
    [] s.pc = "block" -> Goto([s EXCEPT !.info.ver = block.ver, !.info.cpci = block.cpci,
                                        !.info.dir = block.dir], "verdict")

After(c, s, b, ok) ==
  LET st == IF ok THEN Status(b) ELSE BadStatus
      block == IF ok THEN IdBlock(b) ELSE NoBlock
  IN  CASE s.pc = "check" -> Goto(s, IF Iface[c] < NumCards THEN "open" ELSE "exit")
        [] s.pc = "open" -> Goto(s, IF c \in Downloaders THEN "reset" ELSE "prog")
        [] s.pc = "reset" -> Goto(s, "status")
        [] s.pc = "word" -> WordSent(s)
        [] s.pc = "close" -> Goto(s, "end")
        [] s.pc \in {"prog", "md5", "block"} -> AfterInfo(s, st, block)
        [] OTHER -> AfterStatus(s, st)

(* The end of main: nf_download verifies the CPCI version, selftest the    *)
(* bitfile; who is not content exits without closing the descriptor.       *)
Verdict(c) ==
  /\ cl[c].pc = "verdict" /\ cl[c].io = "none"
  /\ LET content == IF c \in Downloaders THEN VerifyDevInfo(cl[c].info)
                    ELSE CheckVirtexBitfile(cl[c].info, Job[c])
     IN  cl' = [cl EXCEPT ![c] = Goto([@ EXCEPT !.info = NoInfo],
                                      IF content THEN "close" ELSE "exit")]
  /\ UNCHANGED <<conns, board, errors, kills>>

(* common/nf2util.c: is there such a device, and a descriptor for it. *)
LocalOpen(c) ==
  /\ c \in Local /\ cl[c].pc \in Requests \ Accesses
  /\ cl' = [cl EXCEPT ![c] = LET s == After(c, @, board, TRUE)
                             IN  IF s.pc = "open" THEN After(c, s, board, TRUE) ELSE s]
  /\ UNCHANGED <<conns, board, errors, kills>>

(* common/nf2util.c: an ioctl, with nobody in between. *)
LocalAccess(c) ==
  /\ c \in Local /\ cl[c].pc \in Accesses
  /\ board' = Effect(c, cl[c], board)
  /\ cl' = [cl EXCEPT ![c] = After(c, cl[c], board', TRUE)]
  /\ UNCHANGED <<conns, errors, kills>>

(***************************************************************************)
(* The proxy.                                                              *)
(***************************************************************************)

(* sendRequest, on a connection of its own for check_iface and             *)
(* openDescriptor; openDescriptor's is kept.                               *)
SendRequest(c) ==
  /\ c \in Remote /\ cl[c].pc \in Requests /\ cl[c].io = "none"
  /\ cl' = [cl EXCEPT ![c].io = "sent"]
  /\ conns' = IF cl[c].pc \in {"check", "open"}
              THEN Append(conns, [client |-> c, open |-> TRUE, asked |-> TRUE])
              ELSE [k \in 1 .. Len(conns) |->
                     IF conns[k].client = c /\ conns[k].open
                     THEN [conns[k] EXCEPT !.asked = TRUE] ELSE conns[k]]
  /\ UNCHANGED <<board, errors, kills>>

Hung(q, c) == [k \in 1 .. Len(q) |-> IF q[k].client = c
                                     THEN [q[k] EXCEPT !.open = FALSE] ELSE q[k]]

(* The connections once the first one's request, of kind pc, is answered:  *)
(* the server closes it after CLOSE_REQ, the client after check_iface.     *)
Answered(q, pc) ==
  CASE pc = "close" -> Tail(q)
    [] pc = "check" -> <<[q[1] EXCEPT !.asked = FALSE, !.open = FALSE]>> \o Tail(q)
    [] OTHER -> <<[q[1] EXCEPT !.asked = FALSE]>> \o Tail(q)

(* parse_request: the access, whose failure the server ignores, and the    *)
(* answer, which a killed client does not get.                             *)
ParseRequest ==
  /\ conns # << >> /\ conns[1].asked
  /\ LET c == conns[1].client
         s == cl[c]
     IN \E ok \in BOOLEAN :
          /\ ~ok => errors < MaxErrors /\ s.pc \in Accesses
          /\ errors' = errors + (IF ok THEN 0 ELSE 1)
          /\ board' = IF ok THEN Effect(c, s, board) ELSE board
          /\ cl' = [cl EXCEPT ![c] = IF s.io = "dead" THEN Goto(s, "end")
                                     ELSE [After(c, s, board', ok) EXCEPT !.io = "none"]]
          /\ conns' = Answered(conns, s.pc)
  /\ UNCHANGED kills

(* mutant: a connection that its client closed is read again and again *)
HangupMissed ==
  /\ conns # << >> /\ ~conns[1].open /\ ~conns[1].asked
  /\ UNCHANGED vars

(* parse_request reads 0 bytes, or less than a request: the server goes on *)
(* to the next connection.                                                 *)
Hangup ==
  /\ conns # << >> /\ ~conns[1].open /\ ~conns[1].asked
  /\ conns' = Tail(conns)
  /\ UNCHANGED <<cl, board, errors, kills>>

(* exit(): the program's sockets are closed. *)
Exit(c) ==
  /\ cl[c].pc = "exit" /\ cl[c].io = "none"
  /\ cl' = [cl EXCEPT ![c].pc = "end"]
  /\ conns' = Hung(conns, c)
  /\ UNCHANGED <<board, errors, kills>>

(* A client is killed; the request it sent is on its way. *)
Kill(c) ==
  /\ c \in Remote /\ cl[c].pc # "end" /\ cl[c].io # "dead" /\ kills < MaxKills
  /\ cl' = [cl EXCEPT ![c] = [Goto(@, IF @.io = "sent" THEN @.pc ELSE "end")
                                 EXCEPT !.io = "dead"]]
  /\ conns' = Hung(conns, c)
  /\ kills' = kills + 1
  /\ UNCHANGED <<board, errors>>

(* The board is as another download left it, or was never programmed. *)
Init ==
  /\ cl = [c \in Clients |-> Fresh]
  /\ conns = << >>
  /\ \E i \in Images \cup {None} :
       board = [st |-> "idle", fifo |-> << >>, init |-> FALSE, done |-> i # None,
                cfg |-> IF i = None THEN << >> ELSE File(i)]
  /\ errors = 0 /\ kills = 0

Program(c) == Verdict(c) \/ LocalOpen(c) \/ LocalAccess(c) \/ SendRequest(c) \/ Exit(c)
Server == ParseRequest \/ Hangup
Board == Cleared \/ Shift

Next == Board \/ Server \/ \E c \in Clients : Program(c) \/ Kill(c)

(* The board's clock runs, the server and the programs are scheduled. *)
Fairness == WF_vars(Board) /\ WF_vars(Server) /\ \A c \in Clients : WF_vars(Program(c))

Spec == Init /\ [][Next]_vars /\ Fairness

(***************************************************************************)
(* Properties.                                                             *)
(***************************************************************************)

Alive(c) == cl[c].io # "dead"

(* While a client of the proxy downloads, the Virtex and the FIFO hold     *)
(* what it has sent and nothing else: no overflow, although the FIFO is    *)
(* looked at every Burst words only (DownloadVirtexCodeBlock), and nobody  *)
(* else's word or reset, although others wait, and were killed in the      *)
(* middle of a download of theirs (parse_request).                         *)
StreamIntact ==
  \A c \in Remote \cap Downloaders :
    errors = 0 /\ Alive(c) /\ cl[c].pc \in {"word", "poll", "done"} =>
      board.cfg \o board.fifo = SubSeq(File(Job[c]), 1, cl[c].sent)

(* "chip has been successfully programmed" (DownloadCode): whatever failed *)
(* or was damaged on the way, the Virtex then holds this program's file,   *)
(* and keeps it until the program ends.                                    *)
SuccessIntact ==
  \A c \in Remote \cap Downloaders :
    Alive(c) /\ cl[c].pc \in {"prog", "md5", "block", "verdict", "close"} =>
      Loaded(board) = Job[c]

(* A version a.b.c against a bound, compared part by part up to the first  *)
(* open part.                                                              *)
Parts(img) == IF img.mod = 1 THEN <<img.ver, 0, 0>>
              ELSE <<img.ver \div 65536, (img.ver \div 256) % 256, img.ver % 256>>
Below(v, w) == \E k \in 1 .. 3 : /\ \A j \in 1 .. k - 1 : v[j] = w[j]
                                /\ \A j \in 1 .. k : Any \notin {v[j], w[j]}
                                /\ v[k] < w[k]

(* What checkVirtexBitfile stands for: the board holds the bitfile w asks for. *)
Compatible(b, w) ==
  LET img == Loaded(b)
  IN  /\ img # None
      /\ img.mod # 0 /\ img.dir = w.dir
      /\ ~Below(Parts(img), w.min) /\ ~Below(w.max, Parts(img))

(* What a client of the proxy has read of the board in many accesses       *)
(* (nf2_read_info) is true of the board when it is used: a bitfile that    *)
(* passes checkVirtexBitfile is the one on the board, nf_download is       *)
(* content only with a bitfile built for this CPCI, and neither refuses a  *)
(* good bitfile on a board it found programmed.                            *)
InfoTrue ==
  \A c \in Remote :
    errors = 0 /\ Alive(c) /\ cl[c].pc = "verdict" =>
      LET info == cl[c].info
          found == IF c \in Downloaders THEN VerifyDevInfo(info)
                   ELSE CheckVirtexBitfile(info, Job[c])
          there == IF c \in Downloaders
                   THEN Loaded(board).mod = 0 \/ Loaded(board).cpci = CpciVersion
                   ELSE Compatible(board, Job[c])
      IN  /\ found => there
          /\ there /\ info.prog => found

(* Every program ends, although the server serves one connection at a time *)
(* and nf_download looks at the FIFO until it is empty, unless an access   *)
(* failed at the server.                                                   *)
EveryoneServed == <>(errors > 0 \/ \A c \in Clients : cl[c].pc = "end")
=============================================================================

------------------------------- MODULE Dvrip -------------------------------
(***************************************************************************)
(* A DVRIP connection before it streams (dvrip_server.go): the login, then *)
(* the command loop that answers every command until Start hands the       *)
(* connection to dvripStreamData (RawSession.tla).                         *)
(*                                                                         *)
(* The client may pipeline commands, stall in the middle of one, send one  *)
(* that is not DVRIP, or leave.  sent is everything it sent; the server    *)
(* has read the first handled of them.  Each readCmd has one deadline for  *)
(* header and payload together; time is counted in ticks.                  *)
(*                                                                         *)
(* Abstractions: a command is its kind, its sequence number and the one    *)
(* thing its JSON decides; KeepAlive stands for every command that is      *)
(* answered at once and changes nothing (queries, unknown ones).  Whether  *)
(* a stream has a producer is the hub's business (Serving.tla): Start gets *)
(* either answer.                                                          *)
(***************************************************************************)
EXTENDS Naturals, Sequences

CONSTANTS
  Numbers,        (* sequence numbers a client uses                        *)
  ReadTimeout,    (* dvripTimeout, in ticks                                *)
  AliveInterval,  (* what the login answer tells the client, in ticks      *)
  MaxCommands,    (* bound: commands one client sends                      *)
  MaxAhead        (* bound: commands a client sends ahead of the server    *)

ASSUME DvripAssumption ==
  /\ Numbers \subseteq Nat
  /\ ReadTimeout \in Nat /\ AliveInterval \in Nat
  /\ MaxCommands \in Nat /\ MaxAhead \in Nat

VARIABLES
  sent,      (* history: the commands of the client                        *)
  partial,   (* the last of them is not complete yet                       *)
  gone,      (* the client closed the connection                           *)
  pc,        (* handleDVRIPConn                                            *)
  handled,   (* how many commands were read                                *)
  seq,       (* dvripConn.seq                                              *)
  stream,    (* the local variable of that name                            *)
  replies,   (* history: the answers                                       *)
  waited,    (* ticks since this readCmd set its deadline                  *)
  quiet      (* ticks since the client last sent something                 *)

clientVars == <<sent, partial, gone>>
serverVars == <<pc, handled, seq, stream, replies>>
vars == <<clientVars, serverVars, waited, quiet>>

Streams == {"main", "sub"}

(* A login with "garbled" JSON is refused; a claim asks for the sub stream *)
(* with "Extra1" and for main with anything else, garbled or not; "junk"   *)
(* does not begin with the sync byte.                                      *)
Command ==
  [cmd : {"login"}, seq : Numbers, arg : {"json", "garbled"}]
    \cup [cmd : {"claim"}, seq : Numbers, arg : {"json", "Extra1"}]
    \cup [cmd : {"start", "keepalive", "junk"}, seq : Numbers, arg : {"json"}]

Ret == {100, 205}
Reply == [cmd : {"login", "claim", "keepalive"}, seq : Numbers, ret : Ret]

Init ==
  /\ sent = <<>> /\ partial = FALSE /\ gone = FALSE
  /\ pc = "login" /\ handled = 0 /\ seq = 0 /\ stream = "none"
  /\ replies = <<>>
  /\ waited = 0 /\ quiet = 0

Reading   == pc \in {"login", "loop"}
Available == handled + (IF partial THEN 1 ELSE 0) < Len(sent)
Current   == sent[handled + 1]
Close     == pc' = "closed"

-----------------------------------------------------------------------------
(* The client, and time.                                                   *)

Send(c) ==
  /\ ~gone /\ ~partial
  /\ Len(sent) < MaxCommands /\ Len(sent) < handled + MaxAhead
  /\ pc \notin {"streaming", "closed"}
  /\ sent' = Append(sent, c) /\ partial' \in BOOLEAN
  /\ quiet' = 0
  /\ UNCHANGED <<gone, serverVars, waited>>

SendRest ==
  /\ partial /\ ~gone /\ partial' = FALSE
  /\ quiet' = 0
  /\ UNCHANGED <<sent, gone, serverVars, waited>>

ClientLeaves ==
  /\ ~gone /\ gone' = TRUE
  /\ UNCHANGED <<sent, partial, serverVars, waited, quiet>>

(* Time passes only while the server has nothing to do.                    *)
Tick ==
  /\ Reading /\ ~Available /\ ~gone /\ waited < ReadTimeout
  /\ waited' = waited + 1
  /\ quiet' = IF quiet < AliveInterval THEN quiet + 1 ELSE quiet
  /\ UNCHANGED <<clientVars, serverVars>>

-----------------------------------------------------------------------------
(* readCmd fails: the deadline passed, or the connection ended before a    *)
(* whole command came.                                                     *)

(* Mutant: a read without a deadline.                                      *)
NoDeadline == FALSE /\ UNCHANGED vars

DeadlinePasses ==
  /\ Reading /\ waited = ReadTimeout
  /\ pc' = "closed"
  /\ UNCHANGED <<clientVars, handled, seq, stream, replies, waited, quiet>>

ReadFails ==
  /\ Reading /\ gone /\ ~Available
  /\ Close
  /\ UNCHANGED <<clientVars, handled, seq, stream, replies, waited, quiet>>

(* readCmd returns the next command.                                       *)
Take ==
  /\ Available
  /\ handled' = handled + 1
  /\ UNCHANGED <<clientVars, replies, waited, quiet>>

(* Any user and password will do, as long as the JSON parses.              *)
ValidateLogin(arg) == arg # "garbled"

(* Step 1: anything but a login ends the connection without an answer.     *)
ReadLogin ==
  /\ pc = "login" /\ Take
  /\ IF Current.cmd = "login"
     THEN /\ seq' = Current.seq
          /\ pc' = IF ValidateLogin(Current.arg) THEN "answer" ELSE "refuse"
     ELSE Close /\ seq' = seq
  /\ stream' = stream

(* Step 2: the command loop.                                               *)

(* Mutant: the stream type is taken for the stream's name.                 *)
ResolveName(arg) == arg

Resolve(arg) == IF arg = "Extra1" THEN "sub" ELSE "main"

(* Mutant: dc.seq is only set by the login.                                *)
ReadAnsweredOldSeq ==
  /\ pc = "loop" /\ Take /\ Current.cmd \in {"login", "claim", "keepalive"}
  /\ seq' = seq
  /\ stream' = IF Current.cmd = "claim" THEN Resolve(Current.arg) ELSE stream
  /\ pc' = "answer"

ReadAnswered ==
  /\ pc = "loop" /\ Take /\ Current.cmd \in {"login", "claim", "keepalive"}
  /\ seq' = Current.seq
  /\ stream' = IF Current.cmd = "claim" THEN Resolve(Current.arg) ELSE stream
  /\ pc' = "answer"

ReadJunk ==
  /\ pc = "loop" /\ Take /\ Current.cmd = "junk"
  /\ Close
  /\ UNCHANGED <<seq, stream>>

ReadStart ==
  /\ pc = "loop" /\ Take /\ Current.cmd = "start"
  /\ seq' = Current.seq
  /\ stream' = IF stream = "none" THEN "main" ELSE stream
  /\ pc' \in {"streaming", "closed"}

(* writeCmd: the answer carries the number of the command.  A write to a   *)
(* client that left, or does not read, fails.                              *)
Answered(ret) ==
  replies' = Append(replies, [cmd |-> sent[handled].cmd, seq |-> seq,
                              ret |-> ret])

(* Mutant: the loop goes on after a write that failed.                     *)
AnswerAnyway ==
  /\ pc = "answer"
  /\ \/ ~gone /\ Answered(100)
     \/ replies' = replies
  /\ pc' = "loop" /\ waited' = 0
  /\ UNCHANGED <<clientVars, handled, seq, stream, quiet>>

Answer ==
  /\ pc = "answer"
  /\ \/ ~gone /\ Answered(100) /\ pc' = "loop" /\ waited' = 0
     \/ Close /\ UNCHANGED <<replies, waited>>
  /\ UNCHANGED <<clientVars, handled, seq, stream, quiet>>

Refuse ==
  /\ pc = "refuse"
  /\ (~gone /\ Answered(205)) \/ replies' = replies
  /\ Close
  /\ UNCHANGED <<clientVars, handled, seq, stream, waited, quiet>>

-----------------------------------------------------------------------------
ServerStep ==
  \/ ReadFails \/ ReadLogin \/ ReadAnswered \/ ReadJunk \/ ReadStart
  \/ Answer \/ Refuse

Next ==
  \/ \E c \in Command : Send(c)
  \/ SendRest \/ ClientLeaves \/ Tick \/ DeadlinePasses
  \/ ServerStep

Spec == Init /\ [][Next]_vars

(* The server runs and time passes.  The client does as it likes.          *)
FairSpec ==
  Spec /\ WF_vars(ServerStep) /\ WF_vars(Tick) /\ WF_vars(DeadlinePasses)

-----------------------------------------------------------------------------
(* The shape of the state.                                                 *)
TypeOK ==
  /\ sent \in Seq(Command) /\ Len(sent) <= MaxCommands
  /\ partial \in BOOLEAN /\ gone \in BOOLEAN
  /\ pc \in {"login", "answer", "refuse", "loop", "streaming", "closed"}
  /\ handled \in 0..Len(sent)
  /\ seq \in Numbers \cup {0}
  /\ stream \in Streams \cup {"none"}
  /\ replies \in Seq(Reply)
  /\ waited \in 0..ReadTimeout /\ quiet \in 0..AliveInterval

(* The i-th answer is to the i-th command and carries its number, also     *)
(* when the client pipelines commands: answers are matched to commands by  *)
(* dvripConn.seq, one variable that the next command overwrites.           *)
RepliesMatch ==
  \A i \in 1..Len(replies) :
    /\ i <= handled
    /\ replies[i].cmd = sent[i].cmd
    /\ replies[i].seq = sent[i].seq

(* Streaming starts after a login, with every command before Start         *)
(* answered, and shows what the last of the Claims asked for, main if      *)
(* there was none.                                                         *)
Claims == {i \in 1..handled : sent[i].cmd = "claim"}

StartedAsClaimed ==
  pc = "streaming" =>
    /\ handled > 1 /\ sent[1].cmd = "login" /\ sent[handled].cmd = "start"
    /\ Len(replies) = handled - 1
    /\ \A i \in 1..Len(replies) : replies[i].ret = 100
    /\ Claims = {} => stream = "main"
    /\ \A i \in Claims :
         (\A j \in Claims : j <= i) => stream = Resolve(sent[i].arg)

(* Why these hold: where the server is determines how many commands it     *)
(* has answered, and stream always follows the Claims it has read.         *)
Progress ==
  /\ pc = "login" => handled = 0 /\ Len(replies) = 0
  /\ pc = "loop" => handled > 0 /\ Len(replies) = handled
  /\ pc \in {"answer", "refuse"} =>
       /\ handled > 0 /\ Len(replies) = handled - 1
       /\ sent[handled].cmd \in {"login", "claim", "keepalive"}
       /\ sent[handled].seq = seq
  /\ pc \in {"answer", "loop"} =>
       /\ sent[1].cmd = "login"
       /\ \A i \in 1..Len(replies) : replies[i].ret = 100

FollowsClaims ==
  pc \in {"login", "answer", "loop"} =>
    /\ Claims = {} => stream = "none"
    /\ \A i \in Claims :
         (\A j \in Claims : j <= i) => stream = Resolve(sent[i].arg)

(* A client that falls silent, even half way through a command, does not   *)
(* hold the connection: sooner or later it sends more, it streams, or the  *)
(* server closes.                                                          *)
SilentEnds ==
  \A k \in 0..MaxCommands :
    Len(sent) = k ~> Len(sent) > k \/ pc \in {"streaming", "closed"}

(* The login answer says "AliveInterval": 30.  The server does not close   *)
(* the connection of a logged-in client that was quiet for less than that. *)
IntervalHonoured ==
  [][DeadlinePasses /\ pc = "loop" => quiet >= AliveInterval]_vars
=============================================================================

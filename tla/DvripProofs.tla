---------------------------- MODULE DvripProofs ----------------------------
(***************************************************************************)
(* Proofs for Dvrip.tla, for every timeout and any number of commands.     *)
(***************************************************************************)
EXTENDS Dvrip, TLAPS

(* The inductive invariant: the properties, and the two facts that explain *)
(* them.                                                                   *)
DvripInv ==
  TypeOK /\ RepliesMatch /\ Progress /\ FollowsClaims /\ StartedAsClaimed

LEMMA DvripInvInit == Init => DvripInv
<1> SUFFICES ASSUME Init PROVE DvripInv
  OBVIOUS
<1>1. TypeOK
  <2>1. sent \in Seq(Command) /\ Len(sent) = 0 /\ replies \in Seq(Reply)
    BY DEF Init
  <2>2. waited \in 0..ReadTimeout /\ quiet \in 0..AliveInterval
    BY DvripAssumption DEF Init
  <2>3. partial \in BOOLEAN /\ gone \in BOOLEAN
    BY DEF Init
  <2>4. Len(sent) <= MaxCommands /\ handled \in 0..Len(sent)
    BY <2>1, DvripAssumption DEF Init
  <2> QED
    BY <2>1, <2>2, <2>3, <2>4 DEF Init, TypeOK
<1>2. RepliesMatch /\ Progress /\ FollowsClaims /\ StartedAsClaimed
  BY DEF Init, RepliesMatch, Progress, FollowsClaims, StartedAsClaimed, Claims
<1> QED
  BY <1>1, <1>2 DEF DvripInv

-----------------------------------------------------------------------------
(* A step that reads and answers nothing changes nothing the invariant     *)
(* speaks of: the commands read so far stay what they are.                 *)
LEMMA QuietStep ==
  ASSUME DvripInv, TypeOK', UNCHANGED <<handled, seq, stream, replies>>,
         pc' = pc \/ pc' = "closed",
         \A i \in 1..handled : sent'[i] = sent[i]
  PROVE  DvripInv'
<1> USE DEF DvripInv
<1>1. handled \in Nat /\ Len(replies) \in Nat /\ handled' = handled
  BY DEF TypeOK
<1>2. Claims' = Claims
  BY <1>1 DEF Claims
<1>3. Len(replies) <= handled
  BY <1>1 DEF RepliesMatch
<1>4. RepliesMatch'
  BY <1>1 DEF RepliesMatch
<1>5. Progress'
  BY <1>1 DEF Progress
<1>6. FollowsClaims'
  BY <1>1, <1>2 DEF FollowsClaims, Claims
<1>7. StartedAsClaimed'
  BY <1>1, <1>2 DEF StartedAsClaimed, Claims
<1> QED
  BY <1>4, <1>5, <1>6, <1>7

(* What the client sends goes behind what was read.                        *)
LEMMA ClientInv ==
  ASSUME DvripInv,
         (\E c \in Command : Send(c)) \/ SendRest \/ ClientLeaves \/ Tick
  PROVE  DvripInv'
<1> USE DEF DvripInv, serverVars, clientVars
<1>1. CASE \E c \in Command : Send(c)
  <2>1. PICK c \in Command : Send(c)
    BY <1>1
  <2>2. TypeOK'
    BY <2>1, DvripAssumption DEF Send, TypeOK
  <2>3. \A i \in 1..handled : sent'[i] = sent[i]
    BY <2>1 DEF Send, TypeOK
  <2> QED
    BY <2>1, <2>2, <2>3, QuietStep DEF Send
<1>2. CASE SendRest \/ ClientLeaves \/ Tick
  <2>1. TypeOK'
    <3>1. CASE SendRest
      <4>1. quiet' \in 0..AliveInterval
        BY <3>1, DvripAssumption DEF SendRest
      <4>2. partial' \in BOOLEAN
        BY <3>1 DEF SendRest
      <4>3. UNCHANGED <<sent, gone, pc, handled, seq, stream, replies, waited>>
        BY <3>1 DEF SendRest
      <4> QED
        BY <4>1, <4>2, <4>3 DEF TypeOK
    <3>2. CASE ClientLeaves
      BY <3>2 DEF ClientLeaves, TypeOK
    <3>3. CASE Tick
      <4>1. waited' \in 0..ReadTimeout /\ quiet' \in 0..AliveInterval
        BY <3>3, DvripAssumption DEF Tick, TypeOK
      <4>2. UNCHANGED <<sent, partial, gone, pc, handled, seq, stream,
                        replies>>
        BY <3>3 DEF Tick
      <4> QED
        BY <4>1, <4>2 DEF TypeOK
    <3> QED
      BY <1>2, <3>1, <3>2, <3>3
  <2> QED
    BY <1>2, <2>1, QuietStep DEF SendRest, ClientLeaves, Tick
<1> QED
  BY <1>1, <1>2

LEMMA ReadFailsInv ==
  ASSUME DvripInv, DeadlinePasses \/ ReadFails
  PROVE  DvripInv'
<1>1. TypeOK'
  BY DEF DvripInv, TypeOK, DeadlinePasses, ReadFails, Close, clientVars
<1> QED
  BY <1>1, QuietStep DEF DeadlinePasses, ReadFails, Close, clientVars

-----------------------------------------------------------------------------
(* Reading the next command: there is one, and it is not among the Claims  *)
(* unless it is one.                                                       *)
LEMMA TakeFacts ==
  ASSUME TypeOK, Take
  PROVE  /\ handled \in Nat /\ handled' = handled + 1 /\ handled' <= Len(sent)
         /\ sent' = sent /\ replies' = replies /\ Current = sent[handled']
         /\ Current \in Command
         /\ Claims' = IF Current.cmd = "claim" THEN Claims \cup {handled'}
                                               ELSE Claims
<1>1. /\ handled \in Nat /\ handled' = handled + 1 /\ handled' <= Len(sent)
      /\ sent' = sent /\ replies' = replies /\ Current = sent[handled']
  BY DEF TypeOK, Take, Available, Current, clientVars
<1>2. Current \in Command
  BY <1>1 DEF TypeOK
<1>3. Claims' = {i \in 1..(handled + 1) : sent[i].cmd = "claim"}
  BY <1>1 DEF Claims
<1>4. 1..(handled + 1) = 1..handled \cup {handled + 1}
  BY <1>1
<1> QED
  BY <1>1, <1>2, <1>3, <1>4 DEF Claims

LEMMA ReadLoginInv ==
  ASSUME DvripInv, ReadLogin
  PROVE  DvripInv'
<1> USE DEF DvripInv
<1>1. Take /\ pc = "login" /\ handled = 0 /\ Len(replies) = 0
  BY DEF ReadLogin, Progress
<1>2. /\ handled' = 1 /\ 1 <= Len(sent) /\ sent' = sent /\ replies' = replies
      /\ Current = sent[1] /\ Current \in Command
      /\ Claims' = IF Current.cmd = "claim" THEN Claims \cup {1} ELSE Claims
  BY <1>1, TakeFacts
<1>3. TypeOK'
  BY <1>2 DEF TypeOK, ReadLogin, Take, Close, Command, clientVars,
     ValidateLogin
<1>4. RepliesMatch' /\ StartedAsClaimed'
  BY <1>1, <1>2 DEF RepliesMatch, StartedAsClaimed, ReadLogin, Close
<1>5. Progress'
  BY <1>1, <1>2 DEF Progress, ReadLogin, Close, Command
<1>6. FollowsClaims'
  BY <1>1, <1>2 DEF FollowsClaims, ReadLogin, Close
<1> QED
  BY <1>3, <1>4, <1>5, <1>6

LEMMA ReadAnsweredInv ==
  ASSUME DvripInv, ReadAnswered
  PROVE  DvripInv'
<1> USE DEF DvripInv
<1>1. Take /\ pc = "loop" /\ handled > 0 /\ Len(replies) = handled
  BY DEF ReadAnswered, Progress
<1>2. /\ handled \in Nat /\ handled' = handled + 1 /\ handled' <= Len(sent)
      /\ sent' = sent /\ replies' = replies /\ Current = sent[handled']
      /\ Current \in Command
      /\ Claims' = IF Current.cmd = "claim" THEN Claims \cup {handled'}
                                            ELSE Claims
  BY <1>1, TakeFacts
<1>3. TypeOK'
  BY <1>2 DEF TypeOK, ReadAnswered, Take, Command, clientVars, Resolve, Streams
<1>4. RepliesMatch' /\ StartedAsClaimed'
  BY <1>1, <1>2 DEF RepliesMatch, StartedAsClaimed, ReadAnswered
<1>5. Progress'
  BY <1>1, <1>2 DEF Progress, ReadAnswered
<1>6. FollowsClaims'
  <2>1. CASE Current.cmd = "claim"
    BY <1>1, <1>2, <2>1 DEF FollowsClaims, ReadAnswered, Claims
  <2>2. CASE Current.cmd # "claim"
    BY <1>1, <1>2, <2>2 DEF FollowsClaims, ReadAnswered, Claims
  <2> QED
    BY <2>1, <2>2
<1> QED
  BY <1>3, <1>4, <1>5, <1>6

LEMMA ReadLastInv ==
  ASSUME DvripInv, ReadJunk \/ ReadStart
  PROVE  DvripInv'
<1> USE DEF DvripInv
<1>1. Take /\ pc = "loop" /\ handled > 0 /\ Len(replies) = handled
  BY DEF ReadJunk, ReadStart, Progress
<1>2. /\ handled \in Nat /\ handled' = handled + 1 /\ handled' <= Len(sent)
      /\ sent' = sent /\ replies' = replies /\ Current = sent[handled']
      /\ Current \in Command
      /\ Claims' = IF Current.cmd = "claim" THEN Claims \cup {handled'}
                                            ELSE Claims
  BY <1>1, TakeFacts
<1>3. TypeOK'
  BY <1>2 DEF TypeOK, ReadJunk, ReadStart, Take, Command, Close, clientVars,
     Streams
<1>4. RepliesMatch'
  BY <1>1, <1>2 DEF RepliesMatch
<1>5. Progress' /\ FollowsClaims'
  BY DEF Progress, FollowsClaims, ReadJunk, ReadStart, Close
<1>6. StartedAsClaimed'
  <2>1. CASE ReadJunk
    BY <2>1 DEF StartedAsClaimed, ReadJunk, Close
  <2>2. CASE ReadStart
    <3>1. Claims' = Claims /\ Current.cmd = "start"
      BY <1>2, <2>2 DEF ReadStart
    <3> QED
      BY <1>1, <1>2, <2>2, <3>1 DEF StartedAsClaimed, ReadStart, FollowsClaims,
         Progress, Resolve
  <2> QED
    BY <2>1, <2>2
<1> QED
  BY <1>3, <1>4, <1>5, <1>6

-----------------------------------------------------------------------------
(* Answering the command that was read last.                               *)
LEMMA AnswerInv ==
  ASSUME DvripInv, Answer \/ Refuse
  PROVE  DvripInv'
<1> USE DEF DvripInv
<1>1. /\ handled \in Nat /\ handled > 0 /\ handled <= Len(sent)
      /\ Len(replies) = handled - 1
      /\ sent[handled].cmd \in {"login", "claim", "keepalive"}
      /\ sent[handled].seq = seq
      /\ sent[handled] \in Command
  BY DEF Answer, Refuse, Progress, TypeOK
<1>2. /\ sent' = sent /\ handled' = handled /\ seq' = seq /\ stream' = stream
      /\ Claims' = Claims
  BY DEF Answer, Refuse, clientVars, Claims
<1>3. CASE replies' = replies /\ pc' = "closed"
  <2>1. TypeOK'
    BY <1>1, <1>2, <1>3, DvripAssumption DEF TypeOK, Answer, Refuse,
       clientVars
  <2> QED
    BY <1>2, <1>3, <2>1, QuietStep
<1>4. CASE \E ret \in Ret :
             Answered(ret) /\ (ret = 100 \/ pc' = "closed")
             /\ pc' \in {"loop", "closed"}
  <2>1. PICK ret \in Ret :
          Answered(ret) /\ (ret = 100 \/ pc' = "closed")
          /\ pc' \in {"loop", "closed"}
    BY <1>4
  <2> DEFINE new == [cmd |-> sent[handled].cmd, seq |-> seq, ret |-> ret]
  <2>2. new \in Reply
    BY <1>1 DEF Reply, Command
  <2>3. /\ replies' = Append(replies, new) /\ replies \in Seq(Reply)
        /\ Len(replies') = handled /\ replies'[handled] = new
        /\ \A i \in 1..(handled - 1) : replies'[i] = replies[i]
    BY <1>1, <2>1, <2>2 DEF Answered, TypeOK
  <2>4. TypeOK'
    BY <1>1, <1>2, <2>1, <2>2, <2>3, DvripAssumption DEF TypeOK, Answer,
       Refuse, clientVars
  <2>5. RepliesMatch'
    BY <1>1, <1>2, <2>3 DEF RepliesMatch
  <2>6. Progress'
    BY <1>1, <1>2, <2>1, <2>3 DEF Progress, Answer, Refuse, Close
  <2>7. FollowsClaims' /\ StartedAsClaimed'
    BY <1>1, <1>2, <2>1 DEF FollowsClaims, StartedAsClaimed, Answer, Refuse,
       Close
  <2> QED
    BY <2>4, <2>5, <2>6, <2>7
<1> QED
  BY <1>3, <1>4 DEF Answer, Refuse, Close, Ret

-----------------------------------------------------------------------------
LEMMA DvripInvNext == DvripInv /\ [Next]_vars => DvripInv'
<1> SUFFICES ASSUME DvripInv, [Next]_vars PROVE DvripInv'
  OBVIOUS
<1>1. CASE UNCHANGED vars
  <2>1. TypeOK'
    BY <1>1 DEF vars, clientVars, serverVars, DvripInv, TypeOK
  <2> QED
    BY <1>1, <2>1, QuietStep DEF vars, clientVars, serverVars
<1> QED
  BY <1>1, ClientInv, ReadFailsInv, ReadLoginInv, ReadAnsweredInv, ReadLastInv,
     AnswerInv DEF Next, ServerStep

THEOREM DvripInvariant == Spec => []DvripInv
BY DvripInvInit, DvripInvNext, PTL DEF Spec

(* The shape of a connection's state.                                      *)
THEOREM DvripTypeCorrect == Spec => []TypeOK
<1>1. DvripInv => TypeOK
  BY DEF DvripInv
<1> QED
  BY <1>1, DvripInvariant, PTL

(* However far a client pipelines, each answer is to its own command.      *)
THEOREM EveryReplyMatches == Spec => []RepliesMatch
<1>1. DvripInv => RepliesMatch
  BY DEF DvripInv
<1> QED
  BY <1>1, DvripInvariant, PTL

(* Start shows what the last Claim asked for, after all was answered.      *)
THEOREM StartFollowsClaims == Spec => []StartedAsClaimed
<1>1. DvripInv => StartedAsClaimed
  BY DEF DvripInv
<1> QED
  BY <1>1, DvripInvariant, PTL
=============================================================================

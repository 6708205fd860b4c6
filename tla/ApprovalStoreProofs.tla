------------------------ MODULE ApprovalStoreProofs ------------------------
(***************************************************************************)
(* Theorems about ApprovalStore, for any requests, keys and channel size.  *)
(*                                                                         *)
(* The inductive invariant adds two facts to the invariants the runs       *)
(* check: a "yes" waiting on a channel is backed by a grant (so the        *)
(* receiver is entitled to it), and an answer can only be on the channel   *)
(* of a request that has registered and not finished waiting.              *)
(***************************************************************************)
EXTENDS ApprovalStore, SequenceTheorems, TLAPS

AnswerIsBacked ==
    \A r \in Requests :
        /\ answer[r] # "none" => pc[r] \in {"notify", "await", "expired"}
        /\ answer[r] = "yes" => key[r] \in granted

IInv ==
    /\ TypeOK
    /\ PermitNeedsGrant
    /\ WaitersAreLive
    /\ AnswerIsBacked
    /\ SilencedKeysAreGranted

\* The notify channel is a bounded queue of keys; sending and receiving keep it one.
LEMMA NotifyQueue ==
    ASSUME NEW q \in Seq(Keys), Len(q) <= NotifyCap
    PROVE  /\ \A k \in Keys : Len(q) < NotifyCap =>
                 Append(q, k) \in Seq(Keys) /\ Len(Append(q, k)) <= NotifyCap
           /\ q # <<>> => /\ Head(q) \in Keys
                          /\ Tail(q) \in Seq(Keys)
                          /\ Len(Tail(q)) <= NotifyCap
<1>1. NotifyCap \in Nat
  BY ApprovalAssumption
<1>2. ASSUME NEW k \in Keys, Len(q) < NotifyCap
      PROVE  Append(q, k) \in Seq(Keys) /\ Len(Append(q, k)) <= NotifyCap
  BY <1>1, <1>2
<1>3. ASSUME q # <<>>
      PROVE  Head(q) \in Keys /\ Tail(q) \in Seq(Keys) /\ Len(Tail(q)) <= NotifyCap
  BY <1>1, <1>3
<1> QED
  BY <1>2, <1>3

LEMMA InitIInv == Init => IInv
<1> SUFFICES ASSUME Init PROVE IInv
  OBVIOUS
<1>1. TypeOK
  BY ApprovalAssumption DEF Init, TypeOK, Locations
<1>2. PermitNeedsGrant /\ WaitersAreLive /\ AnswerIsBacked /\ SilencedKeysAreGranted
  BY DEF Init, PermitNeedsGrant, WaitersAreLive, AnswerIsBacked, SilencedKeysAreGranted
<1> QED
  BY <1>1, <1>2 DEF IInv

LEMMA NextIInv == IInv /\ [Next]_vars => IInv'
<1> SUFFICES ASSUME IInv, [Next]_vars PROVE IInv'
  OBVIOUS
<1> USE DEF IInv, TypeOK, Modes, Locations, Decided, storeVars, loopVars, Go,
            PermitNeedsGrant, WaitersAreLive, AnswerIsBacked, SilencedKeysAreGranted
<1>1. ASSUME NEW r \in Requests, NEW k \in Keys, NeedApproval(r, k) PROVE IInv'
  BY <1>1 DEF NeedApproval
<1>2. ASSUME NEW r \in Requests, IsApproved(r) PROVE IInv'
  BY <1>2 DEF IsApproved
<1>3. ASSUME NEW r \in Requests, InlinePrompt(r) PROVE IInv'
  BY <1>3 DEF InlinePrompt, Approve, Signal
<1>4. ASSUME NEW r \in Requests, FastPath(r) PROVE IInv'
  BY <1>4 DEF FastPath
<1>5. ASSUME NEW r \in Requests, Register(r) PROVE IInv'
  BY <1>5 DEF Register
<1>6. ASSUME NEW r \in Requests, Notify(r) PROVE IInv'
  <2>1. notify' \in Seq(Keys) /\ Len(notify') <= NotifyCap
    BY <1>6, NotifyQueue DEF Notify
  <2> QED
    BY <1>6, <2>1 DEF Notify
<1>7. ASSUME NEW r \in Requests, Receive(r) PROVE IInv'
  BY <1>7 DEF Receive
<1>8. ASSUME NEW r \in Requests, Expire(r) PROVE IInv'
  BY <1>8 DEF Expire
<1>9. ASSUME NEW r \in Requests, RemoveWaiter(r) PROVE IInv'
  BY <1>9 DEF RemoveWaiter
<1>10. ASSUME NEW r \in Requests, Finish(r) PROVE IInv'
  BY <1>10 DEF Finish
<1>11. ASSUME NEW k \in Keys, HandleApprove(k) PROVE IInv'
  BY <1>11 DEF HandleApprove, Approve, Signal
<1>12. CASE LoopReceive
  <2>1. Head(notify) \in Keys /\ notify' \in Seq(Keys) /\ Len(notify') <= NotifyCap
    BY <1>12, NotifyQueue DEF LoopReceive
  <2> QED
    BY <1>12, <2>1 DEF LoopReceive
<1>13. CASE LoopCheck
  BY <1>13 DEF LoopCheck
<1>14. CASE LoopAllow
  BY <1>14 DEF LoopAllow, Approve, Signal
<1>15. CASE LoopDeny
  BY <1>15 DEF LoopDeny, Deny, Signal
<1>16. CASE UNCHANGED vars
  BY <1>16 DEF vars
<1> QED
  BY <1>1, <1>2, <1>3, <1>4, <1>5, <1>6, <1>7, <1>8, <1>9, <1>10, <1>11, <1>12,
     <1>13, <1>14, <1>15, <1>16
  DEF Next, RequestStep, WaitStep, LoopStep

LEMMA AlwaysIInv == Spec => []IInv
<1> QED
  BY InitIInv, NextIInv, PTL DEF Spec

-----------------------------------------------------------------------------

\* Every variable keeps its type and the notify channel its capacity.
THEOREM TypeCorrect == Spec => []TypeOK
<1>1. IInv => TypeOK
  BY DEF IInv
<1> QED
  BY <1>1, AlwaysIInv, PTL

\* No interleaving of requests, prompts, timeouts and approvals lets a request
\* through on a key nobody granted.
THEOREM PermitSafe == Spec => []PermitNeedsGrant
<1>1. IInv => PermitNeedsGrant
  BY DEF IInv
<1> QED
  BY <1>1, AlwaysIInv, PTL

\* Registered waiters are those of requests still waiting, with empty channels.
THEOREM NoWaiterLeaks == Spec => []WaitersAreLive
<1>1. IInv => WaitersAreLive
  BY DEF IInv
<1> QED
  BY <1>1, AlwaysIInv, PTL

\* A key the terminal no longer prompts for has been granted.
THEOREM NoKeySilenced == Spec => []SilencedKeysAreGranted
<1>1. IInv => SilencedKeysAreGranted
  BY DEF IInv
<1> QED
  BY <1>1, AlwaysIInv, PTL

-----------------------------------------------------------------------------
(* The store implements the gate.                                          *)

LEMMA InitRefines == Init => Gate!GateInit
<1> SUFFICES ASSUME Init PROVE Gate!GateInit
  OBVIOUS
<1> QED
  BY DEF Init, Gate!GateInit, Phase

LEMMA StepRefines == IInv /\ [Next]_vars => [Gate!GateNext]_(Gate!gateVars)
<1> SUFFICES ASSUME IInv, [Next]_vars PROVE [Gate!GateNext]_(Gate!gateVars)
  OBVIOUS
<1> USE DEF IInv, TypeOK, Locations, Decided, storeVars, loopVars, Go, Phase,
            Gate!GateNext, Gate!gateVars, Gate!Move
<1>1. ASSUME NEW r \in Requests, NEW k \in Keys, NeedApproval(r, k)
      PROVE  Gate!Ask(r, k)
  BY <1>1 DEF NeedApproval, Gate!Ask
<1>2. ASSUME NEW r \in Requests, IsApproved(r)
      PROVE  Gate!Permit(r) \/ UNCHANGED Gate!gateVars
  BY <1>2 DEF IsApproved, Gate!Permit
<1>3. ASSUME NEW r \in Requests, InlinePrompt(r)
      PROVE  Gate!GrantAndPermit(r) \/ Gate!Refuse(r) \/ UNCHANGED Gate!gateVars
  BY <1>3 DEF InlinePrompt, Approve, Gate!GrantAndPermit, Gate!Refuse
<1>4. ASSUME NEW r \in Requests, FastPath(r)
      PROVE  Gate!Permit(r) \/ UNCHANGED Gate!gateVars
  BY <1>4 DEF FastPath, Gate!Permit
<1>5. ASSUME NEW r \in Requests, Register(r) \/ Notify(r) \/ Expire(r)
      PROVE  UNCHANGED Gate!gateVars
  BY <1>5 DEF Register, Notify, Expire
<1>6. ASSUME NEW r \in Requests, Receive(r)
      PROVE  Gate!Permit(r) \/ Gate!Refuse(r)
  BY <1>6 DEF Receive, AnswerIsBacked, Gate!Permit, Gate!Refuse
<1>7. ASSUME NEW r \in Requests, RemoveWaiter(r)
      PROVE  Gate!Refuse(r)
  BY <1>7 DEF RemoveWaiter, Gate!Refuse
<1>8. ASSUME NEW r \in Requests, Finish(r)
      PROVE  Gate!Leave(r)
  BY <1>8 DEF Finish, Gate!Leave
<1>9. ASSUME NEW k \in Keys, HandleApprove(k)
      PROVE  Gate!Grant(k)
  BY <1>9 DEF HandleApprove, Approve, Gate!Grant
<1>10. CASE LoopAllow
  BY <1>10 DEF LoopAllow, Approve, Gate!Grant
<1>11. CASE LoopReceive \/ LoopCheck \/ LoopDeny \/ UNCHANGED vars
  BY <1>11 DEF LoopReceive, LoopCheck, LoopDeny, Deny, vars
<1> QED
  BY <1>1, <1>2, <1>3, <1>4, <1>5, <1>6, <1>7, <1>8, <1>9, <1>10, <1>11
  DEF Next, RequestStep, WaitStep, LoopStep

\* Whatever the goroutines, the prompts and the timers do, the store shows its
\* callers only what the gate allows.
THEOREM StoreImplementsGate == Spec => ImplementsGate
<1> QED
  BY InitRefines, StepRefines, AlwaysIInv, PTL DEF Spec, ImplementsGate, Gate!GateSpec
=============================================================================

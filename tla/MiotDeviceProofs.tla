-------------------------- MODULE MiotDeviceProofs --------------------------
(***************************************************************************)
(* Proofs about MiotDevice for any number of nodes, calls, properties per  *)
(* call and any stamp width.                                               *)
(***************************************************************************)
EXTENDS MiotDevice, TLAPS

Commanding == {"loading", "loaded", "cached", "savingCached", "handshake", "greeted",
               "fresh", "savingFresh"}
Discovering == {"discovering", "discovered", "savingDiscover"}

\* Every packet of call c that attempt t needs got an answer the transport accepts.
Answered(c, t) == \A i \in 1 .. plan[c].size : <<t, i>> \in Accepted(c)

\* What a step without the device leaves alone.
SameAnswers ==
    \A d \in Calls :
        Accepted(d)' = Accepted(d) /\ Judged(d)' = Judged(d) /\ IsCommand(d)' = IsCommand(d)

LEMMA NothingAnswered ==
    ASSUME UNCHANGED <<plan, executed, refused>>
    PROVE  SameAnswers
BY DEF SameAnswers, Accepted, Judged, IsCommand

\* A call is in a phase of its own operation.
PhaseInv ==
    \A c \in Calls :
        /\ pc[c] \in Commanding => IsCommand(c)
        /\ pc[c] \in Discovering => ~IsCommand(c)
        /\ pc[c] \in {"greeted", "discovered", "savingDiscover"} => got[c] \in Stamps
        /\ pc[c] \in {"savingCached", "savingFresh"} => stamp[c] \in Stamps

\* A packet on the wire belongs to an attempt its call has begun, is not ahead of the
\* packet the call waits for, and that packet carries the stamp the call remembers.
NetInv ==
    \A p \in net :
        /\ IsCommand(p.call)
        /\ p.idx \in 1 .. plan[p.call].size
        /\ pc[p.call] \notin {"new", "loading", "loaded"}
        /\ p.try = 2 => pc[p.call] \in {"fresh", "savingFresh", "ok", "failed"}
        /\ Awaiting(p.call) /\ p.try = Try(p.call) =>
              /\ p.idx <= cur[p.call]
              /\ p.idx = cur[p.call] => p.stamp = stamp[p.call]

\* An open exchange follows answered ones, and its answer comes from the device.
ExchangeOK(c) ==
    /\ Awaiting(c) =>
          /\ cur[c] <= plan[c].size
          /\ \A i \in 1 .. cur[c] - 1 : <<Try(c), i>> \in Accepted(c)
    /\ reply[c] # "none" => Awaiting(c) /\ stamp[c] \in Stamps
    /\ reply[c] = "ok" => <<Try(c), cur[c]>> \in Accepted(c)

ExchangeInv == \A c \in Calls : ExchangeOK(c)

Finished(c) ==
    \/ pc[c] \in {"savingCached", "savingFresh"}
    \/ pc[c] = "ok" /\ IsCommand(c)

DoneOK(c) == Finished(c) => \E t \in {1, 2} : Answered(c, t)

DoneInv == \A c \in Calls : DoneOK(c)

IInv == TypeOK /\ PhaseInv /\ NetInv /\ ExchangeInv /\ DoneInv

-----------------------------------------------------------------------------
(* Opening an exchange: packet i of attempt t goes out, or cannot be encoded. *)
Opens(c, t, i, s) ==
    /\ IsCommand(c)
    /\ t \in {1, 2} /\ i \in 1 .. plan[c].size /\ s \in 0 .. StampLimit + 1
    /\ \A p \in net : p.call = c => (p.try = 2 => t = 2) /\ (p.try = t => p.idx < i)
    /\ \A j \in 1 .. i - 1 : <<t, j>> \in Accepted(c)
    /\ Transmit(c, t, i, s)
    /\ pc' = [pc EXCEPT ![c] = IF t = 1 THEN "cached" ELSE "fresh"]
    /\ UNCHANGED <<plan, executed, refused>>

ExchangeTyped ==
    /\ stamp \in [Calls -> 0 .. StampLimit + 1]
    /\ cur \in [Calls -> 1 .. MaxProps]
    /\ reply \in [Calls -> {"none", "ok", "error"}]
    /\ net \subseteq Packet
    /\ lastSent \in [Nodes -> Stamps \cup {NoStamp}]

LEMMA TransmitOpens ==
    ASSUME NEW c \in Calls, NEW t, NEW i, NEW s, IInv, Opens(c, t, i, s)
    PROVE  ExchangeTyped' /\ NetInv' /\ ExchangeInv' /\ DoneInv'
<1> USE MiotDeviceAssumption DEF IInv, Stamps
<1> DEFINE new == [call |-> c, try |-> t, idx |-> i, stamp |-> s]
<1>0. /\ IsCommand(c)
      /\ t \in {1, 2} /\ i \in 1 .. plan[c].size /\ s \in 0 .. StampLimit + 1
      /\ \A p \in net : p.call = c => (p.try = 2 => t = 2) /\ (p.try = t => p.idx < i)
      /\ \A j \in 1 .. i - 1 : <<t, j>> \in Accepted(c)
      /\ Transmit(c, t, i, s)
      /\ pc' = [pc EXCEPT ![c] = IF t = 1 THEN "cached" ELSE "fresh"]
      /\ UNCHANGED <<plan, executed, refused>>
    BY DEF Opens
<1>0a. \A d \in Calls : Accepted(d)' = Accepted(d) /\ IsCommand(d)' = IsCommand(d)
    BY <1>0, NothingAnswered DEF SameAnswers
<1>1. /\ i \in 1 .. MaxProps
      /\ plan[c].size \in 1 .. MaxProps
      /\ plan[c].node \in Nodes
    BY <1>0 DEF TypeOK, Plan
<1>2. /\ stamp' = [stamp EXCEPT ![c] = s]
      /\ cur' = [cur EXCEPT ![c] = i]
      /\ reply' = [reply EXCEPT ![c] = "none"]
    BY <1>0 DEF Transmit
<1>3. net' \subseteq net \cup {new} /\ (new \in net' \/ net' \subseteq net)
    BY <1>0 DEF Transmit
<1>4. s > StampLimit => net' = net
    BY <1>0 DEF Transmit
<1>5. net' \subseteq Packet
    BY <1>0, <1>1, <1>3, <1>4 DEF TypeOK, Packet
<1>6. lastSent' \in [Nodes -> Stamps \cup {NoStamp}]
    BY <1>0, <1>1 DEF Transmit, TypeOK, Node
<1>7. pc'[c] = (IF t = 1 THEN "cached" ELSE "fresh") /\ \A d \in Calls : d # c => pc'[d] = pc[d]
    BY <1>0 DEF TypeOK
<1>8. Awaiting(c)' /\ Try(c)' = t
    BY <1>0, <1>7 DEF Awaiting, Try
<1>9. NetInv'
    <2> SUFFICES ASSUME NEW p \in net'
                 PROVE  /\ IsCommand(p.call)'
                        /\ p.idx \in 1 .. plan'[p.call].size
                        /\ pc'[p.call] \notin {"new", "loading", "loaded"}
                        /\ p.try = 2 => pc'[p.call] \in {"fresh", "savingFresh", "ok", "failed"}
                        /\ Awaiting(p.call)' /\ p.try = Try(p.call)' =>
                              /\ p.idx <= cur'[p.call]
                              /\ p.idx = cur'[p.call] => p.stamp = stamp'[p.call]
        BY DEF NetInv
    <2>1. CASE p \in net /\ p.call = c
        BY <2>1, <1>0, <1>0a, <1>1, <1>2, <1>7, <1>8 DEF NetInv, TypeOK, Packet
    <2>2. CASE p \in net /\ p.call # c
        <3>1. p.call \in Calls
            BY <2>2 DEF TypeOK, Packet
        <3>2. Awaiting(p.call)' = Awaiting(p.call) /\ Try(p.call)' = Try(p.call)
            BY <2>2, <3>1, <1>7 DEF Awaiting, Try
        <3>3. QED
            BY <2>2, <3>1, <3>2, <1>0, <1>0a, <1>2, <1>7 DEF NetInv, TypeOK
    <2>3. CASE p = new
        BY <2>3, <1>0, <1>0a, <1>1, <1>2, <1>7, <1>8 DEF TypeOK
    <2>4. QED
        BY <2>1, <2>2, <2>3, <1>3
<1>10. ExchangeInv'
    <2> SUFFICES ASSUME NEW d \in Calls
                 PROVE  ExchangeOK(d)'
        BY DEF ExchangeInv
    <2>1. CASE d = c
        BY <2>1, <1>0, <1>0a, <1>1, <1>2, <1>7, <1>8 DEF ExchangeOK, TypeOK
    <2>2. CASE d # c
        <3>1. Awaiting(d)' = Awaiting(d) /\ Try(d)' = Try(d)
            BY <2>2, <1>7 DEF Awaiting, Try
        <3>2. ExchangeOK(d)
            BY DEF ExchangeInv
        <3>3. QED
            BY <2>2, <3>1, <3>2, <1>0, <1>0a, <1>2 DEF ExchangeOK, TypeOK
    <2>3. QED
        BY <2>1, <2>2
<1>11. DoneInv'
    BY <1>0, <1>0a, <1>7 DEF DoneInv, DoneOK, Finished, Answered
<1>12. QED
    BY <1>0, <1>1, <1>2, <1>5, <1>6, <1>9, <1>10, <1>11 DEF TypeOK, ExchangeTyped

\* When a call's packet is answered, the device obeyed the attempt up to that packet.
LEMMA AnsweredSoFar ==
    ASSUME NEW c \in Calls, IInv, Awaiting(c), reply[c] = "ok"
    PROVE  /\ Try(c) \in {1, 2}
           /\ \A j \in 1 .. cur[c] : <<Try(c), j>> \in Accepted(c)
<1> USE DEF IInv
<1>0. cur[c] \in Nat
    BY DEF TypeOK
<1>1. /\ cur[c] \in Nat
      /\ <<Try(c), cur[c]>> \in Accepted(c)
      /\ \A j \in 1 .. cur[c] - 1 : <<Try(c), j>> \in Accepted(c)
    BY <1>0 DEF ExchangeInv, ExchangeOK
<1>2. \A j \in 1 .. cur[c] : j = cur[c] \/ j \in 1 .. cur[c] - 1
    BY <1>1
<1>3. QED
    BY <1>1, <1>2 DEF Try

\* Call c moves to label l without sending anything; its socket is closed, or was not open.
Relabels(c, l) ==
    /\ pc' = [pc EXCEPT ![c] = l]
    /\ UNCHANGED <<plan, stamp, cur, executed, refused>>
    /\ net' \subseteq net
    /\ \A d \in Calls : d # c => got'[d] = got[d] /\ reply'[d] = reply[d]
    /\ reply'[c] = "none" \/ (reply'[c] = reply[c] /\ ~Awaiting(c))

\* A call may take the label: it fits its operation, what it knows and what it has done.
Fits(c, l) ==
    /\ pc[c] \notin Settled
    /\ l \notin {"new", "cached", "fresh"}
    /\ l \in Commanding => IsCommand(c)
    /\ l \in Discovering => ~IsCommand(c)
    /\ l \in {"loading", "loaded"} => pc[c] \in {"new", "loading"}
    /\ l \in {"greeted", "discovered", "savingDiscover"} => got'[c] \in Stamps
    /\ l \in {"savingCached", "savingFresh"} => stamp[c] \in Stamps
    /\ pc[c] \in {"fresh", "savingFresh"} => l \in {"savingFresh", "ok", "failed"}
    /\ l \in {"savingCached", "savingFresh"} \/ (l = "ok" /\ IsCommand(c)) =>
           \E t \in {1, 2} : Answered(c, t)

LEMMA RelabelStep ==
    ASSUME NEW c \in Calls, NEW l \in PC, IInv, TypeOK', Relabels(c, l), Fits(c, l)
    PROVE  IInv'
<1>0. /\ pc'[c] = l /\ \A d \in Calls : d # c => pc'[d] = pc[d]
      /\ UNCHANGED <<plan, stamp, cur, executed, refused>> /\ net' \subseteq net
      /\ \A d \in Calls : d # c => got'[d] = got[d] /\ reply'[d] = reply[d]
    BY DEF IInv, TypeOK, Relabels
<1>0a. \A d \in Calls : Accepted(d)' = Accepted(d) /\ IsCommand(d)' = IsCommand(d)
    BY <1>0, NothingAnswered DEF SameAnswers
<1>0b. \A p \in net : p.call \in Calls
    BY DEF IInv, TypeOK, Packet
<1>1. /\ ~(Awaiting(c)') /\ reply'[c] = "none"
      /\ \A d \in Calls : d # c => Awaiting(d)' = Awaiting(d) /\ Try(d)' = Try(d)
    BY <1>0 DEF IInv, ExchangeInv, ExchangeOK, Relabels, Fits, Awaiting, Try
<1>2. PhaseInv'
    BY <1>0, <1>0a DEF IInv, PhaseInv, Fits, Commanding, Discovering
<1>3. NetInv'
    <2> SUFFICES ASSUME NEW p \in net
                 PROVE  /\ IsCommand(p.call)
                        /\ p.idx \in 1 .. plan[p.call].size
                        /\ pc'[p.call] \notin {"new", "loading", "loaded"}
                        /\ p.try = 2 => pc'[p.call] \in {"fresh", "savingFresh", "ok", "failed"}
                        /\ Awaiting(p.call)' /\ p.try = Try(p.call)' =>
                              /\ p.idx <= cur[p.call]
                              /\ p.idx = cur[p.call] => p.stamp = stamp[p.call]
        BY <1>0, <1>0a, <1>0b DEF NetInv
    <2>1. p.call \in Calls
        BY <1>0b
    <2>2. CASE p.call # c
        BY <2>1, <2>2, <1>0, <1>0a, <1>1 DEF IInv, NetInv
    <2>3. CASE p.call = c
        BY <2>3, <1>0, <1>0a, <1>1 DEF IInv, NetInv, Fits, Settled
    <2>4. QED
        BY <2>2, <2>3
<1>4. ExchangeInv'
    BY <1>0, <1>0a, <1>1 DEF IInv, ExchangeInv, ExchangeOK
<1>5. DoneInv'
    <2>1. \A d \in Calls : d # c => DoneOK(d)'
        BY <1>0, <1>0a DEF IInv, DoneInv, DoneOK, Finished, Answered
    <2>2. DoneOK(c)'
        BY <1>0, <1>0a DEF DoneOK, Finished, Answered, Fits
    <2>3. QED
        BY <2>1, <2>2 DEF DoneInv
<1>6. QED
    BY <1>2, <1>3, <1>4, <1>5 DEF IInv

\* The steps of a call that send nothing.
LEMMA BeginStep ==
    ASSUME NEW c \in Calls, IInv, StartDiscover(c) \/ StartUnknown(c)
    PROVE  IInv'
<1>1. PICK l \in {"discovering", "failed"} :
          /\ pc' = [pc EXCEPT ![c] = l] /\ pc[c] = "new"
          /\ l = "discovering" => ~IsCommand(c)
          /\ UNCHANGED <<mode, plan, clientVars, got, stamp, cur, reply, deviceVars, lastSent>>
    BY DEF StartDiscover, StartUnknown, Begin, Goto, IsCommand, deviceVars
<1>2. l \in PC
    BY DEF PC, Settled
<1>3. TypeOK'
    BY <1>1, <1>2 DEF IInv, TypeOK, clientVars, deviceVars
<1>4. Relabels(c, l)
    BY <1>1 DEF Relabels, Awaiting, deviceVars
<1>5. Fits(c, l)
    BY <1>1 DEF Fits, Commanding, Discovering, Settled
<1>6. QED
    BY <1>2, <1>3, <1>4, <1>5, RelabelStep

LEMMA StoreReadStep ==
    ASSUME NEW c \in Calls, IInv, StoreReads(c) \/ StoreReadFails(c)
    PROVE  IInv'
<1>1. PICK l \in {"loaded", "failed"} :
          /\ pc' = [pc EXCEPT ![c] = l] /\ pc[c] = "loading"
          /\ got' \in {got, [got EXCEPT ![c] = store]}
          /\ UNCHANGED <<mode, plan, clientVars, stamp, cur, reply, deviceVars, lastSent>>
    BY DEF StoreReads, StoreReadFails, Goto
<1>2. l \in PC
    BY DEF PC, Settled
<1>3. TypeOK'
    BY <1>1, <1>2 DEF IInv, TypeOK, clientVars, deviceVars
<1>4. Relabels(c, l)
    BY <1>1 DEF IInv, TypeOK, Relabels, Awaiting, deviceVars
<1>5. Fits(c, l)
    BY <1>1 DEF IInv, PhaseInv, Fits, Commanding, Discovering, Settled
<1>6. QED
    BY <1>2, <1>3, <1>4, <1>5, RelabelStep

LEMMA HandshakeStep ==
    ASSUME NEW c \in Calls, IInv, DeviceHello(c) \/ HandshakeFails(c)
    PROVE  IInv'
<1>1. PICK l \in {"greeted", "discovered", "failed"} :
          /\ pc' = [pc EXCEPT ![c] = l]
          /\ pc[c] \in {"handshake", "greeted", "discovering", "discovered"}
          /\ l = "greeted" => pc[c] = "handshake" /\ got' = [got EXCEPT ![c] = devStamp]
          /\ l = "discovered" => pc[c] = "discovering" /\ got' = [got EXCEPT ![c] = devStamp]
          /\ l = "failed" => got' = got
          /\ UNCHANGED <<mode, plan, clientVars, stamp, cur, reply, deviceVars, lastSent>>
    BY DEF DeviceHello, HandshakeFails, Goto
<1>2. l \in PC
    BY DEF PC, Settled
<1>3. TypeOK'
    BY <1>1, <1>2 DEF IInv, TypeOK, clientVars, deviceVars
<1>4. Relabels(c, l)
    BY <1>1 DEF IInv, TypeOK, Relabels, Awaiting, deviceVars
<1>5. Fits(c, l)
    BY <1>1 DEF IInv, TypeOK, PhaseInv, Fits, Commanding, Discovering, Settled
<1>6. QED
    BY <1>2, <1>3, <1>4, <1>5, RelabelStep

LEMMA StampStateTyped ==
    ASSUME NEW c \in Calls, NEW s \in Stamps \cup {NoStamp}, IInv, SetStampState(c, s)
    PROVE  stampState' \in [Nodes -> Stamps \cup {NoStamp}]
BY DEF IInv, TypeOK, SetStampState

LEMMA DiscoveredStep ==
    ASSUME NEW c \in Calls, IInv, Discovered(c)
    PROVE  IInv'
<1>1. PICK l \in {"savingDiscover", "ok"} :
          /\ pc' = [pc EXCEPT ![c] = l] /\ pc[c] = "discovered"
          /\ UNCHANGED <<mode, plan, store, got, stamp, cur, reply, deviceVars, lastSent>>
    BY DEF Discovered, Goto
<1>2. l \in PC /\ ~IsCommand(c) /\ got[c] \in Stamps
    BY <1>1 DEF PC, Settled, IInv, PhaseInv, Discovering
<1>3. /\ stampState' \in [Nodes -> Stamps \cup {NoStamp}]
      /\ deviceKnown' \in [Nodes -> BOOLEAN]
    BY <1>2, StampStateTyped DEF Discovered, IInv, TypeOK
<1>4. TypeOK'
    BY <1>1, <1>2, <1>3 DEF IInv, TypeOK, deviceVars
<1>5. Relabels(c, l)
    BY <1>1 DEF Relabels, Awaiting, deviceVars
<1>6. Fits(c, l)
    BY <1>1, <1>2 DEF Fits, Commanding, Discovering, Settled
<1>7. QED
    BY <1>2, <1>4, <1>5, <1>6, RelabelStep

\* Closing a socket loses packets and answers only.
LEMMA ClosingTyped ==
    ASSUME NEW c \in Calls, IInv, CloseSocket(c)
    PROVE  /\ net' \subseteq net /\ net' \subseteq Packet
           /\ reply' \in [Calls -> {"none", "ok", "error"}] /\ reply'[c] = "none"
           /\ \A d \in Calls : d # c => reply'[d] = reply[d]
BY DEF IInv, TypeOK, CloseSocket

LEMMA FinishStep ==
    ASSUME NEW c \in Calls, IInv, Finish(c)
    PROVE  IInv'
<1>1. PICK l \in {"savingCached", "savingFresh", "ok"} :
          /\ pc' = [pc EXCEPT ![c] = l]
          /\ pc[c] \in {"cached", "fresh"}
          /\ pc[c] = "fresh" => l # "savingCached"
          /\ UNCHANGED <<mode, plan, deviceKnown, store, got, stamp, cur, devStamp, executed,
                         refused, lastSent>>
    BY DEF Finish, Goto, Awaiting
<1>2. l \in PC /\ IsCommand(c) /\ stamp[c] \in Stamps
    BY <1>1 DEF PC, Settled, IInv, PhaseInv, Commanding, Finish, ExchangeInv, ExchangeOK
<1>3. stampState' \in [Nodes -> Stamps \cup {NoStamp}]
    BY <1>2, StampStateTyped DEF Finish
<1>4. /\ net' \subseteq net /\ net' \subseteq Packet
      /\ reply' \in [Calls -> {"none", "ok", "error"}] /\ reply'[c] = "none"
      /\ \A d \in Calls : d # c => reply'[d] = reply[d]
    BY ClosingTyped DEF Finish
<1>5. TypeOK'
    BY <1>1, <1>2, <1>3, <1>4 DEF IInv, TypeOK
<1>6. Relabels(c, l)
    BY <1>1, <1>4 DEF Relabels
<1>7. \E t \in {1, 2} : Answered(c, t)
    BY AnsweredSoFar DEF Answered, Finish
<1>8. Fits(c, l)
    BY <1>1, <1>2, <1>7 DEF Fits, Commanding, Discovering, Settled
<1>9. QED
    BY <1>2, <1>5, <1>6, <1>8, RelabelStep

LEMMA ExchangeFailsStep ==
    ASSUME NEW c \in Calls, IInv, ExchangeFails(c)
    PROVE  IInv'
<1>1. PICK l \in {"handshake", "failed"} :
          /\ pc' = [pc EXCEPT ![c] = l]
          /\ pc[c] \in {"cached", "fresh"}
          /\ pc[c] = "fresh" => l = "failed"
          /\ UNCHANGED <<mode, plan, deviceKnown, store, got, stamp, cur, devStamp, executed,
                         refused, lastSent>>
    BY DEF ExchangeFails, Goto, Awaiting
<1>2. l \in PC /\ IsCommand(c) /\ NoStamp \in Stamps \cup {NoStamp}
    BY <1>1 DEF PC, Settled, IInv, PhaseInv, Commanding
<1>3. stampState' \in [Nodes -> Stamps \cup {NoStamp}]
    BY <1>2, StampStateTyped DEF ExchangeFails, IInv, TypeOK
<1>4. /\ net' \subseteq net /\ net' \subseteq Packet
      /\ reply' \in [Calls -> {"none", "ok", "error"}] /\ reply'[c] = "none"
      /\ \A d \in Calls : d # c => reply'[d] = reply[d]
    BY ClosingTyped DEF ExchangeFails
<1>5. TypeOK'
    BY <1>1, <1>2, <1>3, <1>4 DEF IInv, TypeOK
<1>6. Relabels(c, l)
    BY <1>1, <1>4 DEF Relabels
<1>7. Fits(c, l)
    BY <1>1, <1>2 DEF Fits, Commanding, Discovering, Settled
<1>8. QED
    BY <1>2, <1>5, <1>6, <1>7, RelabelStep

\* setStamp settles: done, failed, or on to a handshake when it was a cached stamp's.
LEMMA StoreWriteStep ==
    ASSUME NEW c \in Calls, IInv, StoreWrites(c) \/ StoreWriteFails(c)
    PROVE  IInv'
<1>1. PICK l \in {"ok", "handshake", "failed"} :
          /\ pc' = [pc EXCEPT ![c] = l] /\ Saving(c)
          /\ l = "handshake" => pc[c] = "savingCached"
          /\ store' \in {store, Saved(c)}
          /\ UNCHANGED <<mode, plan, deviceKnown, got, stamp, cur, reply, deviceVars, lastSent>>
    BY DEF StoreWrites, StoreWriteFails, Goto
<1>2. /\ l \in PC /\ NoStamp \in Stamps \cup {NoStamp} /\ Saved(c) \in Stamps
      /\ pc[c] = "savingCached" => IsCommand(c)
    BY <1>1 DEF PC, Settled, IInv, PhaseInv, Commanding, Saving, Saved
<1>3. stampState' \in [Nodes -> Stamps \cup {NoStamp}]
    BY <1>2, StampStateTyped DEF StoreWrites, StoreWriteFails, IInv, TypeOK
<1>4. store' \in Stamps \cup {NoStamp}
    BY <1>1, <1>2 DEF IInv, TypeOK
<1>5. TypeOK'
    BY <1>1, <1>2, <1>3, <1>4 DEF IInv, TypeOK, deviceVars
<1>6. Relabels(c, l)
    BY <1>1 DEF Relabels, Awaiting, Saving, deviceVars
<1>7. l = "ok" /\ IsCommand(c) => \E t \in {1, 2} : Answered(c, t)
    <2>1. IsCommand(c) => pc[c] \in {"savingCached", "savingFresh"}
        BY <1>1 DEF IInv, PhaseInv, Discovering, Saving
    <2>2. QED
        BY <2>1 DEF IInv, DoneInv, DoneOK, Finished
<1>8. Fits(c, l)
    BY <1>1, <1>2, <1>7 DEF Fits, Commanding, Discovering, Settled, Saving
<1>9. QED
    BY <1>2, <1>5, <1>6, <1>8, RelabelStep

\* The first packet of a command, on a cached or loaded stamp.
LEMMA SendFirst ==
    ASSUME NEW c \in Calls, NEW s \in Stamps, IInv, IsCommand(c),
           pc[c] \in {"new", "loaded"}, pc' = [pc EXCEPT ![c] = "cached"],
           Transmit(c, 1, 1, s + 1), stampState' \in [Nodes -> Stamps \cup {NoStamp}],
           UNCHANGED <<mode, plan, deviceKnown, store, got, devStamp, executed, refused>>
    PROVE  IInv'
<1> USE MiotDeviceAssumption DEF IInv
<1>1. \A p \in net : p.call # c
    BY DEF NetInv
<1>2. 1 \in 1 .. plan[c].size /\ s + 1 \in 0 .. StampLimit + 1
    BY DEF TypeOK, Plan, Stamps
<1>3. Opens(c, 1, 1, s + 1)
    BY <1>1, <1>2 DEF Opens
<1>3a. ExchangeTyped' /\ NetInv' /\ ExchangeInv' /\ DoneInv'
    BY <1>3, TransmitOpens
<1>4. TypeOK'
    BY <1>3a DEF TypeOK, ExchangeTyped, PC
<1>5. PhaseInv'
    BY DEF TypeOK, PhaseInv, Discovering, Transmit, IsCommand
<1>6. QED
    BY <1>3a, <1>4, <1>5

\* A command moves on to a handshake or to the stamp store without touching an exchange.
LEMMA MovesOn ==
    ASSUME NEW c \in Calls, NEW label \in {"loading", "handshake"}, IInv,
           IsCommand(c), pc[c] = "new" \/ (pc[c] = "loaded" /\ label = "handshake"),
           pc' = [pc EXCEPT ![c] = label],
           stampState' \in [Nodes -> Stamps \cup {NoStamp}],
           UNCHANGED <<mode, plan, deviceKnown, store, got, stamp, cur, reply, net, devStamp,
                       executed, refused, lastSent>>
    PROVE  IInv'
<1>1. label \in PC
    BY DEF PC
<1>2. TypeOK'
    BY <1>1 DEF IInv, TypeOK
<1>3. Relabels(c, label)
    BY DEF Relabels, Awaiting
<1>4. Fits(c, label)
    BY DEF Fits, Commanding, Discovering, Settled
<1>5. QED
    BY <1>1, <1>2, <1>3, <1>4, RelabelStep

LEMMA StartCommandStep ==
    ASSUME NEW c \in Calls, IInv, StartCommand(c)
    PROVE  IInv'
<1> USE MiotDeviceAssumption DEF IInv
<1> DEFINE s == stampState[Node(c)]
<1>1. /\ UNCHANGED <<mode, plan, deviceKnown, stampState, store, got, devStamp, executed, refused>>
      /\ pc[c] = "new" /\ IsCommand(c)
    BY DEF StartCommand, Begin, clientVars
<1>2. /\ s \in Stamps \cup {NoStamp}
      /\ stampState' \in [Nodes -> Stamps \cup {NoStamp}]
      /\ \A p \in net : p.call # c
    BY <1>1 DEF TypeOK, Plan, Node, NetInv
<1> HIDE DEF s, IInv
<1>3. CASE pc' = [pc EXCEPT ![c] = "cached"] /\ s # NoStamp /\ Transmit(c, 1, 1, s + 1)
    BY <1>1, <1>2, <1>3, SendFirst
<1>4. CASE /\ \E label \in {"loading", "handshake"} : pc' = [pc EXCEPT ![c] = label]
           /\ UNCHANGED <<stamp, cur, reply, net, lastSent>>
    BY <1>1, <1>2, <1>4, MovesOn
<1>5. QED
    BY <1>3, <1>4 DEF StartCommand, TryStamp, Goto, s

LEMMA LoadedStep ==
    ASSUME NEW c \in Calls, IInv, Loaded(c)
    PROVE  IInv'
<1> USE MiotDeviceAssumption DEF IInv
<1> DEFINE s == IF got[c] # NoStamp THEN got[c] ELSE stampState[Node(c)]
<1>1. /\ UNCHANGED <<mode, plan, deviceKnown, store, got, devStamp, executed, refused>>
      /\ pc[c] = "loaded"
      /\ TryStamp(c, s)
    BY DEF Loaded
<1>2. /\ s \in Stamps \cup {NoStamp}
      /\ IsCommand(c)
      /\ \A p \in net : p.call # c
    BY <1>1 DEF TypeOK, Plan, Node, NetInv, PhaseInv, Commanding
<1>3. stampState' \in [Nodes -> Stamps \cup {NoStamp}]
    BY DEF TypeOK, Loaded, SetStampState, Node, Plan
<1> HIDE DEF s, IInv
<1>4. CASE s # NoStamp
    BY <1>1, <1>2, <1>3, <1>4, SendFirst DEF TryStamp, Goto
<1>5. CASE s = NoStamp
    BY <1>1, <1>2, <1>3, <1>5, MovesOn DEF TryStamp, Goto
<1>6. QED
    BY <1>4, <1>5

LEMMA SendFreshStep ==
    ASSUME NEW c \in Calls, IInv, SendFresh(c)
    PROVE  IInv'
<1> USE MiotDeviceAssumption DEF IInv
<1>1. /\ UNCHANGED <<mode, plan, deviceKnown, stampState, store, got, devStamp, executed, refused>>
      /\ pc[c] = "greeted"
      /\ pc' = [pc EXCEPT ![c] = "fresh"]
      /\ Transmit(c, 2, 1, got[c] + 1)
    BY DEF SendFresh, Goto, clientVars
<1>2. IsCommand(c) /\ got[c] + 1 \in 0 .. StampLimit + 1 /\ 1 \in 1 .. plan[c].size
    BY <1>1 DEF TypeOK, Plan, PhaseInv, Commanding, Stamps
<1>3. \A p \in net : p.call = c => p.try = 1
    BY <1>1 DEF NetInv, TypeOK, Packet
<1>4. Opens(c, 2, 1, got[c] + 1)
    BY <1>1, <1>2, <1>3 DEF Opens
<1>4a. ExchangeTyped' /\ NetInv' /\ ExchangeInv' /\ DoneInv'
    BY <1>4, TransmitOpens
<1>5. TypeOK'
    BY <1>1, <1>4a DEF TypeOK, ExchangeTyped, PC
<1>6. PhaseInv'
    BY <1>1 DEF TypeOK, PhaseInv, Commanding, Discovering, Transmit, IsCommand
<1>7. QED
    BY <1>4a, <1>5, <1>6

LEMMA SendNextStep ==
    ASSUME NEW c \in Calls, IInv, SendNext(c)
    PROVE  IInv'
<1> USE MiotDeviceAssumption DEF IInv
<1>1. /\ UNCHANGED <<mode, plan, deviceKnown, stampState, store, pc, got, devStamp, executed, refused>>
      /\ Awaiting(c) /\ reply[c] = "ok" /\ cur[c] < plan[c].size
      /\ Transmit(c, Try(c), cur[c] + 1, stamp[c] + 1)
    BY DEF SendNext, clientVars
<1>2. /\ IsCommand(c)
      /\ cur[c] + 1 \in 1 .. plan[c].size
      /\ stamp[c] + 1 \in 0 .. StampLimit + 1
    <2>1. /\ pc[c] \in Commanding
          /\ stamp[c] \in Stamps
        BY <1>1 DEF Commanding, Awaiting, ExchangeInv, ExchangeOK
    <2>2. cur[c] \in Nat /\ cur[c] >= 1 /\ plan[c].size \in Nat
        BY DEF TypeOK, Plan
    <2>3. QED
        BY <1>1, <2>1, <2>2 DEF PhaseInv, Stamps
<1>3. Try(c) \in {1, 2} /\ pc' = [pc EXCEPT ![c] = IF Try(c) = 1 THEN "cached" ELSE "fresh"]
    BY <1>1 DEF TypeOK, Try, Awaiting
<1>4. \A p \in net : p.call = c => (p.try = 2 => Try(c) = 2) /\ (p.try = Try(c) => p.idx < cur[c] + 1)
    BY <1>1 DEF NetInv, Try, Awaiting, TypeOK, Packet
<1>5. \A j \in 1 .. (cur[c] + 1) - 1 : <<Try(c), j>> \in Accepted(c)
    <2>1. (cur[c] + 1) - 1 = cur[c]
        BY DEF TypeOK
    <2>2. QED
        BY <1>1, <2>1, AnsweredSoFar
<1>6. Opens(c, Try(c), cur[c] + 1, stamp[c] + 1)
    BY <1>1, <1>2, <1>3, <1>4, <1>5 DEF Opens
<1>6a. ExchangeTyped' /\ NetInv' /\ ExchangeInv' /\ DoneInv'
    BY <1>6, TransmitOpens
<1>7. TypeOK'
    BY <1>1, <1>6a DEF TypeOK, ExchangeTyped
<1>8. PhaseInv'
    BY <1>1 DEF TypeOK, PhaseInv, Awaiting, Transmit, IsCommand
<1>9. QED
    BY <1>6a, <1>7, <1>8

LEMMA DeviceReceivesStep ==
    ASSUME NEW p \in net, IInv, DeviceReceives(p)
    PROVE  IInv'
<1> USE MiotDeviceAssumption DEF IInv
<1> DEFINE c == p.call
<1>1. /\ UNCHANGED <<mode, plan, deviceKnown, stampState, store, pc, got, stamp, cur, lastSent>>
      /\ net' = net \ {p}
    BY DEF DeviceReceives, clientVars
<1>2. /\ c \in Calls /\ p.try \in {1, 2} /\ p.idx \in 1 .. MaxProps /\ p.stamp \in Stamps
      /\ p \in Packet
    BY DEF TypeOK, Packet
<1>3. devStamp' \in Stamps
    BY <1>2 DEF TypeOK, DeviceReceives, DeviceObeys, DeviceRefuses, DeviceErrors, DeviceIgnores, Counted
<1>4. /\ executed' \in {executed, [executed EXCEPT ![c] = @ \cup {<<p.try, p.idx>>}]}
      /\ refused' \in {refused, [refused EXCEPT ![c] = @ \cup {<<p.try, p.idx>>}]}
    BY DEF DeviceReceives, DeviceObeys, DeviceRefuses, DeviceErrors, DeviceIgnores
<1>5. /\ executed' \in [Calls -> SUBSET ({1, 2} \X (1 .. MaxProps))]
      /\ refused' \in [Calls -> SUBSET ({1, 2} \X (1 .. MaxProps))]
    BY <1>2, <1>4 DEF TypeOK
<1>6. \A d \in Calls : Accepted(d) \subseteq Accepted(d)'
    BY <1>1, <1>4 DEF TypeOK, Accepted, Judged
<1>7. \/ reply' = reply
      \/ /\ Expected(p)
         /\ reply' = [reply EXCEPT ![c] = "error"]
      \/ /\ Expected(p)
         /\ reply' = [reply EXCEPT ![c] = "ok"]
         /\ <<p.try, p.idx>> \in Accepted(c)'
    <2>1. CASE DeviceObeys(p)
        BY <2>1, <1>1, <1>2 DEF TypeOK, DeviceObeys, Answer, Accepted, Judged
    <2>2. CASE DeviceRefuses(p)
        <3>1. plan[c] \in Plan
            BY <1>2 DEF TypeOK
        <3>2. plan[c].op # "property" => plan[c].op = "lenient" \/ ~IsCommand(c)
            BY <3>1, MiotDeviceAssumption DEF Plan, IsCommand
        <3>3. IsCommand(c)
            BY DEF NetInv
        <3>4. QED
            BY <2>2, <3>2, <3>3, <1>1, <1>2
               DEF TypeOK, DeviceRefuses, Raised, Answer, Accepted, Judged
    <2>3. CASE DeviceErrors(p) \/ DeviceIgnores(p)
        BY <2>3 DEF DeviceErrors, DeviceIgnores, Answer
    <2>4. QED
        BY <2>1, <2>2, <2>3 DEF DeviceReceives
<1>8. TypeOK'
    BY <1>1, <1>3, <1>5, <1>7 DEF TypeOK
<1>9. PhaseInv'
    BY <1>1 DEF PhaseInv, IsCommand
<1>10. NetInv'
    BY <1>1 DEF NetInv, Awaiting, Try, IsCommand
<1>11. ExchangeInv'
    <2> SUFFICES ASSUME NEW d \in Calls
                 PROVE  ExchangeOK(d)'
        BY DEF ExchangeInv
    <2>1. ExchangeOK(d) /\ Awaiting(d)' = Awaiting(d) /\ Try(d)' = Try(d)
        BY <1>1 DEF ExchangeInv, Awaiting, Try
    <2>2. CASE reply'[d] = reply[d]
        BY <2>1, <2>2, <1>1, <1>6 DEF ExchangeOK
    <2>3. CASE reply'[d] # reply[d]
        <3>1. d = c /\ Expected(p)
            BY <2>3, <1>7, <1>2 DEF TypeOK
        <3>2. Awaiting(d) /\ p.try = Try(d) /\ p.idx = cur[d] /\ stamp[d] = p.stamp
            BY <3>1, <1>2 DEF Expected, NetInv
        <3>3. reply'[d] = "ok" => <<Try(d), cur[d]>> \in Accepted(d)'
            BY <3>1, <3>2, <2>3, <1>7, <1>2 DEF TypeOK
        <3>4. QED
            BY <3>2, <3>3, <2>1, <1>1, <1>2, <1>6 DEF ExchangeOK
    <2>4. QED
        BY <2>2, <2>3
<1>12. DoneInv'
    BY <1>1, <1>6 DEF DoneInv, DoneOK, Finished, Answered, IsCommand
<1>13. QED
    BY <1>8, <1>9, <1>10, <1>11, <1>12

LEMMA FrameStep ==
    ASSUME IInv, DeviceClock \/ UNCHANGED vars
    PROVE  IInv'
<1>1. UNCHANGED <<plan, pc, got, stamp, cur, reply, net, executed, refused>>
    BY DEF DeviceClock, clientVars, vars
<1>2. TypeOK'
    BY MiotDeviceAssumption DEF IInv, TypeOK, DeviceClock, clientVars, vars, Stamps
<1>3. QED
    BY <1>1, <1>2 DEF IInv, PhaseInv, NetInv, ExchangeInv, ExchangeOK, DoneInv, DoneOK,
       Finished, Answered, Awaiting, Try, Accepted, Judged, IsCommand

LEMMA InitInv == Init => IInv
<1> SUFFICES ASSUME Init PROVE IInv
    OBVIOUS
<1> USE MiotDeviceAssumption
<1>1. TypeOK
    BY DEF Init, TypeOK, PC, Stamps
<1>2. PhaseInv /\ NetInv /\ ExchangeInv /\ DoneInv
    BY DEF Init, PhaseInv, NetInv, ExchangeInv, ExchangeOK, DoneInv, DoneOK, Finished,
       Awaiting, Commanding, Discovering
<1>3. QED
    BY <1>1, <1>2 DEF IInv

LEMMA NextInv == IInv /\ [Next]_vars => IInv'
<1> SUFFICES ASSUME IInv, [Next]_vars PROVE IInv'
    OBVIOUS
<1>1. ASSUME NEW c \in Calls, Start(c) PROVE IInv'
    BY <1>1, BeginStep, StartCommandStep DEF Start
<1>2. ASSUME NEW c \in Calls, ClientStep(c) PROVE IInv'
    BY <1>2, LoadedStep, SendFreshStep, DiscoveredStep, SendNextStep, FinishStep,
       ExchangeFailsStep, HandshakeStep DEF ClientStep
<1>3. ASSUME NEW c \in Calls, StoreStep(c) PROVE IInv'
    BY <1>3, StoreReadStep, StoreWriteStep DEF StoreStep
<1>4. ASSUME NEW c \in Calls, DeviceHello(c) PROVE IInv'
    BY <1>4, HandshakeStep
<1>5. ASSUME NEW p \in net, DeviceReceives(p) PROVE IInv'
    BY <1>5, DeviceReceivesStep
<1>6. CASE DeviceClock \/ UNCHANGED vars
    BY <1>6, FrameStep
<1>7. QED
    BY <1>1, <1>2, <1>3, <1>4, <1>5, <1>6 DEF Next

LEMMA Invariance == Spec => []IInv
    BY InitInv, NextInv, PTL DEF Spec

-----------------------------------------------------------------------------
(* Theorems. *)

\* Every variable of MiotDevice stays in its type: in particular no stamp wider than the
\* packet field is ever put on the wire or kept.
THEOREM TypeCorrect == Spec => []TypeOK
<1>1. IInv => TypeOK
    BY DEF IInv
<1>2. QED
    BY <1>1, Invariance, PTL

\* A command reported as done was judged by the device, packet by packet in one attempt, and, if
\* the transport raises the codes of its items, carried out: whatever the network did and however
\* many callers share the device.
THEOREM DoneIsSound == Spec => []DoneMeansJudged
<1>1. IInv => DoneMeansJudged
    BY DEF IInv, DoneInv, DoneOK, Finished, Answered, DoneMeansJudged
<1>2. QED
    BY <1>1, Invariance, PTL

\* A failure on a cached stamp is never what the caller sees: the call goes on to a
\* handshake of its own.
THEOREM CachedFailureIsRetried == Spec => CachedFailureRetried
<1> DEFINE Keeps == \A c \in Calls : pc[c] \in {"cached", "savingCached"} => pc'[c] # "failed"
<1>1. IInv /\ [Next]_vars => [Keeps]_vars
    <2> SUFFICES ASSUME IInv, Next, NEW d \in Calls, pc[d] \in {"cached", "savingCached"}
                 PROVE  pc'[d] # "failed"
        BY DEF CachedFailureRetried
    <2> USE DEF IInv, TypeOK, Goto
    <2>1. ASSUME NEW c \in Calls, Start(c) PROVE pc'[d] # "failed"
        BY <2>1 DEF Start, StartDiscover, StartUnknown, StartCommand, Begin, TryStamp
    <2>2. ASSUME NEW c \in Calls, ClientStep(c) PROVE pc'[d] # "failed"
        <3>1. CASE Loaded(c) \/ SendFresh(c) \/ SendNext(c)
            BY <3>1 DEF Loaded, TryStamp, SendFresh, SendNext
        <3>2. CASE Discovered(c) \/ Finish(c)
            BY <3>2 DEF Discovered, Finish
        <3>3. CASE ExchangeFails(c)
            BY <3>3 DEF ExchangeFails, Awaiting
        <3>4. CASE HandshakeFails(c)
            BY <3>4 DEF HandshakeFails
        <3>5. QED
            BY <2>2, <3>1, <3>2, <3>3, <3>4 DEF ClientStep
    <2>3. ASSUME NEW c \in Calls, StoreStep(c) PROVE pc'[d] # "failed"
        <3>1. CASE StoreReads(c) \/ StoreReadFails(c)
            BY <3>1 DEF StoreReads, StoreReadFails
        <3>2. CASE StoreWrites(c)
            BY <3>2 DEF StoreWrites
        <3>3. CASE StoreWriteFails(c)
            BY <3>3 DEF StoreWriteFails, Saving
        <3>4. QED
            BY <2>3, <3>1, <3>2, <3>3 DEF StoreStep
    <2>4. ASSUME NEW c \in Calls, DeviceHello(c) PROVE pc'[d] # "failed"
        BY <2>4 DEF DeviceHello
    <2>5. CASE DeviceClock \/ \E p \in net : DeviceReceives(p)
        BY <2>5 DEF DeviceClock, DeviceReceives
    <2>6. QED
        BY <2>1, <2>2, <2>3, <2>4, <2>5 DEF Next
<1>2. QED
    BY <1>1, Invariance, PTL DEF Spec, CachedFailureRetried

-----------------------------------------------------------------------------
(* The stamps: nothing is sent twice in one attempt, and a single user never meets *)
(* a stale stamp of its own making.                                                *)

\* What the device has judged of a call belongs to an attempt the call has begun, and is
\* not ahead of the packet it waits for.
ExecOK(c) ==
    \A t \in {1, 2}, j \in 1 .. MaxProps : <<t, j>> \in Judged(c) =>
        /\ pc[c] \notin {"new", "loading", "loaded"}
        /\ t = 2 => pc[c] \in {"fresh", "savingFresh", "ok", "failed"}
        /\ Awaiting(c) /\ t = Try(c) => j <= cur[c]

ExecInv == \A c \in Calls : ExecOK(c)

NotSent(p) ==
    /\ <<p.try, p.idx>> \notin Judged(p.call)
    /\ \A q \in net : q.call = p.call => <<q.try, q.idx>> # <<p.try, p.idx>>

\* Packet i of attempt t goes out, and nothing of that attempt got so far.
LEMMA TransmitsAnew ==
    ASSUME NEW c \in Calls, NEW t \in {1, 2}, NEW i \in 1 .. MaxProps, NEW s, IInv, ExecInv,
           Transmit(c, t, i, s),
           \A j \in 1 .. MaxProps : <<t, j>> \in Judged(c) => j < i,
           \A q \in net : q.call = c /\ q.try = t => q.idx < i
    PROVE  \A p \in net' \ net : NotSent(p)
<1> SUFFICES ASSUME NEW p \in net' \ net PROVE NotSent(p)
    OBVIOUS
<1>1. p = [call |-> c, try |-> t, idx |-> i, stamp |-> s]
    BY DEF Transmit
<1>2. i \in Nat /\ \A q \in net : q.idx \in Nat
    BY MiotDeviceAssumption DEF IInv, TypeOK, Packet
<1>3. QED
    BY <1>1, <1>2 DEF NotSent

\* The same for the exec invariant: the call now waits for packet i of attempt t.
LEMMA TransmitKeepsExec ==
    ASSUME NEW c \in Calls, NEW t \in {1, 2}, NEW i \in 1 .. MaxProps, NEW s, IInv, ExecInv,
           Transmit(c, t, i, s), UNCHANGED <<executed, refused>>,
           pc' = [pc EXCEPT ![c] = IF t = 1 THEN "cached" ELSE "fresh"],
           \A j \in 1 .. MaxProps : <<t, j>> \in Judged(c) => j < i,
           \A j \in 1 .. MaxProps : <<2, j>> \in Judged(c) => t = 2
    PROVE  ExecInv'
<1> SUFFICES ASSUME NEW d \in Calls PROVE ExecOK(d)'
    BY DEF ExecInv
<1> USE DEF IInv, TypeOK
<1>1. cur' = [cur EXCEPT ![c] = i]
    BY DEF Transmit
<1>2. CASE d # c
    BY <1>1, <1>2 DEF ExecInv, ExecOK, Awaiting, Try, Judged
<1>3. CASE d = c
    <2>1. pc'[c] = (IF t = 1 THEN "cached" ELSE "fresh") /\ cur'[c] = i
        BY <1>1
    <2>2. \A u \in {1, 2}, j \in 1 .. MaxProps : <<u, j>> \in Judged(c) =>
              (u = 2 => t = 2) /\ (u = t => j < i)
        OBVIOUS
    <2>3. i \in Nat /\ MaxProps \in Nat
        BY MiotDeviceAssumption
    <2>4. QED
        BY <1>3, <2>1, <2>2, <2>3 DEF ExecOK, Awaiting, Try, Judged
<1>4. QED
    BY <1>2, <1>3

\* The call moves without a packet; nothing is carried out.
LEMMA MoveKeepsExec ==
    ASSUME NEW c \in Calls, NEW l \in PC, IInv, ExecInv, pc[c] \notin Settled,
           pc' = [pc EXCEPT ![c] = l], UNCHANGED <<executed, refused>>, cur' = cur,
           l \in {"new", "loading", "loaded", "cached", "fresh"} =>
               pc[c] \in {"new", "loading", "loaded"} /\ l \in {"loading", "loaded"},
           pc[c] \in {"fresh", "savingFresh"} => l \in {"savingFresh", "ok", "failed"}
    PROVE  ExecInv'
<1> SUFFICES ASSUME NEW d \in Calls PROVE ExecOK(d)'
    BY DEF ExecInv
<1> USE DEF IInv, TypeOK
<1>1. CASE d # c
    BY <1>1 DEF ExecInv, ExecOK, Awaiting, Try, Judged
<1>2. CASE d = c
    <2>1. pc'[c] = l /\ ExecOK(c)
        BY DEF ExecInv
    <2>2. QED
        BY <1>2, <2>1 DEF ExecOK, Awaiting, Try, Judged, Settled
<1>3. QED
    BY <1>1, <1>2

\* A command starts, or goes on after the stamp store was read.
LEMMA TryStampExec ==
    ASSUME NEW c \in Calls, NEW s, IInv, ExecInv, pc[c] \in {"new", "loaded"}, TryStamp(c, s),
           UNCHANGED <<executed, refused>>
    PROVE  ExecInv' /\ \A p \in net' \ net : NotSent(p)
<1> USE MiotDeviceAssumption DEF IInv, TypeOK
<1>0. /\ \A t \in {1, 2}, j \in 1 .. MaxProps : <<t, j>> \notin Judged(c)
      /\ \A q \in net : q.call # c
      /\ 1 \in 1 .. MaxProps
    BY DEF ExecInv, ExecOK, NetInv
<1>1. CASE s # NoStamp
    <2>1. pc' = [pc EXCEPT ![c] = IF 1 = 1 THEN "cached" ELSE "fresh"]
          /\ Transmit(c, 1, 1, s + 1)
        BY <1>1 DEF TryStamp, Goto
    <2> HIDE DEF IInv, TypeOK
    <2>2. \A p \in net' \ net : NotSent(p)
        BY <1>0, <2>1, TransmitsAnew
    <2>3. ExecInv'
        BY <1>0, <2>1, TransmitKeepsExec
    <2>4. QED
        BY <2>2, <2>3
<1>2. CASE s = NoStamp
    BY <1>2, MoveKeepsExec DEF TryStamp, Goto, PC, Settled
<1>3. QED
    BY <1>1, <1>2

LEMMA SendFreshExec ==
    ASSUME NEW c \in Calls, IInv, ExecInv, SendFresh(c)
    PROVE  ExecInv' /\ \A p \in net' \ net : NotSent(p)
<1> USE MiotDeviceAssumption DEF IInv, TypeOK
<1>1. /\ \A j \in 1 .. MaxProps : <<2, j>> \notin Judged(c)
      /\ \A q \in net : q.call = c => q.try # 2
      /\ 1 \in 1 .. MaxProps
    BY DEF ExecInv, ExecOK, NetInv, SendFresh
<1>2. /\ pc' = [pc EXCEPT ![c] = "fresh"] /\ UNCHANGED <<executed, refused>>
      /\ Transmit(c, 2, 1, got[c] + 1)
    BY DEF SendFresh, Goto
<1> HIDE DEF IInv, TypeOK
<1>3. \A p \in net' \ net : NotSent(p)
    BY <1>1, <1>2, TransmitsAnew
<1>4. pc' = [pc EXCEPT ![c] = IF 2 = 1 THEN "cached" ELSE "fresh"]
    BY <1>2
<1>5. ExecInv'
    BY <1>1, <1>2, <1>4, TransmitKeepsExec
<1>6. QED
    BY <1>3, <1>5

LEMMA SendNextExec ==
    ASSUME NEW c \in Calls, IInv, ExecInv, SendNext(c)
    PROVE  ExecInv' /\ \A p \in net' \ net : NotSent(p)
<1> USE MiotDeviceAssumption DEF IInv, TypeOK
<1> DEFINE t == Try(c)
           i == cur[c] + 1
<1>1. /\ t \in {1, 2} /\ i \in 1 .. MaxProps
      /\ pc' = [pc EXCEPT ![c] = IF t = 1 THEN "cached" ELSE "fresh"]
      /\ UNCHANGED <<executed, refused>>
      /\ Transmit(c, t, i, stamp[c] + 1)
    <2>1. pc[c] \in {"cached", "fresh"} /\ pc' = pc /\ UNCHANGED <<executed, refused>>
          /\ cur[c] < plan[c].size /\ Transmit(c, Try(c), cur[c] + 1, stamp[c] + 1)
        BY DEF SendNext, Awaiting
    <2>2. plan[c].size \in 1 .. MaxProps /\ cur[c] \in 1 .. MaxProps
        BY DEF Plan
    <2>3. pc' = [pc EXCEPT ![c] = pc[c]]
        BY <2>1
    <2>4. pc[c] = (IF Try(c) = 1 THEN "cached" ELSE "fresh") /\ Try(c) \in {1, 2}
        BY <2>1 DEF Try
    <2>5. i \in 1 .. MaxProps
        BY <2>1, <2>2
    <2>6. QED
        BY <2>1, <2>3, <2>4, <2>5
<1>2. /\ \A j \in 1 .. MaxProps : <<t, j>> \in Judged(c) => j < i
      /\ \A j \in 1 .. MaxProps : <<2, j>> \in Judged(c) => t = 2
    BY DEF ExecInv, ExecOK, SendNext, Awaiting, Try
<1>3. \A q \in net : q.call = c /\ q.try = t => q.idx < i
    BY DEF NetInv, SendNext, Packet
<1> HIDE DEF t, i, IInv, TypeOK
<1>4. \A p \in net' \ net : NotSent(p)
    BY <1>1, <1>2, <1>3, TransmitsAnew
<1>5. ExecInv'
    BY <1>1, <1>2, TransmitKeepsExec
<1>6. QED
    BY <1>4, <1>5

LEMMA DeviceReceivesExec ==
    ASSUME NEW p \in net, IInv, ExecInv, DeviceReceives(p)
    PROVE  ExecInv'
<1> SUFFICES ASSUME NEW d \in Calls PROVE ExecOK(d)'
    BY DEF ExecInv
<1> USE DEF IInv, TypeOK
<1>1. pc' = pc /\ cur' = cur /\ p.call \in Calls
    BY DEF DeviceReceives, Packet
<1>2. \/ Judged(d)' = Judged(d)
      \/ d = p.call /\ Judged(d)' = Judged(d) \cup {<<p.try, p.idx>>}
    BY DEF DeviceReceives, DeviceObeys, DeviceRefuses, DeviceErrors, DeviceIgnores, Judged
<1>3. QED
    BY <1>1, <1>2 DEF ExecInv, ExecOK, NetInv, Awaiting, Try

\* Every step keeps the invariant and sends only what was not sent before.
LEMMA StepExec ==
    ASSUME IInv, ExecInv, Next
    PROVE  ExecInv' /\ \A p \in net' \ net : NotSent(p)
<1> USE DEF IInv, TypeOK, Goto, PC, Settled
<1>1. ASSUME NEW c \in Calls, StartDiscover(c) \/ StartUnknown(c)
      PROVE  ExecInv' /\ net' = net
    BY <1>1, MoveKeepsExec DEF StartDiscover, StartUnknown, Begin
<1>2. ASSUME NEW c \in Calls, StartCommand(c)
      PROVE  ExecInv' /\ \A p \in net' \ net : NotSent(p)
    BY <1>2, MoveKeepsExec, TryStampExec DEF StartCommand, Begin
<1>3. ASSUME NEW c \in Calls, Loaded(c)
      PROVE  ExecInv' /\ \A p \in net' \ net : NotSent(p)
    BY <1>3, TryStampExec DEF Loaded
<1>4. ASSUME NEW c \in Calls, Discovered(c) \/ HandshakeFails(c) \/ DeviceHello(c)
      PROVE  ExecInv' /\ net' = net
    BY <1>4, MoveKeepsExec DEF Discovered, HandshakeFails, DeviceHello, deviceVars
<1>5. ASSUME NEW c \in Calls, StoreStep(c)
      PROVE  ExecInv' /\ net' = net
    BY <1>5, MoveKeepsExec
       DEF StoreStep, StoreReads, StoreReadFails, StoreWrites, StoreWriteFails, Saving, deviceVars
<1>6. ASSUME NEW c \in Calls, Finish(c) \/ ExchangeFails(c)
      PROVE  ExecInv' /\ net' \subseteq net
    BY <1>6, MoveKeepsExec DEF Finish, ExchangeFails, Awaiting, CloseSocket
<1>7. ASSUME NEW p \in net, DeviceReceives(p)
      PROVE  ExecInv' /\ net' \subseteq net
    BY <1>7, DeviceReceivesExec DEF DeviceReceives
<1>8. CASE DeviceClock
    BY <1>8 DEF DeviceClock, ExecInv, ExecOK, Awaiting, Try, Judged
<1>9. QED
    BY <1>1, <1>2, <1>3, <1>4, <1>5, <1>6, <1>7, <1>8, SendFreshExec, SendNextExec
       DEF Next, Start, ClientStep

LEMMA ExecInvariance == Spec => []ExecInv
<1>1. Init => ExecInv
    BY DEF Init, ExecInv, ExecOK, Judged
<1>2. IInv /\ ExecInv /\ [Next]_vars => ExecInv'
    <2>1. CASE UNCHANGED vars
        BY <2>1 DEF vars, ExecInv, ExecOK, Awaiting, Try, Judged
    <2>2. QED
        BY <2>1, StepExec
<1>3. QED
    BY <1>1, <1>2, Invariance, PTL DEF Spec

-----------------------------------------------------------------------------
\* No packet goes out twice in an attempt or after it was judged, and the failure of a
\* cached stamp is retried: for any number of callers that share the device.
THEOREM RetriesAreSound == Spec => RetriesSound
<1>1. IInv /\ ExecInv /\ [Next]_vars =>
          [\A p \in net' \ net :
              /\ <<p.try, p.idx>> \notin Judged(p.call)
              /\ \A q \in net : q.call = p.call => <<q.try, q.idx>> # <<p.try, p.idx>>]_vars
    BY StepExec DEF NotSent
<1>2. Spec => NoPacketResent
    BY <1>1, Invariance, ExecInvariance, PTL DEF Spec, NoPacketResent
<1>3. QED
    BY <1>2, CachedFailureIsRetried DEF RetriesSound

-----------------------------------------------------------------------------
(* The refinement: every step is one of RemoteCommand's, or hidden from it.     *)
(* A packet on the wire is the only one of its place in its attempt, and was    *)
(* not judged yet: so an attempt is judged once.                                *)

OnceOK(p) ==
    /\ <<p.try, p.idx>> \notin Judged(p.call)
    /\ \A q \in net : q.call = p.call /\ q.try = p.try /\ q.idx = p.idx => q = p

OnceInv == \A p \in net : OnceOK(p)

\* At most one packet leaves in a step.
LEMMA OneLeaves ==
    ASSUME Next
    PROVE  \A p, q \in net' \ net : p = q
<1>1. ASSUME NEW c \in Calls, Start(c) PROVE \A p, q \in net' \ net : p = q
    BY <1>1 DEF Start, StartDiscover, StartUnknown, StartCommand, TryStamp, Transmit
<1>2. ASSUME NEW c \in Calls, ClientStep(c) PROVE \A p, q \in net' \ net : p = q
    BY <1>2 DEF ClientStep, Loaded, TryStamp, SendFresh, SendNext, Transmit, Discovered, Finish,
           ExchangeFails, HandshakeFails, CloseSocket, deviceVars
<1>3. ASSUME NEW c \in Calls, StoreStep(c) PROVE net' = net
    BY <1>3 DEF StoreStep, StoreReads, StoreReadFails, StoreWrites, StoreWriteFails, deviceVars
<1>4. ASSUME NEW c \in Calls, DeviceHello(c) PROVE net' = net
    BY <1>4 DEF DeviceHello, deviceVars
<1>5. CASE DeviceClock \/ \E p \in net : DeviceReceives(p)
    BY <1>5 DEF DeviceClock, DeviceReceives
<1>6. QED
    BY <1>1, <1>2, <1>3, <1>4, <1>5 DEF Next

\* Only the device judges, and only the packet it takes from the wire.
LEMMA JudgedByDevice ==
    ASSUME IInv, Next
    PROVE  \/ SameAnswers
           \/ \E p \in net :
                 /\ p.call \in Calls /\ net' = net \ {p}
                 /\ \A c \in Calls :
                       Judged(c)' \subseteq
                           Judged(c) \cup (IF c = p.call THEN {<<p.try, p.idx>>} ELSE {})
<1>1. CASE UNCHANGED <<plan, executed, refused>>
    BY <1>1, NothingAnswered
<1>2. ASSUME NEW p \in net, DeviceReceives(p)
      PROVE  /\ p.call \in Calls /\ net' = net \ {p}
             /\ \A c \in Calls :
                   Judged(c)' \subseteq
                       Judged(c) \cup (IF c = p.call THEN {<<p.try, p.idx>>} ELSE {})
    BY <1>2 DEF IInv, TypeOK, Packet, DeviceReceives, DeviceObeys, DeviceRefuses, DeviceErrors,
           DeviceIgnores, Judged
<1>3. ASSUME NEW c \in Calls, Start(c) \/ ClientStep(c) \/ StoreStep(c) \/ DeviceHello(c)
      PROVE  UNCHANGED <<plan, executed, refused>>
    <2>1. CASE Start(c)
        BY <2>1 DEF Start, StartDiscover, StartUnknown, StartCommand, Begin
    <2>2. CASE ClientStep(c)
        BY <2>2 DEF ClientStep, Loaded, SendFresh, SendNext, Discovered, Finish, ExchangeFails,
               HandshakeFails, deviceVars
    <2>3. CASE StoreStep(c) \/ DeviceHello(c)
        BY <2>3 DEF StoreStep, StoreReads, StoreReadFails, StoreWrites, StoreWriteFails,
               DeviceHello, deviceVars
    <2>4. QED
        BY <1>3, <2>1, <2>2, <2>3
<1>4. CASE DeviceClock
    BY <1>1, <1>4 DEF DeviceClock
<1>5. QED
    BY <1>1, <1>2, <1>3, <1>4 DEF Next

LEMMA OnceStep ==
    ASSUME IInv, ExecInv, OnceInv, Next
    PROVE  OnceInv'
<1>1. SUFFICES ASSUME NEW p \in net' PROVE OnceOK(p)'
    BY DEF OnceInv
<1>2. /\ \A r \in net' \ net : NotSent(r)
      /\ \A q, r \in net' \ net : q = r
    BY StepExec, OneLeaves
<1>3. /\ TypeOK /\ TypeOK' /\ p.call \in Calls
      /\ \A q \in net : q.call \in Calls
    BY NextInv DEF IInv, TypeOK, Packet
<1>4. \A q \in net' : q.call = p.call /\ q.try = p.try /\ q.idx = p.idx => q = p
    <2> SUFFICES ASSUME NEW q \in net', q.call = p.call, q.try = p.try, q.idx = p.idx
                 PROVE  q = p
        OBVIOUS
    <2>1. CASE p \in net /\ q \in net
        BY <2>1 DEF OnceInv, OnceOK
    <2>2. CASE p \notin net /\ q \in net
        BY <2>2, <1>2 DEF NotSent
    <2>3. CASE p \in net /\ q \notin net
        BY <2>3, <1>2 DEF NotSent
    <2>4. CASE p \notin net /\ q \notin net
        BY <2>4, <1>2
    <2>5. QED
        BY <2>1, <2>2, <2>3, <2>4
<1>5. <<p.try, p.idx>> \notin Judged(p.call)
    BY <1>2 DEF OnceInv, OnceOK, NotSent
<1>6. <<p.try, p.idx>> \notin Judged(p.call)'
    <2>1. CASE SameAnswers
        BY <2>1, <1>3, <1>5 DEF SameAnswers
    <2>2. ASSUME NEW r \in net, r.call \in Calls, net' = net \ {r},
                 \A c \in Calls :
                     Judged(c)' \subseteq
                         Judged(c) \cup (IF c = r.call THEN {<<r.try, r.idx>>} ELSE {})
          PROVE  <<p.try, p.idx>> \notin Judged(p.call)'
        <3>1. p \in net /\ p # r
            BY <2>2
        <3>2. ~(r.call = p.call /\ r.try = p.try /\ r.idx = p.idx)
            BY <3>1 DEF OnceInv, OnceOK
        <3>3. QED
            BY <2>2, <3>2, <1>3, <1>5
    <2>3. QED
        BY <2>1, <2>2, JudgedByDevice
<1>7. QED
    BY <1>4, <1>6 DEF OnceOK

LEMMA OnceInvariance == Spec => []OnceInv
<1>1. Init => OnceInv
    BY DEF Init, OnceInv
<1>2. IInv /\ ExecInv /\ OnceInv /\ [Next]_vars => OnceInv'
    <2>1. CASE UNCHANGED vars
        BY <2>1 DEF vars, OnceInv, OnceOK, Judged
    <2>2. QED
        BY <2>1, OnceStep
<1>3. QED
    BY <1>1, <1>2, Invariance, ExecInvariance, PTL DEF Spec

\* A step of call c that the device has no part in.
Moves(c) ==
    /\ UNCHANGED <<plan, executed, refused>>
    /\ pc[c] \notin Settled
    /\ \E l \in PC \ {"new"} :
          /\ pc' = [pc EXCEPT ![c] = l]
          /\ pc[c] = "new" /\ IsCommand(c) => l # "ok"

LEMMA StepsMove ==
    ASSUME IInv, NEW c \in Calls,
           Start(c) \/ ClientStep(c) \/ StoreStep(c) \/ DeviceHello(c)
    PROVE  Moves(c)
<1> USE DEF IInv, TypeOK, Moves, Goto, PC, Settled, clientVars, deviceVars
<1>1. CASE Start(c)
    BY <1>1 DEF Start, StartDiscover, StartUnknown, StartCommand, Begin, TryStamp
<1>2. CASE Loaded(c) \/ SendFresh(c)
    BY <1>2 DEF Loaded, TryStamp, SendFresh
<1>3. CASE SendNext(c)
    <2>1. pc' = [pc EXCEPT ![c] = pc[c]] /\ pc[c] \in {"cached", "fresh"}
        BY <1>3 DEF SendNext, Awaiting
    <2>2. QED
        BY <1>3, <2>1 DEF SendNext
<1>4. CASE Discovered(c)
    BY <1>4 DEF Discovered
<1>5. CASE Finish(c)
    BY <1>5 DEF Finish, Awaiting
<1>6. CASE ExchangeFails(c)
    BY <1>6 DEF ExchangeFails, Awaiting
<1>7. CASE HandshakeFails(c)
    BY <1>7 DEF HandshakeFails
<1>8. CASE StoreReads(c) \/ StoreReadFails(c)
    BY <1>8 DEF StoreReads, StoreReadFails
<1>9. CASE StoreWrites(c)
    BY <1>9 DEF StoreWrites, Saving
<1>10. CASE StoreWriteFails(c)
    BY <1>10 DEF StoreWriteFails, Saving
<1>11. CASE DeviceHello(c)
    BY <1>11 DEF DeviceHello
<1>12. QED
    BY <1>1, <1>2, <1>3, <1>4, <1>5, <1>6, <1>7, <1>8, <1>9, <1>10, <1>11
       DEF ClientStep, StoreStep

AbsLenient == [c \in Calls |-> plan[c].op = "lenient"]
AbsStatus == [c \in Calls |-> StatusOf(c)]
AbsRuns == [c \in Calls |-> RunsOf(c)]
AbsDeclined == [c \in Calls |-> DeclinedOf(c)]
AbsVars == <<AbsLenient, AbsStatus, AbsRuns, AbsDeclined>>

\* While nothing is judged, only what the callers see changes.
LEMMA SameVerdicts ==
    ASSUME UNCHANGED <<plan, executed, refused>>
    PROVE  AbsLenient' = AbsLenient /\ AbsRuns' = AbsRuns /\ AbsDeclined' = AbsDeclined
BY DEF AbsLenient, AbsRuns, AbsDeclined, RunsOf, DeclinedOf, FullOf, Accepted, Judged

LEMMA MovesRefine ==
    ASSUME IInv, IInv', NEW c \in Calls, Moves(c)
    PROVE  [Abstract!Next]_AbsVars
<1> USE DEF IInv, TypeOK
<1>1. PICK l \in PC \ {"new"} :
          /\ pc' = [pc EXCEPT ![c] = l]
          /\ pc[c] = "new" /\ IsCommand(c) => l # "ok"
    BY DEF Moves
<1>2. /\ pc'[c] = l
      /\ \A d \in Calls : d # c => pc'[d] = pc[d]
      /\ UNCHANGED <<plan, executed, refused>>
      /\ pc[c] \notin Settled
    BY <1>1 DEF Moves
<1>3. /\ AbsLenient' = AbsLenient /\ AbsRuns' = AbsRuns /\ AbsDeclined' = AbsDeclined
      /\ \A d \in Calls : IsCommand(d)' = IsCommand(d) /\ Accepted(d)' = Accepted(d)
    BY <1>2, SameVerdicts, NothingAnswered DEF SameAnswers
<1>4. \A d \in Calls : d # c => StatusOf(d)' = StatusOf(d)
    BY <1>2, <1>3 DEF StatusOf
<1>5. AbsStatus' = [AbsStatus EXCEPT ![c] = StatusOf(c)']
    BY <1>4 DEF AbsStatus
<1>6. AbsStatus[c] = StatusOf(c) /\ AbsRuns[c] = RunsOf(c) /\ AbsDeclined[c] = DeclinedOf(c)
    BY DEF AbsStatus, AbsRuns, AbsDeclined
<1>7. CASE StatusOf(c)' = StatusOf(c)
    <2>1. \A d \in Calls : StatusOf(d)' = StatusOf(d)
        BY <1>4, <1>7
    <2>2. QED
        BY <2>1, <1>3 DEF AbsStatus, AbsVars
<1>8. CASE IsCommand(c) /\ l = "ok"
    <2>1. StatusOf(c) = "pending" /\ StatusOf(c)' = "ok"
        BY <1>8, <1>1, <1>2, <1>3 DEF StatusOf, Settled
    <2>2. DoneOK(c)' /\ Finished(c)'
        BY <1>8, <1>2, <1>3 DEF DoneInv, Finished
    <2>3. PICK t \in {1, 2} : Answered(c, t)'
        BY <2>2 DEF DoneOK
    <2>4. t \in RunsOf(c) \cup DeclinedOf(c)
        BY <2>3, <1>2, <1>3 DEF Answered, RunsOf, DeclinedOf, FullOf
    <2>5. Abstract!ReportDone(c)
        BY <2>1, <2>4, <1>3, <1>5, <1>6
           DEF Abstract!ReportDone, AbsLenient, AbsStatus, AbsRuns, AbsDeclined
    <2>6. QED
        BY <2>5 DEF Abstract!Next, AbsLenient, AbsStatus, AbsRuns, AbsDeclined
<1>9. CASE IsCommand(c) /\ l # "ok" /\ pc[c] = "new"
    <2>1. StatusOf(c) = "new" /\ StatusOf(c)' \in {"pending", "failed"}
        BY <1>9, <1>1, <1>2, <1>3 DEF StatusOf, Settled
    <2>2. Abstract!Issue(c)
        BY <2>1, <1>3, <1>5, <1>6
           DEF Abstract!Issue, AbsLenient, AbsStatus, AbsRuns, AbsDeclined
    <2>3. QED
        BY <2>2 DEF Abstract!Next, AbsLenient, AbsStatus, AbsRuns, AbsDeclined
<1>10. CASE IsCommand(c) /\ l # "ok" /\ pc[c] # "new" /\ StatusOf(c)' # StatusOf(c)
    <2>1. StatusOf(c) = "pending" /\ StatusOf(c)' = "failed"
        BY <1>10, <1>1, <1>2, <1>3 DEF StatusOf, Settled
    <2>2. Abstract!ReportFailure(c)
        BY <2>1, <1>3, <1>5, <1>6
           DEF Abstract!ReportFailure, AbsLenient, AbsStatus, AbsRuns, AbsDeclined
    <2>3. QED
        BY <2>2 DEF Abstract!Next, AbsLenient, AbsStatus, AbsRuns, AbsDeclined
<1>11. CASE ~IsCommand(c)
    <2>1. StatusOf(c)' = StatusOf(c)
        BY <1>11, <1>3 DEF StatusOf
    <2>2. QED
        BY <2>1, <1>7
<1>12. QED
    BY <1>7, <1>8, <1>9, <1>10, <1>11

\* Where an attempt gains its missing pair it may become full, and no other does.
LEMMA FullGrows ==
    ASSUME NEW p
    PROVE  \A S : \/ FullOf(p.call, S \cup {<<p.try, p.idx>>}) = FullOf(p.call, S)
                  \/ FullOf(p.call, S \cup {<<p.try, p.idx>>}) = FullOf(p.call, S) \cup {p.try}
<1> SUFFICES ASSUME NEW A
             PROVE  \/ FullOf(p.call, A \cup {<<p.try, p.idx>>}) = FullOf(p.call, A)
                    \/ FullOf(p.call, A \cup {<<p.try, p.idx>>}) = FullOf(p.call, A) \cup {p.try}
    OBVIOUS
<1> DEFINE t == p.try
           F == FullOf(p.call, A)
           G == FullOf(p.call, A \cup {<<p.try, p.idx>>})
<1>1. F \subseteq G /\ G \subseteq F \cup {t}
    BY DEF FullOf
<1> HIDE DEF t, F, G
<1>2. G = F \/ G = F \cup {t}
    BY <1>1
<1>3. QED
    BY <1>2 DEF t, F, G

LEMMA DeviceRefines ==
    ASSUME IInv, OnceInv, NEW p \in net, DeviceReceives(p)
    PROVE  [Abstract!Next]_AbsVars
<1> DEFINE c == p.call
           pair == <<p.try, p.idx>>
<1>1. /\ c \in Calls /\ p.try \in {1, 2} /\ p.idx \in 1 .. plan[c].size
      /\ IsCommand(c) /\ pc[c] # "new"
      /\ pc' = pc /\ plan' = plan
    BY DEF IInv, TypeOK, DeviceReceives, clientVars, Packet, NetInv
<1>2. AbsStatus' = AbsStatus /\ AbsLenient' = AbsLenient /\ AbsStatus[c] # "new"
    BY <1>1 DEF AbsStatus, AbsLenient, StatusOf, IsCommand
<1>3. pair \notin Judged(c)
    BY DEF OnceInv, OnceOK
<1>4. p.try \notin FullOf(c, executed[c]) /\ p.try \notin FullOf(c, Accepted(c))
    <2>1. executed[c] \subseteq Judged(c) /\ Accepted(c) \subseteq Judged(c)
        BY DEF Accepted, Judged
    <2>2. QED
        BY <2>1, <1>1, <1>3 DEF FullOf
<1>5. AbsRuns[c] = RunsOf(c) /\ AbsDeclined[c] = DeclinedOf(c) /\ AbsLenient[c] = (plan[c].op = "lenient")
    BY <1>1 DEF AbsRuns, AbsDeclined, AbsLenient
<1>6. p.try \in {1, 2} \ (AbsRuns[c] \cup AbsDeclined[c])
    BY <1>1, <1>4, <1>5 DEF RunsOf, DeclinedOf
<1>7. CASE UNCHANGED <<executed, refused>>
    BY <1>1, <1>2, <1>7, SameVerdicts DEF AbsVars
<1>8. ASSUME UNCHANGED <<AbsRuns, AbsDeclined>>
      PROVE  [Abstract!Next]_AbsVars
    BY <1>2, <1>8 DEF AbsVars
<1>9. ASSUME AbsRuns' = [AbsRuns EXCEPT ![c] = @ \cup {p.try}], AbsDeclined' = AbsDeclined
      PROVE  [Abstract!Next]_AbsVars
    <2>1. Abstract!CarryOut(c)
        BY <1>2, <1>6, <1>9 DEF Abstract!CarryOut, Abstract!Open, Abstract!Attempts,
           AbsLenient, AbsStatus, AbsRuns, AbsDeclined
    <2>2. QED
        BY <1>1, <2>1 DEF Abstract!Next, AbsLenient, AbsStatus, AbsRuns, AbsDeclined
<1>10. ASSUME AbsDeclined' = [AbsDeclined EXCEPT ![c] = @ \cup {p.try}], AbsRuns' = AbsRuns,
              plan[c].op = "lenient"
       PROVE  [Abstract!Next]_AbsVars
    <2>1. Abstract!Decline(c)
        BY <1>2, <1>5, <1>6, <1>10 DEF Abstract!Decline, Abstract!Open, Abstract!Attempts,
           AbsLenient, AbsStatus, AbsRuns, AbsDeclined
    <2>2. QED
        BY <1>1, <2>1 DEF Abstract!Next, AbsLenient, AbsStatus, AbsRuns, AbsDeclined
<1>11. ASSUME \A d \in Calls : d # c => executed'[d] = executed[d] /\ refused'[d] = refused[d],
              NEW R, NEW D, RunsOf(c)' = R, DeclinedOf(c)' = D
       PROVE  AbsRuns' = [AbsRuns EXCEPT ![c] = R] /\ AbsDeclined' = [AbsDeclined EXCEPT ![c] = D]
    <2>1. \A d \in Calls : d # c => RunsOf(d)' = RunsOf(d) /\ DeclinedOf(d)' = DeclinedOf(d)
        BY <1>1, <1>11 DEF RunsOf, DeclinedOf, FullOf, Accepted, Judged
    <2>2. QED
        BY <2>1, <1>1, <1>11 DEF AbsRuns, AbsDeclined
<1>12. CASE DeviceObeys(p)
    <2>1. /\ executed' = [executed EXCEPT ![c] = @ \cup {pair}] /\ refused' = refused
        BY <1>12 DEF DeviceObeys
    <2>2. /\ executed'[c] = executed[c] \cup {pair}
          /\ \A d \in Calls : d # c => executed'[d] = executed[d] /\ refused'[d] = refused[d]
        BY <2>1, <1>1 DEF IInv, TypeOK
    <2>3. Accepted(c)' = Accepted(c) \cup {pair}
        BY <2>1, <2>2, <1>1 DEF Accepted, Judged
    <2> DEFINE R == FullOf(c, executed[c])
               A == FullOf(c, Accepted(c))
               R1 == FullOf(c, executed[c] \cup {pair})
               A1 == FullOf(c, Accepted(c) \cup {pair})
    <2>4. /\ RunsOf(c) = R /\ DeclinedOf(c) = A \ R
          /\ RunsOf(c)' = R1 /\ DeclinedOf(c)' = A1 \ R1
        BY <2>2, <2>3, <1>1 DEF RunsOf, DeclinedOf, FullOf
    <2>5. (R1 = R \/ R1 = R \cup {p.try}) /\ (A1 = A \/ A1 = A \cup {p.try})
        <3>1. \A S : \/ FullOf(c, S \cup {pair}) = FullOf(c, S)
                     \/ FullOf(c, S \cup {pair}) = FullOf(c, S) \cup {p.try}
            BY FullGrows
        <3>2. QED
            BY <3>1
    <2>6. executed[c] \cup {pair} \subseteq Accepted(c) \cup {pair}
        BY DEF Accepted, Judged
    <2>7. R1 \subseteq A1
        BY <2>6 DEF FullOf
    <2>8. plan[c].op # "lenient" => A = R /\ A1 = R1
        BY DEF Accepted
    <2>9. /\ AbsRuns' = [AbsRuns EXCEPT ![c] = R1]
          /\ AbsDeclined' = [AbsDeclined EXCEPT ![c] = A1 \ R1]
        BY <2>2, <2>4, <1>11
    <2>10. AbsRuns[c] = R /\ AbsDeclined[c] = A \ R /\ p.try \notin R /\ p.try \notin A
        BY <2>4, <1>4, <1>5
    <2>11. AbsRuns \in [Calls -> SUBSET {1, 2}] /\ AbsDeclined \in [Calls -> SUBSET {1, 2}]
        BY DEF AbsRuns, AbsDeclined, RunsOf, DeclinedOf, FullOf
    <2> HIDE DEF R, A, R1, A1, pair, c
    <2>12. CASE R1 = R /\ A1 = A
        BY <2>9, <2>10, <2>11, <2>12, <1>8
    <2>13. CASE R1 = R \cup {p.try}
        <3>1. A1 = A \cup {p.try}
            BY <2>5, <2>7, <2>10, <2>13
        <3>2. A1 \ R1 = A \ R
            BY <3>1, <2>10, <2>13
        <3>3. AbsDeclined' = AbsDeclined
            BY <3>2, <2>9, <2>10, <2>11
        <3>4. QED
            BY <3>3, <2>9, <2>10, <2>13, <1>9
    <2>14. CASE R1 = R /\ A1 = A \cup {p.try}
        <3>1. A1 \ R1 = (A \ R) \cup {p.try} /\ plan[c].op = "lenient"
            BY <2>8, <2>10, <2>14
        <3>2. AbsRuns' = AbsRuns
            BY <2>9, <2>10, <2>11, <2>14
        <3>3. QED
            BY <3>1, <3>2, <2>9, <2>10, <1>10
    <2>15. QED
        BY <2>5, <2>12, <2>13, <2>14
<1>13. CASE DeviceRefuses(p) /\ ~UNCHANGED refused
    <2>1. /\ refused' = [refused EXCEPT ![c] = @ \cup {pair}] /\ executed' = executed
        BY <1>13 DEF DeviceRefuses
    <2>2. /\ refused'[c] = refused[c] \cup {pair}
          /\ \A d \in Calls : d # c => executed'[d] = executed[d] /\ refused'[d] = refused[d]
        BY <2>1, <1>1 DEF IInv, TypeOK
    <2>3. /\ plan[c].op = "lenient" => Accepted(c)' = Accepted(c) \cup {pair}
          /\ plan[c].op # "lenient" => Accepted(c)' = Accepted(c)
        BY <2>1, <2>2, <1>1 DEF Accepted, Judged
    <2> DEFINE R == FullOf(c, executed[c])
               A == FullOf(c, Accepted(c))
               A1 == FullOf(c, Accepted(c) \cup {pair})
    <2>4. /\ RunsOf(c) = R /\ DeclinedOf(c) = A \ R /\ RunsOf(c)' = R
          /\ plan[c].op = "lenient" => DeclinedOf(c)' = A1 \ R
          /\ plan[c].op # "lenient" => DeclinedOf(c)' = A \ R
        BY <2>1, <2>3, <1>1 DEF RunsOf, DeclinedOf, FullOf
    <2>5. A1 = A \/ A1 = A \cup {p.try}
        <3>1. \A S : \/ FullOf(c, S \cup {pair}) = FullOf(c, S)
                     \/ FullOf(c, S \cup {pair}) = FullOf(c, S) \cup {p.try}
            BY FullGrows
        <3>2. QED
            BY <3>1
    <2>6. AbsRuns[c] = R /\ AbsDeclined[c] = A \ R /\ p.try \notin R /\ p.try \notin A
        BY <2>4, <1>4, <1>5
    <2>7. AbsRuns \in [Calls -> SUBSET {1, 2}] /\ AbsDeclined \in [Calls -> SUBSET {1, 2}]
        BY DEF AbsRuns, AbsDeclined, RunsOf, DeclinedOf, FullOf
    <2>8. /\ AbsRuns' = [AbsRuns EXCEPT ![c] = R]
          /\ AbsDeclined' = [AbsDeclined EXCEPT ![c] = DeclinedOf(c)']
        BY <2>2, <2>4, <1>11
    <2>9. AbsRuns' = AbsRuns
        BY <2>6, <2>7, <2>8
    <2> HIDE DEF R, A, A1, pair, c
    <2>10. CASE DeclinedOf(c)' = A \ R
        BY <2>6, <2>7, <2>8, <2>9, <2>10, <1>8
    <2>11. CASE plan[c].op = "lenient" /\ A1 = A \cup {p.try}
        <3>1. DeclinedOf(c)' = (A \ R) \cup {p.try}
            BY <2>4, <2>6, <2>11
        <3>2. QED
            BY <3>1, <2>6, <2>8, <2>9, <2>11, <1>10
    <2>12. QED
        BY <2>4, <2>5, <2>10, <2>11
<1>14. QED
    BY <1>7, <1>12, <1>13
       DEF DeviceReceives, DeviceRefuses, DeviceErrors, DeviceIgnores

\* MiotDevice implements RemoteCommand: the device judges a command at most once in each of two
\* attempts, and it is reported done only after it was carried out in full, or, where a refused
\* item does not fail the call, answered in full.
THEOREM Implements == Spec => ImplementsRemoteCommand
<1>1. Init => Abstract!Init
    <2>1. ASSUME Init, NEW c \in Calls
          PROVE  StatusOf(c) = "new" /\ RunsOf(c) = {} /\ DeclinedOf(c) = {}
        <3>1. 1 \in 1 .. plan[c].size
            BY <2>1, MiotDeviceAssumption DEF Init, Plan
        <3>2. executed[c] = {} /\ Accepted(c) = {} /\ pc[c] = "new"
            BY <2>1 DEF Init, Accepted, Judged
        <3>3. QED
            BY <3>1, <3>2 DEF StatusOf, RunsOf, DeclinedOf, FullOf
    <2>2. QED
        BY <2>1 DEF Abstract!Init
<1>2. IInv /\ IInv' /\ OnceInv /\ [Next]_vars => [Abstract!Next]_AbsVars
    <2> SUFFICES ASSUME IInv, IInv', OnceInv, [Next]_vars
                 PROVE  [Abstract!Next]_AbsVars
        OBVIOUS
    <2>1. ASSUME NEW c \in Calls, Start(c) \/ ClientStep(c) \/ StoreStep(c) \/ DeviceHello(c)
          PROVE  [Abstract!Next]_AbsVars
        BY <2>1, StepsMove, MovesRefine
    <2>2. ASSUME NEW p \in net, DeviceReceives(p)
          PROVE  [Abstract!Next]_AbsVars
        BY <2>2, DeviceRefines
    <2>3. CASE DeviceClock \/ UNCHANGED vars
        <3>1. UNCHANGED <<plan, executed, refused, pc>>
            BY <2>3 DEF DeviceClock, clientVars, vars
        <3>2. QED
            BY <3>1, SameVerdicts DEF AbsVars, AbsStatus, StatusOf, IsCommand
    <2>4. QED
        BY <2>1, <2>2, <2>3 DEF Next
<1>3. QED
    BY <1>1, <1>2, Invariance, OnceInvariance, PTL
       DEF Spec, ImplementsRemoteCommand, Abstract!Spec, AbsLenient, AbsStatus, AbsRuns, AbsDeclined,
           AbsVars

-----------------------------------------------------------------------------
(* One user.  Only one call is under way, its socket is the only one open, and   *)
(* what the device counts is what this call has sent.                            *)

Idle == Settled \cup {"new"}

Sole == \A c, d \in Calls : pc[c] \notin Idle /\ pc[d] \notin Idle => c = d

\* Only the packet a call waits for is on the wire, and not answered yet.
WireInv ==
    \A p \in net :
        /\ Awaiting(p.call) /\ p.try = Try(p.call) /\ p.idx = cur[p.call]
        /\ reply[p.call] = "none"

Known(s) == s \in Stamps /\ s >= devStamp

StampOK(c) ==
    /\ pc[c] \in {"loading", "loaded", "handshake", "greeted", "fresh"} =>
           stampState[Node(c)] = NoStamp
    /\ pc[c] \in {"greeted", "discovered"} => got[c] = devStamp
    /\ pc[c] = "fresh" => stamp[c] >= devStamp /\ \A p \in net : p.stamp > devStamp
    /\ pc[c] = "cached" /\ reply[c] = "ok" => stamp[c] >= devStamp
    /\ pc[c] \in {"savingCached", "savingFresh", "savingDiscover"} =>
           Known(stampState[Node(c)])

\* Once a command was done the kept stamp is not behind, until the next command uses it.
KeptInv ==
    (\A e \in Calls : pc[e] \in Idle \cup {"discovering", "discovered"}) =>
        \A c \in Calls : pc[c] = "ok" /\ IsCommand(c) =>
            stampState[Node(c)] = NoStamp \/ Known(stampState[Node(c)])

StampInv == Sole /\ WireInv /\ (\A c \in Calls : StampOK(c)) /\ KeptInv

\* Whoever moves, the others rest, and nobody but an awaiting call has a packet on the wire.
LEMMA Alone ==
    ASSUME OneUser, IInv, StampInv, NEW c \in Calls, pc[c] \notin Idle \/ Quiet
    PROVE  /\ \A d \in Calls : d # c => pc[d] \in Idle
           /\ ~Awaiting(c) => net = {}
           /\ \A p \in net : p.call = c /\ p.stamp = stamp[c] /\ p.try = Try(c) /\ p.idx = cur[c]
           /\ \A d \in Calls : Node(d) = Node(c)
<1> USE DEF IInv, TypeOK
<1>1. \A d \in Calls : d # c => pc[d] \in Idle
    BY DEF StampInv, Sole, Quiet, Idle
<1>2. \A p \in net : p.call \in Calls /\ Awaiting(p.call) /\ p.try = Try(p.call)
                     /\ p.idx = cur[p.call] /\ p.stamp = stamp[p.call]
    BY DEF StampInv, WireInv, NetInv, Packet
<1>3. \A p \in net : p.call = c
    BY <1>1, <1>2 DEF Awaiting, Idle, Settled
<1>4. \A d \in Calls : Node(d) = Node(c)
    BY DEF OneUser
<1>5. QED
    BY <1>1, <1>2, <1>3, <1>4

\* What a step of one call has to show: its own part, the wire, and what it leaves behind.
LEMMA OneMoves ==
    ASSUME OneUser, IInv, StampInv, NEW c \in Calls, NEW l \in PC, pc[c] \notin Idle \/ Quiet,
           pc' = [pc EXCEPT ![c] = l], plan' = plan, StampOK(c)', WireInv',
           \/ l \notin Idle \cup {"discovering", "discovered"}
           \/ stampState'[Node(c)] = NoStamp \/ Known(stampState[Node(c)])'
           \/ /\ pc[c] \in Idle \cup {"discovering", "discovered"} /\ l # "ok"
              /\ stampState' = stampState /\ devStamp' = devStamp
    PROVE  StampInv'
<1> USE DEF IInv, TypeOK
<1>1. /\ \A d \in Calls : d # c => pc[d] \in Idle /\ pc'[d] = pc[d]
      /\ pc'[c] = l
      /\ \A d \in Calls : Node(d) = Node(c) /\ Node(d)' = Node(d)
    BY Alone DEF Node
<1>2. Sole'
    BY <1>1 DEF Sole, Idle, Settled
<1>3. \A d \in Calls : StampOK(d)'
    <2> SUFFICES ASSUME NEW d \in Calls, d # c PROVE StampOK(d)'
        OBVIOUS
    <2>1. pc'[d] \in Idle
        BY <1>1
    <2>2. QED
        BY <2>1 DEF StampOK, Idle, Settled
<1>4. KeptInv'
    <2> SUFFICES ASSUME \A e \in Calls : pc'[e] \in Idle \cup {"discovering", "discovered"},
                        NEW d \in Calls, pc'[d] = "ok", IsCommand(d)
                 PROVE  stampState'[Node(d)] = NoStamp \/ Known(stampState[Node(d)])'
        BY <1>1 DEF KeptInv, Idle, Settled, IsCommand
    <2>1. l \in Idle \cup {"discovering", "discovered"}
        BY <1>1
    <2>2. CASE stampState'[Node(c)] = NoStamp \/ Known(stampState[Node(c)])'
        BY <2>2, <1>1
    <2>3. CASE /\ pc[c] \in Idle \cup {"discovering", "discovered"} /\ l # "ok"
               /\ stampState' = stampState /\ devStamp' = devStamp
        <3>1. d # c /\ pc[d] = "ok"
            BY <2>3, <1>1
        <3>2. \A e \in Calls : pc[e] \in Idle \cup {"discovering", "discovered"}
            BY <2>3, <1>1
        <3>3. stampState[Node(d)] = NoStamp \/ Known(stampState[Node(d)])
            BY <3>1, <3>2 DEF StampInv, KeptInv
        <3>4. Node(d)' = Node(d) /\ Node(d)' = Node(c)
            BY <1>1
        <3>5. QED
            BY <2>3, <3>3, <3>4 DEF Known
    <2>4. QED
        BY <2>1, <2>2, <2>3
<1>5. QED
    BY <1>2, <1>3, <1>4 DEF StampInv

\* A packet goes out to an empty wire, on a stamp that may be anything in the first attempt
\* and is ahead of the device in the second.
LEMMA TransmitStamps ==
    ASSUME OneUser, IInv, StampInv, NEW c \in Calls, NEW t \in {1, 2}, NEW i \in 1 .. MaxProps,
           NEW s \in 0 .. StampLimit + 1, pc[c] \notin Idle \/ Quiet, net = {},
           Transmit(c, t, i, s), pc' = [pc EXCEPT ![c] = IF t = 1 THEN "cached" ELSE "fresh"],
           plan' = plan, devStamp' = devStamp,
           t = 2 => s > devStamp /\ stampState' = stampState /\ stampState[Node(c)] = NoStamp
    PROVE  StampInv'
<1> USE DEF IInv, TypeOK
<1> DEFINE l == IF t = 1 THEN "cached" ELSE "fresh"
<1>1. /\ pc'[c] = l /\ stamp'[c] = s /\ cur'[c] = i /\ reply'[c] = "none"
      /\ net' \subseteq {[call |-> c, try |-> t, idx |-> i, stamp |-> s]}
    BY DEF Transmit
<1>2. WireInv'
    BY <1>1 DEF WireInv, Awaiting, Try
<1>3. devStamp \in Nat /\ s \in Nat /\ Node(c)' = Node(c)
    BY MiotDeviceAssumption DEF Stamps, Node
<1>4. StampOK(c)'
    BY <1>1, <1>3 DEF StampOK
<1>5. l \in PC /\ l \notin Idle \cup {"discovering", "discovered"}
    BY DEF PC, Idle, Settled
<1> HIDE DEF l
<1>6. QED
    BY <1>2, <1>4, <1>5, OneMoves DEF l

\* A command tries the stamp there is, or turns to a handshake where there is none.
LEMMA TryStampStamps ==
    ASSUME OneUser, IInv, StampInv, NEW c \in Calls, NEW s \in Stamps \cup {NoStamp},
           pc[c] = "loaded" \/ (pc[c] = "new" /\ Quiet), TryStamp(c, s), plan' = plan,
           devStamp' = devStamp, s = NoStamp => stampState'[Node(c)] = NoStamp
    PROVE  StampInv'
<1> USE MiotDeviceAssumption DEF IInv, TypeOK
<1>1. net = {} /\ (pc[c] \notin Idle \/ Quiet)
    BY Alone DEF Awaiting, Idle, Settled
<1>2. CASE s # NoStamp
    <2>1. Goto(c, "cached") /\ Transmit(c, 1, 1, s + 1)
        BY <1>2 DEF TryStamp
    <2>2. pc' = [pc EXCEPT ![c] = IF 1 = 1 THEN "cached" ELSE "fresh"]
        BY <2>1 DEF Goto
    <2>3. s + 1 \in 0 .. StampLimit + 1 /\ 1 \in 1 .. MaxProps
        BY <1>2 DEF Stamps
    <2> HIDE DEF IInv, TypeOK
    <2>4. 1 \in {1, 2} /\ 1 # 2
        OBVIOUS
    <2>5. QED
        BY <1>1, <2>1, <2>2, <2>3, <2>4, TransmitStamps
<1>3. CASE s = NoStamp
    <2>1. pc' = [pc EXCEPT ![c] = "handshake"] /\ net' = {} /\ Node(c)' = Node(c)
        BY <1>1, <1>3 DEF TryStamp, Goto, Node
    <2>2. StampOK(c)' /\ WireInv'
        BY <1>3, <2>1 DEF StampOK, WireInv
    <2>3. "handshake" \in PC /\ "handshake" \notin Idle \cup {"discovering", "discovered"}
        BY DEF PC, Idle, Settled
    <2>4. QED
        BY <1>1, <2>1, <2>2, <2>3, OneMoves
<1>4. QED
    BY <1>2, <1>3

LEMMA StartStamps ==
    ASSUME OneUser, IInv, StampInv, NEW c \in Calls, Start(c)
    PROVE  StampInv'
<1> USE DEF IInv, TypeOK
<1>1. pc[c] = "new" /\ Quiet /\ plan' = plan /\ stampState' = stampState /\ devStamp' = devStamp
    BY DEF Start, StartDiscover, StartUnknown, StartCommand, Begin, OneUser, clientVars
<1>2. net = {} /\ Node(c)' = Node(c) /\ stampState[Node(c)] \in Stamps \cup {NoStamp}
    BY <1>1, Alone DEF Awaiting, Node, Plan
<1>3. ASSUME NEW l \in {"discovering", "failed", "loading"}, Goto(c, l), net' = net,
             l = "loading" => stampState[Node(c)] = NoStamp
      PROVE  StampInv'
    <2>1. pc' = [pc EXCEPT ![c] = l] /\ pc'[c] = l /\ l \in PC /\ l # "ok"
          /\ (l \notin Idle \cup {"discovering", "discovered"} \/ l # "loading")
        BY <1>3 DEF Goto, PC, Idle, Settled
    <2>2. StampOK(c)' /\ WireInv'
        BY <1>1, <1>2, <1>3, <2>1 DEF StampOK, WireInv
    <2>3. pc[c] \in Idle \cup {"discovering", "discovered"}
        BY <1>1 DEF Idle
    <2>4. QED
        BY <1>1, <2>1, <2>2, <2>3, OneMoves
<1>4. CASE StartCommand(c)
    BY <1>1, <1>2, <1>3, <1>4, TryStampStamps DEF StartCommand
<1>5. QED
    BY <1>3, <1>4 DEF Start, StartDiscover, StartUnknown

LEMMA LoadedStamps ==
    ASSUME OneUser, IInv, StampInv, NEW c \in Calls, Loaded(c)
    PROVE  StampInv'
<1> USE DEF IInv, TypeOK
<1> DEFINE s == IF got[c] # NoStamp THEN got[c] ELSE stampState[Node(c)]
<1>1. /\ TryStamp(c, s) /\ pc[c] = "loaded" /\ plan' = plan /\ devStamp' = devStamp
      /\ s = NoStamp => stampState' = stampState
    BY DEF Loaded
<1>2. s \in Stamps \cup {NoStamp} /\ (s = NoStamp => stampState[Node(c)] = NoStamp)
    BY DEF Node, Plan
<1> HIDE DEF s
<1>3. QED
    BY <1>1, <1>2, TryStampStamps

LEMMA SendFreshStamps ==
    ASSUME OneUser, IInv, StampInv, NEW c \in Calls, SendFresh(c)
    PROVE  StampInv'
<1> USE MiotDeviceAssumption DEF IInv, TypeOK
<1>1. /\ pc[c] = "greeted" /\ plan' = plan /\ stampState' = stampState /\ devStamp' = devStamp
      /\ pc' = [pc EXCEPT ![c] = IF 2 = 1 THEN "cached" ELSE "fresh"]
      /\ Transmit(c, 2, 1, got[c] + 1)
    BY DEF SendFresh, Goto, clientVars
<1>2. got[c] = devStamp /\ stampState[Node(c)] = NoStamp
    BY <1>1 DEF StampInv, StampOK
<1>3. /\ got[c] + 1 \in 0 .. StampLimit + 1 /\ got[c] + 1 > devStamp /\ 1 \in 1 .. MaxProps
    BY <1>2 DEF Stamps
<1>4. net = {} /\ pc[c] \notin Idle
    BY <1>1, Alone DEF Awaiting, Idle, Settled
<1>5. QED
    BY <1>1, <1>2, <1>3, <1>4, TransmitStamps

LEMMA SendNextStamps ==
    ASSUME OneUser, IInv, StampInv, NEW c \in Calls, SendNext(c)
    PROVE  StampInv'
<1> USE MiotDeviceAssumption DEF IInv, TypeOK
<1> DEFINE t == Try(c)
           i == cur[c] + 1
           s == stamp[c] + 1
<1>1. /\ pc[c] \in {"cached", "fresh"} /\ pc' = pc /\ plan' = plan
      /\ stampState' = stampState /\ devStamp' = devStamp
      /\ reply[c] = "ok" /\ cur[c] < plan[c].size
      /\ Transmit(c, t, i, s)
    BY DEF SendNext, Awaiting, clientVars
<1>2. pc' = [pc EXCEPT ![c] = IF t = 1 THEN "cached" ELSE "fresh"] /\ t \in {1, 2}
    BY <1>1 DEF Try
<1>3. i \in 1 .. MaxProps /\ pc[c] \notin Idle
    BY <1>1 DEF Plan, Idle, Settled
<1>4. net = {}
    BY <1>1, <1>3, Alone DEF StampInv, WireInv
<1>5. stamp[c] \in Stamps /\ s \in 0 .. StampLimit + 1
    <2>1. stamp[c] \in Stamps
        BY <1>1 DEF ExchangeInv, ExchangeOK
    <2>2. QED
        BY <2>1 DEF Stamps
<1>6. t = 2 => s > devStamp /\ stampState[Node(c)] = NoStamp
    BY <1>1, <1>5 DEF StampInv, StampOK, Try, Stamps
<1> HIDE DEF t, i, s, IInv, TypeOK
<1>7. QED
    BY <1>1, <1>2, <1>3, <1>4, <1>5, <1>6, TransmitStamps

\* Steps without a packet of a call that waits for no answer.
LEMMA HandshakeStamps ==
    ASSUME OneUser, IInv, StampInv, NEW c \in Calls,
           DeviceHello(c) \/ HandshakeFails(c) \/ Discovered(c)
    PROVE  StampInv'
<1> USE DEF IInv, TypeOK
<1>1. /\ pc[c] \in {"handshake", "greeted", "discovering", "discovered"}
      /\ plan' = plan /\ net' = net /\ devStamp' = devStamp /\ reply' = reply
    BY DEF DeviceHello, HandshakeFails, Discovered, deviceVars, clientVars
<1>2. net = {} /\ Node(c)' = Node(c) /\ pc[c] \notin Idle /\ Node(c) \in Nodes
    BY <1>1, Alone DEF Awaiting, Node, Plan, Idle, Settled
<1>3. WireInv' /\ devStamp \in Nat
    BY <1>1, <1>2, MiotDeviceAssumption DEF WireInv, Stamps
<1>4. CASE DeviceHello(c)
    <2> DEFINE l == IF pc[c] = "handshake" THEN "greeted" ELSE "discovered"
    <2>1. /\ pc[c] \in {"handshake", "discovering"}
          /\ pc' = [pc EXCEPT ![c] = l] /\ pc'[c] = l /\ l \in PC /\ l # "ok"
          /\ got'[c] = devStamp /\ stampState' = stampState
        BY <1>4 DEF DeviceHello, Goto, PC, clientVars
    <2>2. StampOK(c)'
        BY <1>1, <1>2, <2>1 DEF StampInv, StampOK
    <2>3. l \notin Idle \cup {"discovering", "discovered"}
          \/ pc[c] \in Idle \cup {"discovering", "discovered"}
        BY <2>1 DEF Idle, Settled
    <2> HIDE DEF l
    <2>4. QED
        BY <1>1, <1>2, <1>3, <2>1, <2>2, <2>3, OneMoves
<1>5. CASE HandshakeFails(c)
    <2>1. /\ pc' = [pc EXCEPT ![c] = "failed"] /\ pc'[c] = "failed" /\ "failed" \in PC
          /\ stampState' = stampState
        BY <1>5 DEF HandshakeFails, Goto, PC, Settled, clientVars
    <2>2. StampOK(c)'
        BY <2>1 DEF StampOK
    <2>3. stampState'[Node(c)] = NoStamp \/ pc[c] \in Idle \cup {"discovering", "discovered"}
        BY <1>1, <2>1 DEF StampInv, StampOK
    <2>4. QED
        BY <1>1, <1>2, <1>3, <2>1, <2>2, <2>3, OneMoves
<1>6. CASE Discovered(c)
    <2> DEFINE l == IF mode.store THEN "savingDiscover" ELSE "ok"
    <2>1. /\ pc' = [pc EXCEPT ![c] = l] /\ pc'[c] = l /\ l \in PC
          /\ stampState'[Node(c)] = got[c] /\ got[c] = devStamp
        BY <1>2, <1>6 DEF Discovered, Goto, SetStampState, PC, Settled, StampInv, StampOK
    <2>2. Known(stampState[Node(c)])'
        BY <1>1, <1>2, <1>3, <2>1 DEF Known
    <2>3. StampOK(c)'
        BY <1>2, <2>1, <2>2 DEF StampOK
    <2> HIDE DEF l
    <2>4. QED
        BY <1>1, <1>2, <1>3, <2>1, <2>2, <2>3, OneMoves
<1>7. QED
    BY <1>4, <1>5, <1>6

LEMMA StoreStamps ==
    ASSUME OneUser, IInv, StampInv, NEW c \in Calls, StoreStep(c)
    PROVE  StampInv'
<1> USE DEF IInv, TypeOK
<1>1. /\ pc[c] \in {"loading", "savingCached", "savingFresh", "savingDiscover"}
      /\ plan' = plan /\ net' = net /\ devStamp' = devStamp
    BY DEF StoreStep, StoreReads, StoreReadFails, StoreWrites, StoreWriteFails, Saving,
           deviceVars
<1>2. net = {} /\ Node(c)' = Node(c) /\ pc[c] \notin Idle /\ Node(c) \in Nodes
    BY <1>1, Alone DEF Awaiting, Node, Plan, Idle, Settled
<1>3. WireInv' /\ StampOK(c)
    BY <1>1, <1>2 DEF WireInv, StampInv
<1>4. CASE StoreReads(c)
    <2>1. /\ pc' = [pc EXCEPT ![c] = "loaded"] /\ pc'[c] = "loaded" /\ "loaded" \in PC
          /\ stampState'[Node(c)] = NoStamp
        BY <1>3, <1>4 DEF StoreReads, Goto, PC, StampOK, clientVars
    <2>2. StampOK(c)'
        BY <1>2, <2>1 DEF StampOK
    <2>3. QED
        BY <1>1, <1>2, <1>3, <2>1, <2>2, OneMoves
<1>5. CASE StoreReadFails(c)
    <2>1. /\ pc' = [pc EXCEPT ![c] = "failed"] /\ pc'[c] = "failed" /\ "failed" \in PC
          /\ stampState'[Node(c)] = NoStamp
        BY <1>3, <1>5 DEF StoreReadFails, Goto, PC, Settled, StampOK, clientVars
    <2>2. StampOK(c)'
        BY <2>1 DEF StampOK
    <2>3. QED
        BY <1>1, <1>2, <1>3, <2>1, <2>2, OneMoves
<1>6. ASSUME NEW l \in {"ok", "failed"}, Goto(c, l), stampState' = stampState, Saving(c)
      PROVE  StampInv'
    <2>1. pc' = [pc EXCEPT ![c] = l] /\ pc'[c] = l /\ l \in PC
        BY <1>6 DEF Goto, PC, Settled
    <2>2. StampOK(c)' /\ Known(stampState[Node(c)])'
        BY <1>1, <1>2, <1>3, <1>6, <2>1 DEF StampOK, Saving, Known
    <2>3. QED
        BY <1>1, <1>2, <1>3, <2>1, <2>2, OneMoves
<1>7. CASE Goto(c, "handshake") /\ SetStampState(c, NoStamp)
    <2>1. /\ pc' = [pc EXCEPT ![c] = "handshake"] /\ pc'[c] = "handshake" /\ "handshake" \in PC
          /\ stampState'[Node(c)] = NoStamp
        BY <1>2, <1>7 DEF Goto, SetStampState, PC
    <2>2. StampOK(c)'
        BY <1>2, <2>1 DEF StampOK
    <2>3. QED
        BY <1>1, <1>2, <1>3, <2>1, <2>2, OneMoves
<1>8. CASE StoreWrites(c) \/ StoreWriteFails(c)
    BY <1>6, <1>7, <1>8 DEF StoreWrites, StoreWriteFails
<1>9. QED
    BY <1>4, <1>5, <1>8 DEF StoreStep

\* The exchange is over and its packets are gone.
LEMMA ClosingStamps ==
    ASSUME OneUser, IInv, StampInv, NEW c \in Calls, Finish(c) \/ ExchangeFails(c)
    PROVE  StampInv'
<1> USE DEF IInv, TypeOK
<1>1. /\ pc[c] \in {"cached", "fresh"} /\ plan' = plan /\ devStamp' = devStamp
      /\ stamp' = stamp /\ CloseSocket(c)
    BY DEF Finish, ExchangeFails, Awaiting
<1>2. Node(c)' = Node(c) /\ pc[c] \notin Idle /\ Node(c) \in Nodes /\ StampOK(c)
    BY <1>1 DEF Node, Plan, Idle, Settled, StampInv
<1>3. WireInv'
    <2>1. \A p \in net : p.call = c
        BY <1>2, Alone
    <2>2. net' = {}
        BY <1>1, <2>1 DEF CloseSocket, OneUser
    <2>3. QED
        BY <2>2 DEF WireInv
<1>4. CASE Finish(c)
    <2> DEFINE l == IF ~mode.store THEN "ok"
                    ELSE IF pc[c] = "cached" THEN "savingCached" ELSE "savingFresh"
    <2>1. /\ pc' = [pc EXCEPT ![c] = l] /\ pc'[c] = l /\ l \in PC
          /\ stampState'[Node(c)] = stamp[c] /\ reply[c] = "ok"
        BY <1>2, <1>4 DEF Finish, Goto, SetStampState, PC, Settled
    <2>2. stamp[c] \in Stamps
        BY <2>1 DEF ExchangeInv, ExchangeOK
    <2>3. stamp[c] >= devStamp
        BY <1>1, <1>2, <2>1 DEF StampOK
    <2>4. Known(stampState[Node(c)])'
        BY <1>1, <1>2, <2>1, <2>2, <2>3 DEF Known
    <2>5. StampOK(c)'
        BY <1>2, <2>1, <2>4 DEF StampOK
    <2> HIDE DEF l
    <2>6. QED
        BY <1>1, <1>2, <1>3, <2>1, <2>4, <2>5, OneMoves
<1>5. CASE ExchangeFails(c)
    <2> DEFINE l == IF pc[c] = "cached" THEN "handshake" ELSE "failed"
    <2>1. /\ pc' = [pc EXCEPT ![c] = l] /\ pc'[c] = l /\ l \in PC
          /\ stampState'[Node(c)] = NoStamp
        BY <1>1, <1>2, <1>5 DEF ExchangeFails, Goto, SetStampState, PC, Settled, StampOK
    <2>2. StampOK(c)'
        BY <1>2, <2>1 DEF StampOK
    <2> HIDE DEF l
    <2>3. QED
        BY <1>1, <1>2, <1>3, <2>1, <2>2, OneMoves
<1>6. QED
    BY <1>4, <1>5

\* The device takes the only packet there is, and counts no further than its stamp.
LEMMA DeviceStamps ==
    ASSUME OneUser, IInv, StampInv, NEW p \in net, DeviceReceives(p)
    PROVE  StampInv'
<1> USE DEF IInv, TypeOK
<1> DEFINE c == p.call
<1>1. /\ pc' = pc /\ plan' = plan /\ stampState' = stampState /\ stamp' = stamp
      /\ got' = got /\ cur' = cur /\ net' = net \ {p}
      /\ c \in Calls /\ p \in Packet /\ p.stamp \in Stamps
    BY DEF DeviceReceives, Packet, clientVars
<1>2. Awaiting(c) /\ p.try = Try(c) /\ p.idx = cur[c]
    BY <1>1 DEF StampInv, WireInv
<1>3. pc[c] \in {"cached", "fresh"} /\ pc[c] \notin Idle
    BY <1>2 DEF Awaiting, Idle, Settled
<1>4. p.stamp = stamp[c]
    BY <1>1, <1>3, Alone
<1>5. net' = {}
    <2>1. \A q \in net : q \in Packet /\ q.call = c /\ q.try = p.try /\ q.idx = p.idx /\ q.stamp = p.stamp
        BY <1>1, <1>2, <1>3, <1>4, Alone
    <2>2. \A q \in net : q = p
        BY <1>1, <2>1 DEF Packet
    <2>3. QED
        BY <1>1, <2>2
<1>6. WireInv'
    BY <1>5 DEF WireInv
<1>7. /\ devStamp' = devStamp \/ devStamp' = Counted(p)
      /\ reply'[c] = "ok" => reply[c] = "ok" \/ (devStamp' = Counted(p) /\ p.stamp > devStamp)
    BY <1>1
       DEF DeviceReceives, DeviceObeys, DeviceRefuses, DeviceErrors, DeviceIgnores, OneUser, Answer
<1>8. reply[c] = "none"
    BY <1>1 DEF StampInv, WireInv
<1>9. StampOK(c)'
    <2>1. StampOK(c) /\ Node(c)' = Node(c) /\ devStamp \in Nat /\ p.stamp \in Nat
        BY <1>1, MiotDeviceAssumption DEF StampInv, Node, Stamps
    <2>2. devStamp' = devStamp \/ devStamp' = p.stamp
        BY <1>7 DEF Counted
    <2>3. pc[c] = "fresh" => stamp[c] > devStamp
        BY <1>4, <2>1 DEF StampOK
    <2>4. pc[c] = "fresh" => stamp[c] >= devStamp'
        BY <1>4, <2>1, <2>2, <2>3
    <2>5. reply'[c] = "ok" => stamp[c] >= devStamp'
        BY <1>4, <1>7, <1>8, <2>1, <2>2 DEF Counted
    <2>6. QED
        BY <1>1, <1>3, <1>5, <2>1, <2>4, <2>5 DEF StampOK
<1>10. pc' = [pc EXCEPT ![c] = pc[c]]
    BY <1>1
<1>11. pc[c] \in PC /\ pc[c] \notin Idle \cup {"discovering", "discovered"}
    BY <1>1, <1>3
<1> HIDE DEF c
<1>12. c \in Calls /\ plan' = plan
    BY <1>1
<1>13. QED
    BY <1>3, <1>6, <1>9, <1>10, <1>11, <1>12, OneMoves

LEMMA StampInvariance == Spec => [](OneUser => StampInv)
<1>1. Init => (OneUser => StampInv)
    BY DEF Init, StampInv, Sole, WireInv, StampOK, KeptInv, Idle
<1>2. IInv /\ (OneUser => StampInv) /\ [Next]_vars => (OneUser => StampInv)'
    <2> SUFFICES ASSUME IInv, OneUser => StampInv, [Next]_vars, OneUser'
                 PROVE  StampInv'
        OBVIOUS
    <2>1. mode' = mode /\ plan' = plan
        BY DEF Next, Start, StartDiscover, StartUnknown, StartCommand, Begin, ClientStep, Loaded,
               SendFresh, Discovered, SendNext, Finish, ExchangeFails, HandshakeFails, StoreStep,
               StoreReads, StoreReadFails, StoreWrites, StoreWriteFails, DeviceHello,
               DeviceReceives, DeviceClock, vars
    <2>2. OneUser /\ StampInv
        BY <2>1 DEF OneUser, Node
    <2>3. CASE UNCHANGED vars
        BY <2>2, <2>3
           DEF vars, StampInv, Sole, WireInv, StampOK, KeptInv, Known, Awaiting, Try, Node, IsCommand
    <2>4. ASSUME NEW c \in Calls, Start(c) \/ ClientStep(c) \/ StoreStep(c) \/ DeviceHello(c)
          PROVE  StampInv'
        BY <2>2, <2>4, StartStamps, LoadedStamps, SendFreshStamps, SendNextStamps,
           HandshakeStamps, StoreStamps, ClosingStamps DEF ClientStep
    <2>5. ASSUME NEW p \in net, DeviceReceives(p) PROVE StampInv'
        BY <2>2, <2>5, DeviceStamps
    <2>6. ~DeviceClock
        BY <2>2 DEF DeviceClock, OneUser
    <2>7. QED
        BY <2>3, <2>4, <2>5, <2>6 DEF Next
<1>3. QED
    BY <1>1, <1>2, Invariance, PTL DEF Spec

-----------------------------------------------------------------------------
\* A single user never meets a stale stamp of its own making: not on the retry after a
\* handshake, and not on the command after one that was done, whatever stamps an earlier life
\* left with the node, in the store and in the device.
THEOREM StampsAreSound == Spec => []StampsSound
<1>1. IInv /\ (OneUser => StampInv) => RetryNeverStale
    <2> SUFFICES ASSUME IInv, OneUser, StampInv, NEW p \in net, p.try = 2
                 PROVE  p.stamp > devStamp
        BY DEF RetryNeverStale
    <2>1. p.call \in Calls /\ pc[p.call] = "fresh"
        BY DEF IInv, TypeOK, Packet, StampInv, WireInv, Awaiting, Try
    <2>2. QED
        BY <2>1 DEF StampInv, StampOK
<1>2. (OneUser => StampInv) => KeptStampNotBehind
    <2> SUFFICES ASSUME OneUser, StampInv, Quiet, NEW c \in Calls, pc[c] = "ok",
                        IsCommand(c), stampState[Node(c)] # NoStamp
                 PROVE  stampState[Node(c)] >= devStamp
        BY DEF KeptStampNotBehind
    <2>1. \A e \in Calls : pc[e] \in Idle \cup {"discovering", "discovered"}
        BY DEF Quiet, Idle
    <2>2. QED
        BY <2>1 DEF StampInv, KeptInv, Known
<1>3. QED
    BY <1>1, <1>2, Invariance, StampInvariance, PTL DEF StampsSound
=============================================================================

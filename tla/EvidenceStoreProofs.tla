------------------------ MODULE EvidenceStoreProofs ------------------------
(***************************************************************************)
(* EvidenceStore, for any clients and packets.  The inductive invariant    *)
(* says what each client knows of its object at each step, and that only   *)
(* the run that a packet comes from touches it until it is stored whole.   *)
(***************************************************************************)
EXTENDS EvidenceStore, TLAPS

\* A loss of power brings no object back and takes no synced one.
LEMMA PowerLossObjects ==
  ASSUME TypeOK, PowerLoss
  PROVE  /\ \A p \in Packet : object[p] = "absent" => object'[p] = "absent"
         /\ durable \subseteq durable'
         /\ object' \in [Packet -> {"absent", "partial", "whole"}]
         /\ durable' = {p \in Packet : object'[p] = "whole"}
  BY Zenon DEF TypeOK, PowerLoss

\* Every step keeps the types.
LEMMA TypeStep ==
  ASSUME TypeOK /\ Progress, Next
  PROVE  TypeOK'
<1> USE EvidenceStoreAssumption DEF TypeOK, Progress
<1>1. ASSUME NEW c \in Client, FinishRun(c) PROVE TypeOK'
  BY <1>1 DEF FinishRun, Goto, files, history
<1>2. ASSUME NEW c \in Client, Retire(c) PROVE TypeOK'
  BY <1>2 DEF Retire, Leave, history
<1>3. ASSUME NEW c \in Client, Create(c) PROVE TypeOK'
  BY <1>3 DEF Create, Goto, history
<1>4. ASSUME NEW c \in Client, Exists(c) PROVE TypeOK'
  BY <1>4 DEF Exists, Goto, files, history
<1>5. ASSUME NEW c \in Client, Write(c) PROVE TypeOK'
  BY <1>5 DEF Write, Goto, history
<1>6. ASSUME NEW c \in Client, Sync(c) PROVE TypeOK'
  BY <1>6 DEF Sync, Goto, history
<1>7. ASSUME NEW c \in Client, Verify(c) PROVE TypeOK'
  BY <1>7 DEF Verify, Goto, files, history
<1>8. ASSUME NEW c \in Client, Publish(c) PROVE TypeOK'
  BY <1>8 DEF Publish, Goto, Leave, history
<1>9. ASSUME NEW c \in Client, SaveBaseline(c) PROVE TypeOK'
  BY <1>9 DEF SaveBaseline, Goto, Hold, files, history
<1>10. ASSUME NEW c \in Client, UpdateBaseline(c) PROVE TypeOK'
  BY <1>10 DEF UpdateBaseline, Hold, files, history
<1>11. ASSUME NEW c \in Client, AddVersion(c) PROVE TypeOK'
  BY <1>11 DEF AddVersion, Goto, history
<1>12. ASSUME NEW c \in Client, NameBaseline(c) PROVE TypeOK'
  BY <1>12 DEF NameBaseline, Goto, Leave
<1>13. ASSUME NEW c \in Client, End(c) PROVE TypeOK'
  BY <1>13 DEF End, Leave, files, history
<1>14. ASSUME NEW c \in Client, NEW p \in Packet, StartRun(c, p) PROVE TypeOK'
  BY <1>14 DEF StartRun, Goto, Hold
<1>15. ASSUME NEW c \in Client, NEW p \in Packet, UseTool(c, p) PROVE TypeOK'
  BY <1>15 DEF UseTool, Goto, Hold, files, history
<1>16. ASSUME DeleteBaseline PROVE TypeOK'
  BY <1>16 DEF DeleteBaseline, clients, history
<1>17. ASSUME PowerLoss PROVE TypeOK'
  BY <1>17 DEF PowerLoss, history
<1>18. ASSUME NEW c \in Client, NEW p \in Packet, Sum(c, p) PROVE TypeOK'
  BY <1>18 DEF Sum, Goto, Hold, files
<1> QED BY <1>1, <1>2, <1>3, <1>4, <1>5, <1>6, <1>7, <1>8, <1>9, <1>10, <1>11, <1>12, <1>13, <1>14, <1>15, <1>16, <1>17, <1>18
       DEF Next

\* Every step keeps what the clients know of their progress.
LEMMA ProgressStep ==
  ASSUME TypeOK /\ Progress /\ OwnPacket, Next
  PROVE  Progress'
<1> USE EvidenceStoreAssumption DEF TypeOK, Progress, OwnPacket, Own
<1>1. ASSUME NEW c \in Client, FinishRun(c) PROVE Progress'
  BY <1>1 DEF FinishRun, Goto, files, history
<1>2. ASSUME NEW c \in Client, Retire(c) PROVE Progress'
  BY <1>2 DEF Retire, Leave, history
<1>3. ASSUME NEW c \in Client, Create(c) PROVE Progress'
  BY <1>3 DEF Create, Goto, history
<1>4. ASSUME NEW c \in Client, Exists(c) PROVE Progress'
  BY <1>4 DEF Exists, Goto, files, history
<1>5. ASSUME NEW c \in Client, Write(c) PROVE Progress'
  BY <1>5 DEF Write, Goto, history
<1>6. ASSUME NEW c \in Client, Sync(c) PROVE Progress'
  BY <1>6 DEF Sync, Goto, history
<1>7. ASSUME NEW c \in Client, Verify(c) PROVE Progress'
  BY <1>7 DEF Verify, Goto, files, history
<1>8. ASSUME NEW c \in Client, Publish(c) PROVE Progress'
  BY <1>8 DEF Publish, Goto, Leave, history
<1>9. ASSUME NEW c \in Client, SaveBaseline(c) PROVE Progress'
  BY <1>9 DEF SaveBaseline, Goto, Hold, files, history
<1>10. ASSUME NEW c \in Client, UpdateBaseline(c) PROVE Progress'
  BY <1>10 DEF UpdateBaseline, Hold, files, history
<1>11. ASSUME NEW c \in Client, AddVersion(c) PROVE Progress'
  BY <1>11 DEF AddVersion, Goto, history
<1>12. ASSUME NEW c \in Client, NameBaseline(c) PROVE Progress'
  BY <1>12 DEF NameBaseline, Goto, Leave
<1>13. ASSUME NEW c \in Client, End(c) PROVE Progress'
  BY <1>13 DEF End, Leave, files, history
<1>14. ASSUME NEW c \in Client, NEW p \in Packet, StartRun(c, p) PROVE Progress'
  BY <1>14 DEF StartRun, Goto, Hold
<1>15. ASSUME NEW c \in Client, NEW p \in Packet, UseTool(c, p) PROVE Progress'
  BY <1>15 DEF UseTool, Goto, Hold, files, history
<1>16. ASSUME DeleteBaseline PROVE Progress'
  BY <1>16 DEF DeleteBaseline, clients, history
<1>17. ASSUME PowerLoss PROVE Progress'
  BY <1>17 DEF PowerLoss, history
<1>18. ASSUME NEW c \in Client, NEW p \in Packet, Sum(c, p) PROVE Progress'
  BY <1>18 DEF Sum, Goto, Hold, files
<1> QED BY <1>1, <1>2, <1>3, <1>4, <1>5, <1>6, <1>7, <1>8, <1>9, <1>10, <1>11, <1>12, <1>13, <1>14, <1>15, <1>16, <1>17, <1>18
       DEF Next

\* Every step keeps that a run's packet is its own.
LEMMA OwnStep ==
  ASSUME TypeOK /\ Progress /\ OwnPacket, Next
  PROVE  OwnPacket'
<1> USE EvidenceStoreAssumption DEF TypeOK, Progress, OwnPacket, Own
<1>1. ASSUME NEW c \in Client, FinishRun(c) PROVE OwnPacket'
  BY <1>1 DEF FinishRun, Goto, files, history
<1>2. ASSUME NEW c \in Client, Retire(c) PROVE OwnPacket'
  BY <1>2 DEF Retire, Leave, history
<1>3. ASSUME NEW c \in Client, Create(c) PROVE OwnPacket'
  <2>1. packet[c] \in Packet /\ packet[c] \in started \cup Foreign
    BY <1>3 DEF Create, Goto
  <2>2. \A p \in Packet : object'[p] # "absent" => p \in started' \cup Foreign
    BY <1>3, <2>1 DEF Create, history
  <2>3. ASSUME NEW d \in Client PROVE Own(d)'
    BY <1>3, <2>1 DEF Create, Goto, history
  <2>4. \A d, e \in Client : goal'[d] = "run" /\ goal'[e] = "run" /\ packet'[d] = packet'[e] => d = e
    BY <1>3 DEF Create
  <2> QED BY <2>2, <2>3, <2>4
<1>4. ASSUME NEW c \in Client, Exists(c) PROVE OwnPacket'
  BY <1>4 DEF Exists, Goto, files, history
<1>5. ASSUME NEW c \in Client, Write(c) PROVE OwnPacket'
  BY <1>5 DEF Write, Goto, history
<1>6. ASSUME NEW c \in Client, Sync(c) PROVE OwnPacket'
  BY <1>6 DEF Sync, Goto, history
<1>7. ASSUME NEW c \in Client, Verify(c) PROVE OwnPacket'
  BY <1>7 DEF Verify, Goto, files, history
<1>8. ASSUME NEW c \in Client, Publish(c) PROVE OwnPacket'
  BY <1>8 DEF Publish, Goto, Leave, history
<1>9. ASSUME NEW c \in Client, SaveBaseline(c) PROVE OwnPacket'
  BY <1>9 DEF SaveBaseline, Goto, Hold, files, history
<1>10. ASSUME NEW c \in Client, UpdateBaseline(c) PROVE OwnPacket'
  BY <1>10 DEF UpdateBaseline, Hold, files, history
<1>11. ASSUME NEW c \in Client, AddVersion(c) PROVE OwnPacket'
  BY <1>11 DEF AddVersion, Goto, history
<1>12. ASSUME NEW c \in Client, NameBaseline(c) PROVE OwnPacket'
  BY <1>12 DEF NameBaseline, Goto, Leave
<1>13. ASSUME NEW c \in Client, End(c) PROVE OwnPacket'
  BY <1>13 DEF End, Leave, files, history
<1>14. ASSUME NEW c \in Client, NEW p \in Packet, StartRun(c, p) PROVE OwnPacket'
  BY <1>14 DEF StartRun, Goto, Hold
<1>15. ASSUME NEW c \in Client, NEW p \in Packet, UseTool(c, p) PROVE OwnPacket'
  BY <1>15 DEF UseTool, Goto, Hold, files, history
<1>16. ASSUME DeleteBaseline PROVE OwnPacket'
  BY <1>16 DEF DeleteBaseline, clients, history
<1>17. ASSUME PowerLoss PROVE OwnPacket'
  BY <1>17, PowerLossObjects DEF PowerLoss, history
<1>18. ASSUME NEW c \in Client, NEW p \in Packet, Sum(c, p) PROVE OwnPacket'
  BY <1>18 DEF Sum, Goto, Hold, files
<1> QED BY <1>1, <1>2, <1>3, <1>4, <1>5, <1>6, <1>7, <1>8, <1>9, <1>10, <1>11, <1>12, <1>13, <1>14, <1>15, <1>16, <1>17, <1>18
       DEF Next

\* Every step keeps a run's checkpoint or its synced evidence.
LEMMA EvidenceStep ==
  ASSUME TypeOK /\ Progress /\ OwnPacket /\ EvidenceDurable, Next
  PROVE  EvidenceDurable'
<1> USE EvidenceStoreAssumption DEF TypeOK, Progress, OwnPacket, Own, EvidenceDurable
<1>1. ASSUME NEW c \in Client, FinishRun(c) PROVE EvidenceDurable'
  BY <1>1 DEF FinishRun, Goto, files, history
<1>2. ASSUME NEW c \in Client, Retire(c) PROVE EvidenceDurable'
  BY <1>2 DEF Retire, Leave, history
<1>3. ASSUME NEW c \in Client, Create(c) PROVE EvidenceDurable'
  BY <1>3 DEF Create, Goto, history
<1>4. ASSUME NEW c \in Client, Exists(c) PROVE EvidenceDurable'
  BY <1>4 DEF Exists, Goto, files, history
<1>5. ASSUME NEW c \in Client, Write(c) PROVE EvidenceDurable'
  BY <1>5 DEF Write, Goto, history
<1>6. ASSUME NEW c \in Client, Sync(c) PROVE EvidenceDurable'
  BY <1>6 DEF Sync, Goto, history
<1>7. ASSUME NEW c \in Client, Verify(c) PROVE EvidenceDurable'
  BY <1>7 DEF Verify, Goto, files, history
<1>8. ASSUME NEW c \in Client, Publish(c) PROVE EvidenceDurable'
  BY <1>8 DEF Publish, Goto, Leave, history
<1>9. ASSUME NEW c \in Client, SaveBaseline(c) PROVE EvidenceDurable'
  BY <1>9 DEF SaveBaseline, Goto, Hold, files, history
<1>10. ASSUME NEW c \in Client, UpdateBaseline(c) PROVE EvidenceDurable'
  BY <1>10 DEF UpdateBaseline, Hold, files, history
<1>11. ASSUME NEW c \in Client, AddVersion(c) PROVE EvidenceDurable'
  BY <1>11 DEF AddVersion, Goto, history
<1>12. ASSUME NEW c \in Client, NameBaseline(c) PROVE EvidenceDurable'
  BY <1>12 DEF NameBaseline, Goto, Leave
<1>13. ASSUME NEW c \in Client, End(c) PROVE EvidenceDurable'
  BY <1>13 DEF End, Leave, files, history
<1>14. ASSUME NEW c \in Client, NEW p \in Packet, StartRun(c, p) PROVE EvidenceDurable'
  BY <1>14 DEF StartRun, Goto, Hold
<1>15. ASSUME NEW c \in Client, NEW p \in Packet, UseTool(c, p) PROVE EvidenceDurable'
  BY <1>15 DEF UseTool, Goto, Hold, files, history
<1>16. ASSUME DeleteBaseline PROVE EvidenceDurable'
  BY <1>16 DEF DeleteBaseline, clients, history
<1>17. ASSUME PowerLoss PROVE EvidenceDurable'
  BY <1>17, PowerLossObjects DEF PowerLoss, history
<1>18. ASSUME NEW c \in Client, NEW p \in Packet, Sum(c, p) PROVE EvidenceDurable'
  BY <1>18 DEF Sum, Goto, Hold, files
<1> QED BY <1>1, <1>2, <1>3, <1>4, <1>5, <1>6, <1>7, <1>8, <1>9, <1>10, <1>11, <1>12, <1>13, <1>14, <1>15, <1>16, <1>17, <1>18
       DEF Next

\* Every step keeps the baseline's history.
LEMMA VersionsStep ==
  ASSUME TypeOK /\ Progress /\ VersionsRemain, Next
  PROVE  VersionsRemain'
<1> USE EvidenceStoreAssumption DEF TypeOK, Progress, VersionsRemain
<1>1. ASSUME NEW c \in Client, FinishRun(c) PROVE VersionsRemain'
  BY <1>1 DEF FinishRun, Goto, files, history
<1>2. ASSUME NEW c \in Client, Retire(c) PROVE VersionsRemain'
  BY <1>2 DEF Retire, Leave, history
<1>3. ASSUME NEW c \in Client, Create(c) PROVE VersionsRemain'
  BY <1>3 DEF Create, Goto, history
<1>4. ASSUME NEW c \in Client, Exists(c) PROVE VersionsRemain'
  BY <1>4 DEF Exists, Goto, files, history
<1>5. ASSUME NEW c \in Client, Write(c) PROVE VersionsRemain'
  BY <1>5 DEF Write, Goto, history
<1>6. ASSUME NEW c \in Client, Sync(c) PROVE VersionsRemain'
  BY <1>6 DEF Sync, Goto, history
<1>7. ASSUME NEW c \in Client, Verify(c) PROVE VersionsRemain'
  BY <1>7 DEF Verify, Goto, files, history
<1>8. ASSUME NEW c \in Client, Publish(c) PROVE VersionsRemain'
  BY <1>8 DEF Publish, Goto, Leave, history
<1>9. ASSUME NEW c \in Client, SaveBaseline(c) PROVE VersionsRemain'
  BY <1>9 DEF SaveBaseline, Goto, Hold, files, history
<1>10. ASSUME NEW c \in Client, UpdateBaseline(c) PROVE VersionsRemain'
  BY <1>10 DEF UpdateBaseline, Hold, files, history
<1>11. ASSUME NEW c \in Client, AddVersion(c) PROVE VersionsRemain'
  BY <1>11 DEF AddVersion, Goto, history
<1>12. ASSUME NEW c \in Client, NameBaseline(c) PROVE VersionsRemain'
  BY <1>12 DEF NameBaseline, Goto, Leave
<1>13. ASSUME NEW c \in Client, End(c) PROVE VersionsRemain'
  BY <1>13 DEF End, Leave, files, history
<1>14. ASSUME NEW c \in Client, NEW p \in Packet, StartRun(c, p) PROVE VersionsRemain'
  BY <1>14 DEF StartRun, Goto, Hold
<1>15. ASSUME NEW c \in Client, NEW p \in Packet, UseTool(c, p) PROVE VersionsRemain'
  BY <1>15 DEF UseTool, Goto, Hold, files, history
<1>16. ASSUME DeleteBaseline PROVE VersionsRemain'
  BY <1>16 DEF DeleteBaseline, clients, history
<1>17. ASSUME PowerLoss PROVE VersionsRemain'
  BY <1>17 DEF PowerLoss, history
<1>18. ASSUME NEW c \in Client, NEW p \in Packet, Sum(c, p) PROVE VersionsRemain'
  BY <1>18 DEF Sum, Goto, Hold, files
<1> QED BY <1>1, <1>2, <1>3, <1>4, <1>5, <1>6, <1>7, <1>8, <1>9, <1>10, <1>11, <1>12, <1>13, <1>14, <1>15, <1>16, <1>17, <1>18
       DEF Next

\* Every step keeps whole references, while the power is on.
LEMMA ReferenceStep ==
  ASSUME TypeOK /\ Progress /\ ReferenceResolves, Next
  PROVE  ReferenceResolves'
<1> USE EvidenceStoreAssumption DEF TypeOK, Progress, ReferenceResolves
<1>1. ASSUME NEW c \in Client, FinishRun(c) PROVE ReferenceResolves'
  BY <1>1 DEF FinishRun, Goto, files, history
<1>2. ASSUME NEW c \in Client, Retire(c) PROVE ReferenceResolves'
  BY <1>2 DEF Retire, Leave, history
<1>3. ASSUME NEW c \in Client, Create(c) PROVE ReferenceResolves'
  BY <1>3 DEF Create, Goto, history
<1>4. ASSUME NEW c \in Client, Exists(c) PROVE ReferenceResolves'
  BY <1>4 DEF Exists, Goto, files, history
<1>5. ASSUME NEW c \in Client, Write(c) PROVE ReferenceResolves'
  BY <1>5 DEF Write, Goto, history
<1>6. ASSUME NEW c \in Client, Sync(c) PROVE ReferenceResolves'
  BY <1>6 DEF Sync, Goto, history
<1>7. ASSUME NEW c \in Client, Verify(c) PROVE ReferenceResolves'
  BY <1>7 DEF Verify, Goto, files, history
<1>8. ASSUME NEW c \in Client, Publish(c) PROVE ReferenceResolves'
  BY <1>8 DEF Publish, Goto, Leave, history
<1>9. ASSUME NEW c \in Client, SaveBaseline(c) PROVE ReferenceResolves'
  BY <1>9 DEF SaveBaseline, Goto, Hold, files, history
<1>10. ASSUME NEW c \in Client, UpdateBaseline(c) PROVE ReferenceResolves'
  BY <1>10 DEF UpdateBaseline, Hold, files, history
<1>11. ASSUME NEW c \in Client, AddVersion(c) PROVE ReferenceResolves'
  BY <1>11 DEF AddVersion, Goto, history
<1>12. ASSUME NEW c \in Client, NameBaseline(c) PROVE ReferenceResolves'
  BY <1>12 DEF NameBaseline, Goto, Leave
<1>13. ASSUME NEW c \in Client, End(c) PROVE ReferenceResolves'
  BY <1>13 DEF End, Leave, files, history
<1>14. ASSUME NEW c \in Client, NEW p \in Packet, StartRun(c, p) PROVE ReferenceResolves'
  BY <1>14 DEF StartRun, Goto, Hold
<1>15. ASSUME NEW c \in Client, NEW p \in Packet, UseTool(c, p) PROVE ReferenceResolves'
  BY <1>15 DEF UseTool, Goto, Hold, files, history
<1>16. ASSUME DeleteBaseline PROVE ReferenceResolves'
  BY <1>16 DEF DeleteBaseline, clients, history
<1>17. ASSUME PowerLoss PROVE ReferenceResolves'
  BY <1>17 DEF PowerLoss, history
<1>18. ASSUME NEW c \in Client, NEW p \in Packet, Sum(c, p) PROVE ReferenceResolves'
  BY <1>18 DEF Sum, Goto, Hold, files
<1> QED BY <1>1, <1>2, <1>3, <1>4, <1>5, <1>6, <1>7, <1>8, <1>9, <1>10, <1>11, <1>12, <1>13, <1>14, <1>15, <1>16, <1>17, <1>18
       DEF Next

-----------------------------------------------------------------------------
\* An empty store satisfies the invariant.
LEMMA InitInv == Init => IInv
  BY EvidenceStoreAssumption, ZenonT(60)
  DEF Init, IInv, TypeOK, Progress, OwnPacket, Own, EvidenceDurable, VersionsRemain, ReferenceResolves

\* The invariant is one of the variables alone.
LEMMA StutterInv == IInv /\ UNCHANGED vars => IInv'
  BY DEF IInv, TypeOK, Progress, OwnPacket, Own, EvidenceDurable, VersionsRemain, ReferenceResolves,
         vars, files, clients, history

\* Every step of processes and machine keeps the invariant.
LEMMA StepInv == IInv /\ [Next]_vars => IInv'
  BY TypeStep, ProgressStep, OwnStep, EvidenceStep, VersionsStep, ReferenceStep, StutterInv DEF IInv

\* The invariant holds for every number of clients and packets, whether or not
\* the machine may lose power.
THEOREM Invariance == Spec => []IInv
  BY InitInv, StepInv, PTL DEF Spec

\* A run that was checkpointed keeps its checkpoint until its own packet is
\* stored whole, synced and referred to: no crash, of the process or of the
\* machine, leaves it with neither.
THEOREM EvidenceIsKept == Spec => []EvidenceKept
<1>1. IInv => EvidenceKept
  BY DEF IInv, TypeOK, EvidenceDurable, EvidenceKept
<1> QED BY <1>1, Invariance, PTL

\* Whatever was ever named as the baseline remains in its history.
THEOREM VersionsAreKept == Spec => []VersionsRemain
<1>1. IInv => VersionsRemain
  BY DEF IInv
<1> QED BY <1>1, Invariance, PTL

\* Unless the machine loses power, every reference to a packet and every
\* baseline resolves to a whole object, however storing was interrupted.
THEOREM ReferencesResolve == Spec => []ReferenceResolves
<1>1. IInv => ReferenceResolves
  BY DEF IInv
<1> QED BY <1>1, Invariance, PTL
=============================================================================

------------------------ MODULE ServerLifecycleProofs ------------------------
(* Proofs about ServerLifecycle, for any number of processes and whatever    *)
(* steps fail: the invariant IInv and what follows from it.                   *)
EXTENDS ServerLifecycle, TLAPS

\* The steps of main once it has a key, and once the remover is started.
Keyed   == {"ensure", "configure", "address", "setup", "route", "peers", "xdp", "rules",
            "serve", "wait"}
Guarded == {"address", "setup", "route", "peers", "xdp", "rules", "serve", "wait"}

\* The key in memory is the one in the file, and no key is generated while
\* clients have one.
KeyInv ==
    /\ pc = "create" => keyFile = NoPrivateKey
    /\ pc = "write" => keyFile = Empty
    /\ pc \in {"create", "write"} \cup Keyed => key \in PrivateKeys
    /\ pc \in Keyed => keyFile = key
    /\ listener = "serving" => pc = "wait"
    /\ KeyIsStable

\* The interface is added before there is a remover, so what it has removed
\* does not come back.
RemoverInv ==
    /\ remover # "none" => pc \in Guarded \cup {"exited"}
    /\ remover = "done" => link = "none"
    /\ pc = "exited" => remover = "done"

\* An interface is brought up before the peers are restored, and the filter is
\* attached to one that is up.
FilterInv ==
    /\ pc \in {"route", "peers", "xdp"} => link \in {"up", "none"}
    /\ ServedIsFiltered

IInv == TypeOK /\ KeyInv /\ RemoverInv /\ FilterInv

LEMMA InitIInv == Init => IInv
<1> SUFFICES ASSUME Init PROVE IInv
  OBVIOUS
<1> USE LifecycleAssumption DEF Init
<1>1. TypeOK
  <2>1. processes \in 0 .. MaxProcesses
    OBVIOUS
  <2> QED
    BY <2>1 DEF TypeOK
<1>2. KeyInv
  BY DEF KeyInv, KeyIsStable, Keyed
<1>3. RemoverInv /\ FilterInv
  BY DEF RemoverInv, FilterInv, ServedIsFiltered
<1> QED
  BY <1>1, <1>2, <1>3 DEF IInv

\* The type invariant, step by step; a client is given a key that is one.
LEMMA NextTypeOK == TypeOK /\ KeyInv /\ [Next]_vars => TypeOK'
<1> SUFFICES ASSUME TypeOK, KeyInv, [Next]_vars PROVE TypeOK'
  OBVIOUS
<1> USE LifecycleAssumption DEF TypeOK, Steps, kernel, process, NoLink
<1>1. CASE Start
  <2>1. processes' \in 0 .. MaxProcesses
    <3>1. processes < MaxProcesses /\ processes' = processes + 1
      BY <1>1 DEF Start
    <3>2. processes \in 0 .. MaxProcesses /\ MaxProcesses \in Nat
      OBVIOUS
    <3> QED
      BY <3>1, <3>2
  <2> QED
    BY <1>1, <2>1 DEF Start
<1>2. CASE Fatal \/ Crash
  BY <1>2 DEF Fatal, Crash, Dead
<1>3. CASE Configure
  BY <1>3 DEF Configure
<1>4. CASE StatKeyFile
  BY <1>4 DEF StatKeyFile
<1>5. CASE CreateKeyFile \/ WriteKey
  BY <1>5 DEF CreateKeyFile, WriteKey
<1>6. CASE DeleteLink
  BY <1>6 DEF DeleteLink
<1>7. CASE AddLink
  BY <1>7 DEF AddLink
<1>8. CASE ConfigureDevice
  BY <1>8 DEF ConfigureDevice
<1>9. CASE BringUp
  BY <1>9 DEF BringUp
<1>10. CASE RestorePeers
  BY <1>10 DEF RestorePeers
<1>11. CASE NewFirewall
  BY <1>11 DEF NewFirewall
<1>12. CASE RestoreRules
  BY <1>12 DEF RestoreRules
<1>13. CASE StartServer
  BY <1>13 DEF StartServer
<1>14. CASE Exit
  BY <1>14 DEF Exit
<1>15. CASE Signal
  BY <1>15 DEF Signal
<1>16. CASE Cancel
  BY <1>16 DEF Cancel
<1>17. CASE RemoveDevice
  BY <1>17 DEF RemoveDevice
<1>18. CASE ServeJoin
  <2>1. key \in PrivateKeys
    BY <1>18 DEF ServeJoin, KeyInv, Keyed
  <2>2. announced' \subseteq PrivateKeys
    BY <1>18, <2>1 DEF ServeJoin
  <2>3. link' \in {link, "none"} /\ attached' \in BOOLEAN
    BY <1>18 DEF ServeJoin
  <2>4. UNCHANGED <<pc, processes, keyFile, key, signalled, ctx, remover, listener>>
    BY <1>18 DEF ServeJoin
  <2> QED
    BY <2>2, <2>3, <2>4
<1>19. CASE UNCHANGED vars
  BY <1>19 DEF vars
<1> QED
  BY <1>1, <1>2, <1>3, <1>4, <1>5, <1>6, <1>7, <1>8, <1>9, <1>10, <1>11, <1>12, <1>13,
     <1>14, <1>15, <1>16, <1>17, <1>18, <1>19 DEF Next, MainStep

\* The steps of main that write the key and the key file, and the others.
LEMMA NextKeyInv == TypeOK /\ KeyInv /\ [Next]_vars => KeyInv'
<1> SUFFICES ASSUME TypeOK, KeyInv, [Next]_vars PROVE KeyInv'
  OBVIOUS
<1> USE LifecycleAssumption DEF KeyInv, KeyIsStable, Keyed
<1>1. CASE Start
  BY <1>1 DEF Start
<1>2. CASE Fatal \/ Crash
  BY <1>2 DEF Fatal, Crash, Dead
<1>3. CASE Configure
  BY <1>3 DEF Configure, process
<1>4. CASE StatKeyFile
  <2>1. keyFile = NoPrivateKey => announced = {}
    BY DEF TypeOK
  <2>2. UNCHANGED <<keyFile, listener, announced>>
    BY <1>4 DEF StatKeyFile, process
  <2>3. key' \in PrivateKeys /\ pc' \in {"create", "ensure"} /\ listener # "serving"
    BY <1>4 DEF StatKeyFile, process
  <2>4. pc' = "create" => keyFile = NoPrivateKey
    BY <1>4 DEF StatKeyFile
  <2>5. pc' = "ensure" => key' = keyFile
    BY <1>4 DEF StatKeyFile
  <2> QED
    BY <2>2, <2>3, <2>4, <2>5
<1>5. CASE CreateKeyFile
  <2>1. announced = {}
    BY <1>5 DEF CreateKeyFile, TypeOK
  <2> QED
    BY <1>5, <2>1 DEF CreateKeyFile, process
<1>6. CASE WriteKey
  <2>1. announced = {}
    BY <1>6 DEF WriteKey, TypeOK
  <2> QED
    BY <1>6, <2>1 DEF WriteKey, process
<1>7. CASE DeleteLink
  BY <1>7 DEF DeleteLink, process
<1>8. CASE AddLink
  BY <1>8 DEF AddLink, process
<1>9. CASE ConfigureDevice
  BY <1>9 DEF ConfigureDevice
<1>10. CASE BringUp
  BY <1>10 DEF BringUp, process
<1>11. CASE RestorePeers
  BY <1>11 DEF RestorePeers, process
<1>12. CASE NewFirewall
  BY <1>12 DEF NewFirewall, process
<1>13. CASE RestoreRules
  BY <1>13 DEF RestoreRules, process
<1>14. CASE StartServer
  BY <1>14 DEF StartServer
<1>15. CASE Exit
  BY <1>15 DEF Exit
<1>16. CASE Signal
  BY <1>16 DEF Signal
<1>17. CASE Cancel
  BY <1>17 DEF Cancel
<1>18. CASE RemoveDevice
  BY <1>18 DEF RemoveDevice
<1>19. CASE ServeJoin
  <2>1. pc = "wait" /\ keyFile = key
    BY <1>19 DEF ServeJoin
  <2>2. announced' \subseteq announced \cup {key}
    BY <1>19 DEF ServeJoin
  <2>3. UNCHANGED <<pc, keyFile, key, listener>>
    BY <1>19 DEF ServeJoin
  <2> QED
    BY <2>1, <2>2, <2>3
<1>20. CASE UNCHANGED vars
  BY <1>20 DEF vars
<1> QED
  BY <1>1, <1>2, <1>3, <1>4, <1>5, <1>6, <1>7, <1>8, <1>9, <1>10, <1>11, <1>12, <1>13,
     <1>14, <1>15, <1>16, <1>17, <1>18, <1>19, <1>20 DEF Next, MainStep

\* The remover and the interface.
LEMMA NextRemoverInv == RemoverInv /\ [Next]_vars => RemoverInv'
<1> SUFFICES ASSUME RemoverInv, [Next]_vars PROVE RemoverInv'
  OBVIOUS
<1> USE DEF RemoverInv, Guarded, kernel, process, NoLink
<1>1. CASE Start \/ Fatal \/ Crash
  BY <1>1 DEF Start, Fatal, Crash, Dead
<1>2. CASE Configure \/ StatKeyFile \/ CreateKeyFile \/ WriteKey
  BY <1>2 DEF Configure, StatKeyFile, CreateKeyFile, WriteKey
<1>3. CASE DeleteLink \/ AddLink
  BY <1>3 DEF DeleteLink, AddLink
<1>4. CASE ConfigureDevice
  BY <1>4 DEF ConfigureDevice
<1>5. CASE BringUp
  BY <1>5 DEF BringUp
<1>6. CASE RestorePeers \/ NewFirewall
  BY <1>6 DEF RestorePeers, NewFirewall
<1>7. CASE RestoreRules \/ StartServer
  BY <1>7 DEF RestoreRules, StartServer
<1>8. CASE Exit
  BY <1>8 DEF Exit, WaitForBoth
<1>9. CASE Signal \/ Cancel
  BY <1>9 DEF Signal, Cancel
<1>10. CASE RemoveDevice
  BY <1>10 DEF RemoveDevice
<1>11. CASE ServeJoin
  <2>1. link' \in {link, "none"} /\ UNCHANGED <<pc, remover>>
    BY <1>11 DEF ServeJoin
  <2> QED
    BY <2>1
<1>12. CASE UNCHANGED vars
  BY <1>12 DEF vars
<1> QED
  BY <1>1, <1>2, <1>3, <1>4, <1>5, <1>6, <1>7, <1>8, <1>9, <1>10, <1>11, <1>12
     DEF Next, MainStep

\* The filter and the interface.
LEMMA NextFilterInv == FilterInv /\ [Next]_vars => FilterInv'
<1> SUFFICES ASSUME FilterInv, [Next]_vars PROVE FilterInv'
  OBVIOUS
<1> USE DEF FilterInv, ServedIsFiltered, kernel, process, NoLink
<1>1. CASE Start \/ Fatal \/ Crash
  BY <1>1 DEF Start, Fatal, Crash, Dead
<1>2. CASE Configure \/ StatKeyFile \/ CreateKeyFile \/ WriteKey
  BY <1>2 DEF Configure, StatKeyFile, CreateKeyFile, WriteKey
<1>3. CASE DeleteLink \/ AddLink \/ ConfigureDevice
  BY <1>3 DEF DeleteLink, AddLink, ConfigureDevice
<1>4. CASE BringUp
  BY <1>4 DEF BringUp
<1>5. CASE RestorePeers
  BY <1>5 DEF RestorePeers
<1>6. CASE NewFirewall
  BY <1>6 DEF NewFirewall
<1>7. CASE RestoreRules \/ StartServer
  BY <1>7 DEF RestoreRules, StartServer
<1>8. CASE Exit
  BY <1>8 DEF Exit
<1>9. CASE Signal \/ Cancel
  BY <1>9 DEF Signal, Cancel
<1>10. CASE RemoveDevice
  BY <1>10 DEF RemoveDevice
<1>11. CASE ServeJoin
  <2>1. UNCHANGED kernel \/ NoLink
    BY <1>11 DEF ServeJoin
  <2>2. UNCHANGED pc
    BY <1>11 DEF ServeJoin
  <2> QED
    BY <2>1, <2>2
<1>12. CASE UNCHANGED vars
  BY <1>12 DEF vars
<1> QED
  BY <1>1, <1>2, <1>3, <1>4, <1>5, <1>6, <1>7, <1>8, <1>9, <1>10, <1>11, <1>12
     DEF Next, MainStep

\* The key file, the goroutine that removes the interface, and the filter stand
\* where the step of main says.
THEOREM LifecycleInv == Spec => []IInv
<1>1. IInv /\ [Next]_vars => IInv'
  BY NextTypeOK, NextKeyInv, NextRemoverInv, NextFilterInv DEF IInv
<1> QED
  BY InitIInv, <1>1, PTL DEF Spec

\* The server keeps its types through starts, failures, signals and crashes.
THEOREM LifecycleTyped == Spec => []TypeOK
<1>1. IInv => TypeOK
  BY DEF IInv
<1> QED
  BY <1>1, LifecycleInv, PTL

\* From the restoring of the rules on, there is no interface without its
\* filter, whichever peers could be restored.
THEOREM LifecycleServedIsFiltered == Spec => []ServedIsFiltered
<1>1. IInv => ServedIsFiltered
  BY DEF IInv, FilterInv
<1> QED
  BY <1>1, LifecycleInv, PTL

\* Every process gives its clients the key that the file keeps.
THEOREM LifecycleKeyIsStable == Spec => []KeyIsStable
<1>1. IInv => KeyIsStable
  BY DEF IInv, KeyInv
<1> QED
  BY <1>1, LifecycleInv, PTL

\* A process that ends by itself has removed the interface.
THEOREM LifecycleCleanExit == Spec => []CleanExit
<1>1. IInv => CleanExit
  BY DEF IInv, RemoverInv, CleanExit
<1> QED
  BY <1>1, LifecycleInv, PTL

=============================================================================

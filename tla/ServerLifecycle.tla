-------------------------- MODULE ServerLifecycle --------------------------
(***************************************************************************)
(* The life of wgxdp-server: its start step by step, the signal that ends  *)
(* it, the goroutine that removes the WireGuard interface, and what the    *)
(* next process finds: the key file, and an interface that was left behind. *)
(* Any step may fail, and the process may be killed between any two.        *)
(***************************************************************************)
EXTENDS Integers, FiniteSets

CONSTANTS
    PrivateKeys,   \* keys that setupKeys can generate
    NoPrivateKey,
    Empty,         \* the contents of a key file that was created only
    MaxProcesses   \* bound: processes started

ASSUME LifecycleAssumption ==
    /\ NoPrivateKey \notin PrivateKeys
    /\ Empty \notin PrivateKeys \cup {NoPrivateKey}
    /\ MaxProcesses \in Nat

VARIABLES
    pc,          \* the next step of main; "off": no process; "exited", "died"
    processes,   \* processes started so far
    keyFile,     \* contents of the key file, NoPrivateKey when there is none
    key,         \* the key that the process uses
    link,        \* the interface: "none", "bare", "addressed", "up"
    attached,    \* whether the XDP program is attached to it
    signalled,   \* whether a signal was sent to the process
    ctx,         \* "live" or "done", once shutdownHandler has called cancel
    remover,     \* the goroutine of NewDevice: "none", "waiting", "done"
    listener,    \* ListenAndServe: "none", "serving", "failed"
    announced    \* keys that clients were given in their configuration

vars == <<pc, processes, keyFile, key, link, attached, signalled, ctx,
          remover, listener, announced>>

Steps == {"config", "database", "stat", "create", "write", "ensure", "configure",
          "address", "setup", "route", "peers", "xdp", "rules", "serve", "wait"}
Running == pc \in Steps

kernel  == <<link, attached>>
process == <<processes, signalled, ctx, remover, listener, announced>>

Init ==
    /\ pc = "off"
    /\ processes = 0
    /\ keyFile = NoPrivateKey /\ key = NoPrivateKey
    /\ link = "none" /\ attached = FALSE
    /\ signalled = FALSE /\ ctx = "live" /\ remover = "none" /\ listener = "none"
    /\ announced = {}

-----------------------------------------------------------------------------
\* A process is started; interface and key file are as they were.
Start ==
    /\ ~ Running
    /\ processes < MaxProcesses
    /\ processes' = processes + 1
    /\ pc' = "config"
    /\ key' = NoPrivateKey
    /\ signalled' = FALSE /\ ctx' = "live" /\ remover' = "none" /\ listener' = "none"
    /\ UNCHANGED <<keyFile, kernel, announced>>

\* The kernel drops the filter with the process that attached it; the
\* interface stays, up and with its peers.
Dead ==
    /\ pc' = "died"
    /\ attached' = FALSE
    /\ remover' = "none" /\ listener' = "none"
    /\ UNCHANGED <<processes, keyFile, key, link, signalled, ctx, announced>>

\* The process is killed.
Crash == Running /\ Dead

\* logrus.Fatalf, log.Fatal: any step of the start may fail.
Fatal == pc \in Steps \ {"serve", "wait"} /\ Dead

\* config.New, signal.Notify, GetDatabase.
Configure ==
    /\ pc \in {"config", "database"}
    /\ pc' = IF pc = "config" THEN "database" ELSE "stat"
    /\ UNCHANGED <<keyFile, key, kernel, process>>

-----------------------------------------------------------------------------
(* NewDevice.                                                              *)

StatKeyFileUnparsed ==
    /\ pc = "stat"
    /\ \/ /\ keyFile = NoPrivateKey
          /\ \E k \in PrivateKeys : key' = k
          /\ pc' = "create"
       \/ /\ keyFile # NoPrivateKey
          /\ key' = keyFile
          /\ pc' = "ensure"
    /\ UNCHANGED <<keyFile, kernel, process>>

\* setupKeys: the key that the file keeps, or a new one.  A file that does not
\* parse leaves only Fatal.
StatKeyFile ==
    /\ pc = "stat"
    /\ \/ /\ keyFile = NoPrivateKey
          /\ \E k \in PrivateKeys : key' = k
          /\ pc' = "create"
       \/ /\ keyFile \in PrivateKeys
          /\ key' = keyFile
          /\ pc' = "ensure"
    /\ UNCHANGED <<keyFile, kernel, process>>

\* writePrivateKey: the file is there before its contents are.
CreateKeyFile ==
    /\ pc = "create"
    /\ keyFile' = Empty
    /\ pc' = "write"
    /\ UNCHANGED <<key, kernel, process>>

WriteKeyNothing ==
    /\ pc = "write"
    /\ keyFile' = NoPrivateKey
    /\ pc' = "ensure"
    /\ UNCHANGED <<key, kernel, process>>

WriteKey ==
    /\ pc = "write"
    /\ keyFile' = key
    /\ pc' = "ensure"
    /\ UNCHANGED <<key, kernel, process>>

NoLink == link' = "none" /\ attached' = FALSE

\* ensureLink: LinkAdd finds an interface left behind, which is deleted first.
DeleteLink ==
    /\ pc = "ensure"
    /\ link # "none"
    /\ NoLink
    /\ UNCHANGED <<pc, keyFile, key, process>>

AddLink ==
    /\ pc = "ensure"
    /\ link = "none"
    /\ link' = "bare"
    /\ pc' = "configure"
    /\ UNCHANGED <<keyFile, key, attached, process>>

\* apply, and the goroutine that waits for the context.  A configuration that
\* the kernel refuses removes the interface; when there is no wgctrl client to
\* send it with, the start ends and the interface stays (Fatal).
ConfigureDevice ==
    /\ pc = "configure"
    /\ \/ /\ remover' = "waiting"
          /\ pc' = "address"
          /\ UNCHANGED kernel
       \/ /\ NoLink
          /\ pc' = "died"
          /\ UNCHANGED remover
    /\ UNCHANGED <<processes, keyFile, key, signalled, ctx, listener, announced>>

\* SetAddress, then LinkSetUp and RouteAdd: without the interface they fail
\* (Fatal).
BringUp ==
    /\ \/ pc = "address" /\ link = "bare" /\ link' = "addressed" /\ pc' = "setup"
       \/ pc = "setup" /\ link = "addressed" /\ link' = "up" /\ pc' = "route"
       \/ pc = "route" /\ link = "up" /\ UNCHANGED link /\ pc' = "peers"
    /\ UNCHANGED <<keyFile, key, attached, process>>

-----------------------------------------------------------------------------
(* The rest of main.                                                       *)

\* An error is logged, and the next peer is tried.  A key that does not parse,
\* or a wgctrl client that cannot be had, leaves the interface with the other
\* peers (which ones is the subject of Overlay); a configuration that the
\* kernel refuses has removed it.
RestorePeers ==
    /\ pc = "peers"
    /\ UNCHANGED kernel \/ NoLink
    /\ pc' = "xdp"
    /\ UNCHANGED <<keyFile, key, process>>

NewFirewallOrGoOn ==
    /\ pc = "xdp"
    /\ \/ link = "up" /\ attached' = TRUE
       \/ UNCHANGED attached
    /\ pc' = "rules"
    /\ UNCHANGED <<keyFile, key, link, process>>

\* firewall.New: without the interface it fails, and like any failure of it
\* that is fatal (Fatal).
NewFirewall ==
    /\ pc = "xdp"
    /\ link = "up"
    /\ attached' = TRUE
    /\ pc' = "rules"
    /\ UNCHANGED <<keyFile, key, link, process>>

\* GetAllRules, AddPeerRule: the map is the subject of Overlay.
RestoreRules ==
    /\ pc = "rules"
    /\ pc' = "serve"
    /\ UNCHANGED <<keyFile, key, kernel, process>>

\* StartServer.  A listener that fails is logged, and the process goes on.
StartServer ==
    /\ pc = "serve"
    /\ listener' \in {"serving", "failed"}
    /\ pc' = "wait"
    /\ UNCHANGED <<processes, keyFile, key, kernel, signalled, ctx, remover, announced>>

\* A join is answered with the server's public key, or its configuration
\* fails; the kernel's refusal removes the interface.
ServeJoin ==
    /\ listener = "serving"
    /\ \/ link = "up" /\ announced' = announced \cup {key} /\ UNCHANGED kernel
       \/ NoLink /\ UNCHANGED announced
    /\ UNCHANGED <<pc, processes, keyFile, key, signalled, ctx, remover, listener>>

-----------------------------------------------------------------------------
(* The end.                                                                *)

Signal ==
    /\ Running
    /\ pc # "config"
    /\ signalled' = TRUE
    /\ UNCHANGED <<pc, processes, keyFile, key, kernel, ctx, remover, listener, announced>>

\* shutdownHandler
Cancel ==
    /\ Running
    /\ signalled /\ ctx = "live"
    /\ ctx' = "done"
    /\ UNCHANGED <<pc, processes, keyFile, key, kernel, signalled, remover, listener, announced>>

RemoveDeviceOrHang ==
    /\ remover = "waiting" /\ ctx = "done"
    /\ remover' = "done"
    /\ link # "none" /\ NoLink
    /\ UNCHANGED <<pc, processes, keyFile, key, signalled, ctx, listener, announced>>

\* The goroutine of NewDevice.  That the interface is gone already is an error,
\* which is logged; LinkDel is taken to succeed on one that exists.
RemoveDevice ==
    /\ remover = "waiting" /\ ctx = "done"
    /\ remover' = "done"
    /\ NoLink
    /\ UNCHANGED <<pc, processes, keyFile, key, signalled, ctx, listener, announced>>

WaitForHandler == ctx = "done"

\* wg.Wait: for shutdownHandler and for the removal.
WaitForBoth == ctx = "done" /\ remover = "done"

Exit ==
    /\ pc = "wait"
    /\ WaitForBoth
    /\ pc' = "exited"
    /\ listener' = "none"
    /\ attached' = FALSE
    /\ UNCHANGED <<processes, keyFile, key, link, signalled, ctx, remover, announced>>

-----------------------------------------------------------------------------
MainStep ==
    \/ Configure \/ StatKeyFile \/ CreateKeyFile \/ WriteKey
    \/ DeleteLink \/ AddLink \/ ConfigureDevice \/ BringUp \/ RestorePeers \/ NewFirewall
    \/ RestoreRules \/ StartServer \/ Fatal \/ Exit

Next ==
    \/ Start \/ MainStep \/ Crash
    \/ ServeJoin \/ Signal \/ Cancel \/ RemoveDevice

\* main and the two goroutines run on.  A step of main that cannot succeed is
\* fatal.
Fairness == WF_vars(MainStep) /\ WF_vars(Cancel) /\ WF_vars(RemoveDevice)

Spec == Init /\ [][Next]_vars /\ Fairness

-----------------------------------------------------------------------------
TypeOK ==
    /\ pc \in Steps \cup {"off", "died", "exited"}
    /\ processes \in 0 .. MaxProcesses
    /\ keyFile \in PrivateKeys \cup {NoPrivateKey, Empty}
    /\ key \in PrivateKeys \cup {NoPrivateKey}
    /\ link \in {"none", "bare", "addressed", "up"}
    /\ attached \in BOOLEAN /\ signalled \in BOOLEAN
    /\ ctx \in {"live", "done"}
    /\ remover \in {"none", "waiting", "done"}
    /\ listener \in {"none", "serving", "failed"}
    /\ announced \subseteq PrivateKeys

\* Once the start has come to the rules, the interface is up with the filter
\* attached, or it is gone: the server never serves an interface that passes
\* traffic unfiltered, whatever peer could not be restored, whether a signal
\* comes in the middle of the start or a join fails, and whatever interface,
\* with its peers and without a filter, a killed process left behind.
ServedIsFiltered ==
    pc \in {"rules", "serve", "wait"} =>
        \/ link = "up" /\ attached
        \/ link = "none"

\* All clients, of all processes, were given the same key, and it is the one
\* that the file keeps for the next process.
KeyIsStable ==
    \A k \in announced : keyFile = k

\* A process that ends by itself leaves no interface behind, also when the
\* signal came during the start.
CleanExit == pc = "exited" => link = "none"

\* A signal ends the process, whatever step of the start it arrives in.
SignalEnds ==
    (signalled /\ Running) ~> ~ Running
=============================================================================

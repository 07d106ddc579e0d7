------------------------------- MODULE CertLoader -------------------------------
(***************************************************************************)
(* The TLS certificate of a server (certloader), which is loaded again     *)
(* when one of its two files changes.  A watcher (confwatcher) throws away *)
(* what happens within a second after it has told of a change.             *)
(***************************************************************************)
EXTENDS Naturals

CONSTANT MaxVersion    \* bound: how often each file is written

CertAssumption == MaxVersion \in Nat

VARIABLES
    disk,       \* the version of each file; those of a pair are equal
    event,      \* of each file: the watcher has something to read
    watcher,    \* of each file: idle, signalling, ended (its channel is closed)
    recent,     \* of each file: minInterval is not over
    loader,     \* CertLoader.watch: select, certificate, key, ended
    read,       \* the version of each file that was read last
    loaded,     \* CertLoader.cert
    missed,     \* of each file: a change was thrown away and is not loaded
    closer      \* CertLoader.Close: no, certificate, key, returned

certVars == <<disk, event, watcher, recent, loader, read, loaded, missed, closer>>
Files == {"certificate", "key"}
Nil == MaxVersion + 1

CertInit ==
    /\ disk = [f \in Files |-> 0] /\ event = [f \in Files |-> FALSE]
    /\ watcher = [f \in Files |-> "idle"] /\ recent = [f \in Files |-> FALSE]
    /\ loader = "select" /\ read = [f \in Files |-> 0] /\ loaded = 0
    /\ missed = [f \in Files |-> FALSE] /\ closer = "no"

FileWritten(f) ==
    /\ disk[f] < MaxVersion /\ disk' = [disk EXCEPT ![f] = @ + 1]
    /\ event' = [event EXCEPT ![f] = TRUE]
    /\ UNCHANGED <<watcher, recent, loader, read, loaded, missed, closer>>

IntervalOver(f) ==
    /\ recent[f] /\ recent' = [recent EXCEPT ![f] = FALSE]
    /\ UNCHANGED <<disk, event, watcher, loader, read, loaded, missed, closer>>

(* ConfWatcher.run                                                         *)
EventThrownAway(f) ==
    /\ watcher[f] = "idle" /\ event[f] /\ recent[f]
    /\ event' = [event EXCEPT ![f] = FALSE]
    /\ missed' = [missed EXCEPT ![f] = @ \/ read[f] # disk[f]]
    /\ UNCHANGED <<disk, watcher, recent, loader, read, loaded, closer>>
EventTaken(f) ==
    /\ watcher[f] = "idle" /\ event[f] /\ ~recent[f]
    /\ event' = [event EXCEPT ![f] = FALSE]
    /\ watcher' = [watcher EXCEPT ![f] = "signalling"] /\ recent' = [recent EXCEPT ![f] = TRUE]
    /\ UNCHANGED <<disk, loader, read, loaded, missed, closer>>
WatcherFails(f) ==
    /\ watcher[f] = "idle"
    /\ watcher' = [watcher EXCEPT ![f] = "ended"]
    /\ UNCHANGED <<disk, event, recent, loader, read, loaded, missed, closer>>
WatcherTerminated(f) ==
    /\ closer = f /\ watcher[f] # "ended"
    /\ watcher' = [watcher EXCEPT ![f] = "ended"]
    /\ UNCHANGED <<disk, event, recent, loader, read, loaded, missed, closer>>

(* Mutant: the key alone does not make the loader load.                    *)
Signal_CertificateOnly(f) ==
    /\ loader = "select" /\ watcher[f] # "idle"
    /\ watcher' = [watcher EXCEPT ![f] = IF @ = "signalling" THEN "idle" ELSE @]
    /\ loader' = IF f = "certificate" THEN "certificate" ELSE "select"
    /\ UNCHANGED <<disk, event, recent, read, loaded, missed, closer>>

(* A channel that is closed is always ready.                               *)
Signal(f) ==
    /\ loader = "select" /\ watcher[f] # "idle"
    /\ watcher' = [watcher EXCEPT ![f] = IF @ = "signalling" THEN "idle" ELSE @]
    /\ loader' = "certificate"
    /\ UNCHANGED <<disk, event, recent, read, loaded, missed, closer>>

(* LoadX509KeyPair reads one file after the other, and fails unless they   *)
(* belong together.                                                        *)
Reads(f) == read' = [read EXCEPT ![f] = disk[f]] /\ missed' = [missed EXCEPT ![f] = FALSE]
ReadCertificate ==
    /\ loader = "certificate" /\ Reads("certificate") /\ loader' = "key"
    /\ UNCHANGED <<disk, event, watcher, recent, loaded, closer>>
ReadKey ==
    /\ loader = "key" /\ Reads("key") /\ loader' = "select"
    /\ loaded' = IF read["certificate"] = disk["key"] THEN disk["key"] ELSE loaded
    /\ UNCHANGED <<disk, event, watcher, recent, closer>>
Done ==
    /\ loader = "select" /\ closer # "no" /\ loader' = "ended"
    /\ UNCHANGED <<disk, event, watcher, recent, read, loaded, missed, closer>>

(* Close does not wait for watch.                                          *)
Close ==
    /\ closer = "no" /\ closer' = "certificate"
    /\ UNCHANGED <<disk, event, watcher, recent, loader, read, loaded, missed>>
WatcherClosed ==
    /\ closer \in Files /\ watcher[closer] = "ended"
    /\ closer' = IF closer = "certificate" THEN "key" ELSE "returned"
    /\ loaded' = IF closer = "key" THEN Nil ELSE loaded
    /\ UNCHANGED <<disk, event, watcher, recent, loader, read, missed>>

LoaderGoesOn == ReadCertificate \/ ReadKey
CloserGoesOn == WatcherClosed \/ \E f \in Files : WatcherTerminated(f)
CertNext ==
    \/ Close \/ Done \/ LoaderGoesOn \/ CloserGoesOn
    \/ \E f \in Files :
           FileWritten(f) \/ IntervalOver(f) \/ EventThrownAway(f) \/ EventTaken(f) \/ WatcherFails(f) \/ Signal(f)

CertTypeOK ==
    /\ disk \in [Files -> 0 .. MaxVersion] /\ read \in [Files -> 0 .. MaxVersion]
    /\ event \in [Files -> BOOLEAN] /\ recent \in [Files -> BOOLEAN] /\ missed \in [Files -> BOOLEAN]
    /\ watcher \in [Files -> {"idle", "signalling", "ended"}]
    /\ loader \in {"select", "certificate", "key", "ended"} /\ closer \in {"no", "certificate", "key", "returned"}
    /\ loaded \in 0 .. Nil

(* Once all is quiet, the pair in the files is the one in use: it is loaded *)
(* although they are written one after the other and read between, unless  *)
(* a change came too soon after another one.                               *)
ChangesLoaded ==
    /\ closer = "no" /\ loader = "select"
    /\ \A f \in Files : ~event[f] /\ watcher[f] = "idle" /\ ~missed[f]
    /\ disk["certificate"] = disk["key"]
    => loaded = disk["key"]
=============================================================================

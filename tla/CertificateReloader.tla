------------------------- MODULE CertificateReloader -------------------------
(***************************************************************************)
(* certificateReloader of internal/proxy/certificate.go.  Every TLS        *)
(* handshake asks getCertificate, which holds the mutex and, once per      *)
(* interval, reads the certificate file and then the key file.  A renewal  *)
(* (Certbot) rewrites the two files meanwhile, in either order, and a file *)
(* may be unreadable or half written when it is read.                      *)
(*                                                                         *)
(* wait is the time until nextCheck and since the time since the files     *)
(* were last read.  The version of a file is the number of the renewal     *)
(* that wrote it; renewals may keep the key.                               *)
(***************************************************************************)
EXTENDS Integers

CONSTANTS
    Handshakes,   \* goroutines that do TLS handshakes, one after the other
    MaxVersion,   \* bound: renewals
    KeyOf,        \* the key each version of the certificate belongs to
    Interval,     \* tls_reload_interval, in ticks
    Nobody

ASSUME ReloaderAssumption ==
    /\ MaxVersion \in Nat
    /\ KeyOf \in [0 .. MaxVersion -> Nat]
    /\ Interval \in Nat \ {0}
    /\ Nobody \notin Handshakes

Versions == 0 .. MaxVersion
Broken == -1                  \* a file that cannot be read or parsed

VARIABLES
    certFile,   \* version of the certificate file, or Broken
    keyFile,    \* version of the key file, or Broken
    renewal,    \* the renewal being written, or the last one
    todo,       \* files it has not written yet
    mutex,      \* the handshake that holds the reloader's mutex
    pc,         \* where each handshake is
    certPEM,    \* what each handshake has read of the certificate file
    served,     \* version of r.certificate
    servedKey,  \* and the key that came with it
    wait,       \* time until r.nextCheck
    since       \* time since the files were last read, up to Interval

fileVars  == <<certFile, keyFile, renewal, todo>>
timeVars  == <<wait, since>>
reloadVars == <<fileVars, mutex, pc, certPEM, served, servedKey, timeVars>>

ReloadTypeOK ==
    /\ certFile \in Versions \cup {Broken}
    /\ keyFile \in Versions \cup {Broken}
    /\ renewal \in Versions
    /\ todo \in SUBSET {"cert", "key"}
    /\ mutex \in Handshakes \cup {Nobody}
    /\ pc \in [Handshakes -> {"idle", "locked", "readCert", "readKey", "answer"}]
    /\ certPEM \in [Handshakes -> Versions \cup {Broken}]
    /\ served \in Versions
    /\ servedKey \in {KeyOf[v] : v \in Versions}
    /\ wait \in 0 .. Interval
    /\ since \in 0 .. Interval

\* newCertificateReloader has loaded the first pair, or Run would have failed.
ReloadInit ==
    /\ certFile = 0
    /\ keyFile = 0
    /\ renewal = 0
    /\ todo = {}
    /\ mutex = Nobody
    /\ pc = [h \in Handshakes |-> "idle"]
    /\ certPEM = [h \in Handshakes |-> 0]
    /\ served = 0
    /\ servedKey = KeyOf[0]
    /\ wait = Interval
    /\ since = 0
------------------------------------------------------------------------------
(* The renewal: external, as the README describes it.                      *)
RenewalBegins ==
    /\ todo = {}
    /\ renewal < MaxVersion
    /\ renewal' = renewal + 1
    /\ todo' = {"cert", "key"}
    /\ UNCHANGED <<certFile, keyFile, mutex, pc, certPEM, served, servedKey, timeVars>>

\* A file is being written: a reader finds it broken.
WriteBegins(f) ==
    /\ f \in todo
    /\ IF f = "cert" THEN certFile' = Broken /\ UNCHANGED keyFile
                     ELSE keyFile' = Broken /\ UNCHANGED certFile
    /\ UNCHANGED <<renewal, todo, mutex, pc, certPEM, served, servedKey, timeVars>>

WriteEnds(f) ==
    /\ f \in todo
    /\ IF f = "cert" THEN certFile' = renewal /\ UNCHANGED keyFile
                     ELSE keyFile' = renewal /\ UNCHANGED certFile
    /\ todo' = todo \ {f}
    /\ UNCHANGED <<renewal, mutex, pc, certPEM, served, servedKey, timeVars>>

Tick ==
    /\ wait' = IF wait > 0 THEN wait - 1 ELSE 0
    /\ since' = IF since < Interval THEN since + 1 ELSE since
    /\ UNCHANGED <<fileVars, mutex, pc, certPEM, served, servedKey>>
------------------------------------------------------------------------------
Reader(h, from, to) ==
    /\ pc[h] = from
    /\ pc' = [pc EXCEPT ![h] = to]
    /\ UNCHANGED fileVars

Lock(h) ==
    /\ mutex = Nobody
    /\ Reader(h, "idle", "locked")
    /\ mutex' = h
    /\ UNCHANGED <<certPEM, served, servedKey, timeVars>>

\* Mutant: the next check is scheduled only when a pair was loaded.
CheckTime_NoSchedule(h) ==
    /\ Reader(h, "locked", IF wait > 0 THEN "answer" ELSE "readCert")
    /\ since' = IF wait > 0 THEN since ELSE 0
    /\ UNCHANGED <<mutex, certPEM, served, servedKey, wait>>

\* Mutant: the files are read without the mutex.
CheckTime_Unlocks(h) ==
    /\ Reader(h, "locked", IF wait > 0 THEN "answer" ELSE "readCert")
    /\ mutex' = IF wait > 0 THEN mutex ELSE Nobody
    /\ wait' = IF wait > 0 THEN wait ELSE Interval
    /\ since' = IF wait > 0 THEN since ELSE 0
    /\ UNCHANGED <<certPEM, served, servedKey>>

\* Before nextCheck the certificate is returned as it is; otherwise the next
\* check is scheduled and the files are read.
CheckTime(h) ==
    /\ Reader(h, "locked", IF wait > 0 THEN "answer" ELSE "readCert")
    /\ wait' = IF wait > 0 THEN wait ELSE Interval
    /\ since' = IF wait > 0 THEN since ELSE 0
    /\ UNCHANGED <<mutex, certPEM, served, servedKey>>

ReadCert(h) ==
    /\ Reader(h, "readCert", IF certFile = Broken THEN "answer" ELSE "readKey")
    /\ certPEM' = [certPEM EXCEPT ![h] = certFile]
    /\ UNCHANGED <<mutex, served, servedKey, timeVars>>

\* tls.X509KeyPair accepts a certificate with its own key.
Matches(cert, keyVersion) == keyVersion # Broken /\ KeyOf[keyVersion] = KeyOf[cert]

\* Mutant: the files are taken as they are read.
ReadKey_NoParse(h) ==
    /\ Reader(h, "readKey", "answer")
    /\ IF keyFile # Broken
         THEN served' = certPEM[h] /\ servedKey' = KeyOf[keyFile]
         ELSE UNCHANGED <<served, servedKey>>
    /\ UNCHANGED <<mutex, certPEM, timeVars>>

\* Mutant: a new pair is told from the old one by its key only.
ReadKey_ComparesKey(h) ==
    /\ Reader(h, "readKey", "answer")
    /\ IF Matches(certPEM[h], keyFile) /\ KeyOf[keyFile] # servedKey
         THEN served' = certPEM[h] /\ servedKey' = KeyOf[keyFile]
         ELSE UNCHANGED <<served, servedKey>>
    /\ UNCHANGED <<mutex, certPEM, timeVars>>

\* The key is read, the pair is parsed and, if it is a new one, kept; an
\* error keeps the previous one.
ReadKey(h) ==
    /\ Reader(h, "readKey", "answer")
    /\ IF Matches(certPEM[h], keyFile)
         THEN served' = certPEM[h] /\ servedKey' = KeyOf[keyFile]
         ELSE UNCHANGED <<served, servedKey>>
    /\ UNCHANGED <<mutex, certPEM, timeVars>>

\* getCertificate returns and unlocks.
Answer(h) ==
    /\ Reader(h, "answer", "idle")
    /\ mutex' = Nobody
    /\ UNCHANGED <<certPEM, served, servedKey, timeVars>>

GetCertificate(h) ==
    Lock(h) \/ CheckTime(h) \/ ReadCert(h) \/ ReadKey(h) \/ Answer(h)

Renewal ==
    \/ RenewalBegins
    \/ \E f \in {"cert", "key"} : WriteBegins(f) \/ WriteEnds(f)

ReloadNext == Renewal \/ Tick \/ \E h \in Handshakes : GetCertificate(h)

ReloadSpec == ReloadInit /\ [][ReloadNext]_reloadVars

(* Time passes, a file whose rewriting began is finished, and handshakes   *)
(* keep coming: the README speaks of new TLS handshakes only.              *)
ReloadFairSpec ==
    /\ ReloadSpec
    /\ WF_reloadVars(Tick)
    /\ WF_reloadVars(\E f \in {"cert", "key"} : WriteEnds(f))
    /\ WF_reloadVars(\E h \in Handshakes : GetCertificate(h))
------------------------------------------------------------------------------
(***************************************************************************)
(* The certificate in use and its key always belong together, whatever the *)
(* renewal does between the two reads of loadCertificatePair.              *)
(***************************************************************************)
PairMatches == servedKey = KeyOf[served]

(***************************************************************************)
(* Handshakes that overlap never bring an older certificate back: the      *)
(* mutex is held from the first read to the assignment.                    *)
(***************************************************************************)
NoGoingBack == [][served' >= served]_reloadVars

(***************************************************************************)
(* README: the files are checked "at most once per                         *)
(* PROXY_TLS_RELOAD_INTERVAL", also when they do not load.                 *)
(***************************************************************************)
ChecksAreSpaced ==
    [][\A h \in Handshakes :
         pc[h] # "readCert" /\ pc'[h] = "readCert" => since = Interval]_reloadVars

(***************************************************************************)
(* README: a valid replacement is loaded without a restart, and a failed   *)
(* check is tried again later: once the last renewal is written, it is     *)
(* served for good.                                                        *)
(***************************************************************************)
RenewalIsServed ==
    (renewal = MaxVersion /\ todo = {}) ~> [](served = MaxVersion)
==============================================================================

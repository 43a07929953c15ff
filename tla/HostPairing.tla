---------------------------- MODULE HostPairing ----------------------------
(***************************************************************************)
(* host_pairing.py with the files of private_files.py: the host's TLS key, *)
(* its certificate and the bundle that devices are paired with, made by    *)
(* whatever process asks for them first.  Two provisioners may run at once *)
(* and either may end between two system calls; nothing but O_EXCL stands  *)
(* between them.                                                           *)
(***************************************************************************)
EXTENDS Naturals, FiniteSets

CONSTANTS Provisioners,   \* processes that run ensure_host_pairing
          MaxHalts        \* times one of them ends in the middle

NoFile == "absent"
TornFile == "torn"        \* created and not yet written
OldToken == "oldToken"   \* of a bundle made before there was TLS
NoKey == "noKey"

ASSUME PairingAssumption == Provisioners \cap {NoFile, TornFile, OldToken, NoKey} = {}

VARIABLES keyFile, certFile,   \* the key pair a provisioner made, named after it
          bundleFile,          \* the token and the certificate devices pair with
          doing,               \* step of each provisioner
          read,                \* what it read before it began to make anything
          identity,            \* the key and the certificate it works with
          given,               \* bundles that a provisioner reported as ready
          halts

pairingVars == <<keyFile, certFile, bundleFile, doing, read, identity, given, halts>>

Made == Provisioners
KeyFiles == Made \cup {NoFile, TornFile}
Bundles == [token : Made \cup {OldToken}, cert : Made \cup {NoKey}]
Unread == [bundle |-> [file |-> NoFile], cert |-> NoFile, key |-> NoFile]

PairingTypeOK ==
  /\ {keyFile, certFile} \subseteq KeyFiles
  /\ bundleFile \in Bundles \cup {[file |-> NoFile], [file |-> TornFile]}
  /\ doing \in [Provisioners -> {"idle", "readCert", "readKey", "checked", "keyCreated",
                                 "keyWritten", "certCreated", "generated", "identified", "bundleCreated", "ended"}]
  /\ identity \in [Provisioners -> Made \cup {NoKey}] /\ given \subseteq Bundles /\ halts \in 0..MaxHalts

PairingInit ==
  /\ keyFile = NoFile /\ certFile = NoFile
  /\ bundleFile \in {[file |-> NoFile], [token |-> OldToken, cert |-> NoKey]}
  /\ doing = [p \in Provisioners |-> "idle"] /\ read = [p \in Provisioners |-> Unread]
  /\ identity = [p \in Provisioners |-> NoKey] /\ given = {} /\ halts = 0

IsBundle(b) == "token" \in DOMAIN b
Proceeds(p, to) == doing' = [doing EXCEPT ![p] = to]
files == <<keyFile, certFile, bundleFile>>

-----------------------------------------------------------------------------
(* The three files are read one after the other. *)
FileRead(p, file, now, next, content) ==
  /\ doing[p] = now /\ Proceeds(p, next) /\ read' = [read EXCEPT ![p][file] = content]
  /\ UNCHANGED <<files, identity, given, halts>>

Reads(p) ==
  \/ FileRead(p, "bundle", "idle", "readCert", bundleFile)
  \/ FileRead(p, "cert", "readCert", "readKey", certFile)
  \/ FileRead(p, "key", "readKey", "checked", keyFile)

(* A torn file parses as nothing; half an identity, a bundle whose host    *)
(* identity is gone, and one that is of another identity are refused.      *)
MayGoOn(r) ==
  LET paired == IsBundle(r.bundle) /\ r.bundle.cert # NoKey IN
  /\ IsBundle(r.bundle) \/ r.bundle = [file |-> NoFile]
  /\ r.cert # TornFile /\ r.key # TornFile
  /\ (r.cert = NoFile) <=> (r.key = NoFile)
  /\ paired => r.cert # NoFile
  /\ r.cert # NoFile => r.cert = r.key
  /\ paired => r.bundle.cert = r.cert

(* What is there is used, unless its certificate has expired. *)
IdentityChecked(p, expired) ==
  /\ doing[p] = "checked"
  /\ IF ~MayGoOn(read[p]) \/ (expired /\ read[p].cert # NoFile)
     THEN Proceeds(p, "ended") /\ UNCHANGED identity
     ELSE IF read[p].cert = NoFile
          THEN Proceeds(p, "generated") /\ identity' = [identity EXCEPT ![p] = p]
          ELSE Proceeds(p, "identified") /\ identity' = [identity EXCEPT ![p] = read[p].cert]
  /\ UNCHANGED <<files, read, given, halts>>

\* Slip: the file is opened as any other.
Creates_Over(p, now, next, there) == doing[p] = now /\ Proceeds(p, next)

(* O_CREAT and O_EXCL: who finds the file there gives up. *)
Creates(p, now, next, there) == doing[p] = now /\ Proceeds(p, IF there THEN "ended" ELSE next)

KeyCreated(p) ==
  /\ Creates(p, "generated", "keyCreated", keyFile # NoFile)
  /\ keyFile' = IF doing'[p] = "ended" THEN keyFile ELSE TornFile
  /\ UNCHANGED <<certFile, bundleFile, read, identity, given, halts>>

KeyWritten(p) ==
  /\ doing[p] = "keyCreated" /\ Proceeds(p, "keyWritten") /\ keyFile' = identity[p]
  /\ UNCHANGED <<certFile, bundleFile, read, identity, given, halts>>

CertCreated(p) ==
  /\ Creates(p, "keyWritten", "certCreated", certFile # NoFile)
  /\ certFile' = IF doing'[p] = "ended" THEN certFile ELSE TornFile
  /\ UNCHANGED <<keyFile, bundleFile, read, identity, given, halts>>

CertWritten(p) ==
  /\ doing[p] = "certCreated" /\ Proceeds(p, "identified") /\ certFile' = identity[p]
  /\ UNCHANGED <<keyFile, bundleFile, read, identity, given, halts>>

-----------------------------------------------------------------------------
(* The bundle is created like the others; one that has only a token is     *)
(* replaced in one step, keeping the token, and a complete one stays.      *)
BundleCreated(p) ==
  /\ doing[p] = "identified" /\ ~IsBundle(read[p].bundle)
  /\ Creates(p, "identified", "bundleCreated", bundleFile # [file |-> NoFile])
  /\ bundleFile' = IF doing'[p] = "ended" THEN bundleFile ELSE [file |-> TornFile]
  /\ UNCHANGED <<keyFile, certFile, read, identity, given, halts>>

BundleWritten(p) ==
  /\ doing[p] = "bundleCreated" /\ Proceeds(p, "ended")
  /\ bundleFile' = [token |-> p, cert |-> identity[p]] /\ given' = given \cup {bundleFile'}
  /\ UNCHANGED <<keyFile, certFile, read, identity, halts>>

\* Slip: the upgrade takes a token of its own.
UpgradedToken_Fresh(p) == p
UpgradedToken(p) == read[p].bundle.token

BundleReplaced(p) ==
  /\ doing[p] = "identified" /\ IsBundle(read[p].bundle) /\ Proceeds(p, "ended")
  /\ bundleFile' = IF read[p].bundle.cert = NoKey
                   THEN [token |-> UpgradedToken(p), cert |-> identity[p]] ELSE bundleFile
  /\ given' = given \cup {[token |-> UpgradedToken(p), cert |-> identity[p]]}
  /\ UNCHANGED <<keyFile, certFile, read, identity, halts>>

Halts(p) ==
  /\ doing[p] \notin {"idle", "ended"} /\ halts < MaxHalts /\ halts' = halts + 1 /\ Proceeds(p, "ended")
  /\ UNCHANGED <<files, read, identity, given>>

(* The command is run again. *)
RunsAgain(p) ==
  /\ doing[p] = "ended" /\ halts < MaxHalts /\ halts' = halts + 1 /\ Proceeds(p, "idle")
  /\ read' = [read EXCEPT ![p] = Unread] /\ identity' = [identity EXCEPT ![p] = NoKey]
  /\ UNCHANGED <<files, given>>

PairingNext ==
  \E p \in Provisioners :
    \/ Reads(p) \/ (\E expired \in BOOLEAN : IdentityChecked(p, expired)) \/ KeyCreated(p) \/ KeyWritten(p)
    \/ CertCreated(p) \/ CertWritten(p) \/ BundleCreated(p) \/ BundleWritten(p) \/ BundleReplaced(p)
    \/ Halts(p) \/ RunsAgain(p)

PairingSpec == PairingInit /\ [][PairingNext]_pairingVars

-----------------------------------------------------------------------------
(* What a device was paired with stays good: every bundle that some        *)
(* provisioner reported is still the one on the disk, of the host's key    *)
(* and certificate; so no two report different ones.                       *)
PairedStayPaired == \A b \in given : bundleFile = b /\ certFile = b.cert /\ keyFile = b.cert
=============================================================================

---------------------------- MODULE Host_proofs -----------------------------
(***************************************************************************)
(* Theorems about the parts of MC_Host, for every value of their constants *)
(* and one section per part.  The last section takes them to the           *)
(* behaviours that MC_Host composes.                                       *)
(***************************************************************************)
EXTENDS MC_Host, Selection_proofs


-----------------------------------------------------------------------------
(* Pairing.                                                                *)
NoBundle == [file |-> NoFile]
TornBundle == [file |-> TornFile]
PairingStages == {"idle", "readCert", "readKey", "checked", "keyCreated", "keyWritten", "certCreated",
           "generated", "identified", "bundleCreated", "ended"}

PairingShape ==
  /\ keyFile \in KeyFiles /\ certFile \in KeyFiles
  /\ bundleFile \in Bundles \cup {NoBundle, TornBundle}
  /\ doing \in [Provisioners -> PairingStages]
  /\ read \in [Provisioners -> [bundle : Bundles \cup {NoBundle, TornBundle}, cert : KeyFiles, key : KeyFiles]]
  /\ identity \in [Provisioners -> Made \cup {NoKey}]
  /\ given \subseteq Bundles

(* Which of the files there may be: no certificate before the key is       *)
(* written, and a bundle with an identity has the one on the disk.         *)
FilesAgree ==
  /\ keyFile \in {NoFile, TornFile} => certFile = NoFile
  /\ bundleFile \in Bundles /\ bundleFile.cert # NoKey => bundleFile.cert = certFile /\ certFile = keyFile

(* O_EXCL: the key is made by one provisioner, which then has the          *)
(* certificate to itself, and a new bundle by one.                         *)
MakesIdentity(p) == doing[p] \in {"keyCreated", "keyWritten", "certCreated"}
MakesBundle(p) == doing[p] = "bundleCreated"
OneMaker == \A p, q \in Provisioners :
  (MakesIdentity(p) /\ MakesIdentity(q)) \/ (MakesBundle(p) /\ MakesBundle(q)) => p = q

(* What the files are in each step of a provisioner, and that what it read *)
(* of a complete file is still there.                                      *)
StepAgrees(p) ==
  /\ doing[p] \in {"generated", "keyCreated", "keyWritten", "certCreated", "identified", "bundleCreated"} =>
       identity[p] \in Made
  /\ doing[p] = "keyCreated" => keyFile = TornFile
  /\ doing[p] = "keyWritten" => keyFile = identity[p] /\ certFile = NoFile
  /\ doing[p] = "certCreated" => keyFile = identity[p] /\ certFile = TornFile
  /\ doing[p] \in {"identified", "bundleCreated"} => keyFile = identity[p] /\ certFile = identity[p]
  /\ doing[p] = "bundleCreated" => bundleFile = TornBundle

ReadAgrees(p) ==
  /\ read[p].cert \in Made => certFile = read[p].cert
  /\ read[p].key \in Made => keyFile = read[p].key
  /\ read[p].bundle \in Bundles =>
       /\ bundleFile \in Bundles /\ bundleFile.token = read[p].bundle.token
       /\ read[p].bundle.cert # NoKey => bundleFile = read[p].bundle

PairingInv ==
  /\ PairingShape /\ FilesAgree /\ OneMaker
  /\ \A p \in Provisioners : StepAgrees(p) /\ ReadAgrees(p)
  /\ \A b \in given : bundleFile = b /\ b.cert # NoKey

-----------------------------------------------------------------------------
\* A bundle is told from a file that is absent or torn by its token.
LEMMA BundleIsOne ==
  /\ \A b \in Bundles : IsBundle(b) /\ b = [token |-> b.token, cert |-> b.cert]
  /\ ~IsBundle(NoBundle) /\ ~IsBundle(TornBundle) /\ NoBundle # TornBundle
  /\ NoBundle \notin Bundles /\ TornBundle \notin Bundles
  <1>1. \A b \in Bundles : IsBundle(b) /\ b = [token |-> b.token, cert |-> b.cert]
    BY DEF Bundles, IsBundle
  <1>2. ~IsBundle(NoBundle) /\ ~IsBundle(TornBundle)
    BY DEF IsBundle, NoBundle, TornBundle
  <1>3. NoBundle # TornBundle
    <2>1. NoBundle.file # TornBundle.file
      BY DEF NoBundle, TornBundle, NoFile, TornFile
    <2>2. QED
      BY <2>1
  <1>4. QED
    BY <1>1, <1>2, <1>3

LEMMA NamesDiffer ==
  /\ NoFile # TornFile /\ NoFile \notin Made /\ TornFile \notin Made /\ NoKey \notin Made
  BY PairingAssumption DEF NoFile, TornFile, NoKey, Made

LEMMA PairingInitInv == PairingInit => PairingInv
  <1> SUFFICES ASSUME PairingInit
               PROVE  PairingInv
    OBVIOUS
  <1>1. [token |-> OldToken, cert |-> NoKey] \in Bundles
    BY DEF Bundles
  <1>2. PairingShape
    BY <1>1 DEF PairingInit, PairingShape, KeyFiles, PairingStages, Unread, NoBundle
  <1>3. FilesAgree
    BY BundleIsOne DEF PairingInit, FilesAgree, NoBundle
  <1>4. OneMaker
    BY DEF PairingInit, OneMaker, MakesIdentity, MakesBundle
  <1>5. ASSUME NEW p \in Provisioners
        PROVE  StepAgrees(p) /\ ReadAgrees(p)
    <2>1. doing[p] = "idle" /\ read[p] = Unread
      BY DEF PairingInit
    <2>2. Unread.bundle = NoBundle /\ Unread.cert = NoFile /\ Unread.key = NoFile
      BY DEF Unread, NoBundle
    <2>3. QED
      BY <2>1, <2>2, BundleIsOne, NamesDiffer DEF StepAgrees, ReadAgrees
  <1>6. given = {}
    BY DEF PairingInit
  <1>7. QED
    BY <1>2, <1>3, <1>4, <1>5, <1>6 DEF PairingInv

\* A provisioner goes on and leaves the files alone.
LEMMA MakerStep ==
  ASSUME PairingInv, NEW p \in Provisioners, NEW to \in PairingStages \ {"bundleCreated"},
         doing' = [doing EXCEPT ![p] = to], UNCHANGED <<keyFile, certFile, bundleFile, given>>,
         read' \in [Provisioners -> [bundle : Bundles \cup {NoBundle, TornBundle}, cert : KeyFiles, key : KeyFiles]],
         identity' \in [Provisioners -> Made \cup {NoKey}],
         \A q \in Provisioners \ {p} : read'[q] = read[q] /\ identity'[q] = identity[q],
         MakesIdentity(p)' => MakesIdentity(p), StepAgrees(p)', ReadAgrees(p)'
  PROVE  PairingInv'
  <1>1. PairingShape'
    BY DEF PairingInv, PairingShape
  <1>2. FilesAgree'
    BY DEF PairingInv, FilesAgree
  <1>3. \A q \in Provisioners \ {p} : doing'[q] = doing[q]
    BY DEF PairingInv, PairingShape
  <1>4. OneMaker'
    BY <1>3 DEF PairingInv, OneMaker, MakesIdentity, MakesBundle
  <1>5. ASSUME NEW q \in Provisioners \ {p}
        PROVE  StepAgrees(q)' /\ ReadAgrees(q)'
    BY <1>3 DEF PairingInv, StepAgrees, ReadAgrees
  <1>6. \A b \in given' : bundleFile' = b /\ b.cert # NoKey
    BY DEF PairingInv
  <1>7. QED
    BY <1>1, <1>2, <1>4, <1>5, <1>6 DEF PairingInv

LEMMA ReadsStep ==
  ASSUME PairingInv, NEW p \in Provisioners, Reads(p)
  PROVE  PairingInv'
  <1> USE DEF PairingInv
  <1>1. CASE FileRead(p, "bundle", "idle", "readCert", bundleFile)
    <2>1. /\ doing' = [doing EXCEPT ![p] = "readCert"] /\ read' = [read EXCEPT ![p].bundle = bundleFile]
          /\ UNCHANGED <<keyFile, certFile, bundleFile, given, identity>>
      BY <1>1 DEF FileRead, Proceeds, files
    <2>2. StepAgrees(p)' /\ ~MakesIdentity(p)'
      BY <2>1 DEF PairingShape, StepAgrees, MakesIdentity
    <2>3. ReadAgrees(p)'
      BY <2>1 DEF PairingShape, ReadAgrees
    <2>4. QED
      BY <2>1, <2>2, <2>3, MakerStep DEF PairingShape, PairingStages
  <1>2. CASE FileRead(p, "cert", "readCert", "readKey", certFile)
    <2>1. /\ doing' = [doing EXCEPT ![p] = "readKey"] /\ read' = [read EXCEPT ![p].cert = certFile]
          /\ UNCHANGED <<keyFile, certFile, bundleFile, given, identity>>
      BY <1>2 DEF FileRead, Proceeds, files
    <2>2. StepAgrees(p)' /\ ~MakesIdentity(p)'
      BY <2>1 DEF PairingShape, StepAgrees, MakesIdentity
    <2>3. ReadAgrees(p)'
      BY <2>1 DEF PairingShape, ReadAgrees
    <2>4. QED
      BY <2>1, <2>2, <2>3, MakerStep DEF PairingShape, PairingStages
  <1>3. CASE FileRead(p, "key", "readKey", "checked", keyFile)
    <2>1. /\ doing' = [doing EXCEPT ![p] = "checked"] /\ read' = [read EXCEPT ![p].key = keyFile]
          /\ UNCHANGED <<keyFile, certFile, bundleFile, given, identity>>
      BY <1>3 DEF FileRead, Proceeds, files
    <2>2. StepAgrees(p)' /\ ~MakesIdentity(p)'
      BY <2>1 DEF PairingShape, StepAgrees, MakesIdentity
    <2>3. ReadAgrees(p)'
      BY <2>1 DEF PairingShape, ReadAgrees
    <2>4. QED
      BY <2>1, <2>2, <2>3, MakerStep DEF PairingShape, PairingStages
  <1>4. QED
    BY <1>1, <1>2, <1>3 DEF Reads

LEMMA IdentityCheckedStep ==
  ASSUME PairingInv, NEW p \in Provisioners, NEW expired \in BOOLEAN, IdentityChecked(p, expired)
  PROVE  PairingInv'
  <1> USE DEF PairingInv
  <1>1. doing[p] = "checked" /\ UNCHANGED <<keyFile, certFile, bundleFile, read, given>>
    BY DEF IdentityChecked, files
  <1>2. CASE doing' = [doing EXCEPT ![p] = "ended"] /\ UNCHANGED identity
    <2>1. StepAgrees(p)' /\ ReadAgrees(p)' /\ ~MakesIdentity(p)'
      BY <1>1, <1>2 DEF PairingShape, StepAgrees, ReadAgrees, MakesIdentity
    <2>2. QED
      BY <1>1, <1>2, <2>1, MakerStep DEF PairingShape, PairingStages
  <1>3. CASE doing' = [doing EXCEPT ![p] = "generated"] /\ identity' = [identity EXCEPT ![p] = p]
    <2>1. StepAgrees(p)' /\ ReadAgrees(p)' /\ ~MakesIdentity(p)'
      BY <1>1, <1>3 DEF PairingShape, StepAgrees, ReadAgrees, MakesIdentity, Made
    <2>2. QED
      BY <1>1, <1>3, <2>1, MakerStep DEF PairingShape, PairingStages, Made
  <1>4. CASE /\ MayGoOn(read[p]) /\ read[p].cert # NoFile
             /\ doing' = [doing EXCEPT ![p] = "identified"] /\ identity' = [identity EXCEPT ![p] = read[p].cert]
    <2>1. read[p].cert \in Made /\ read[p].cert = read[p].key
      BY <1>4 DEF MayGoOn, PairingShape, KeyFiles
    <2>2. keyFile = read[p].cert /\ certFile = read[p].cert
      BY <2>1 DEF ReadAgrees
    <2>3. StepAgrees(p)' /\ ReadAgrees(p)' /\ ~MakesIdentity(p)'
      BY <1>1, <1>4, <2>1, <2>2 DEF PairingShape, StepAgrees, ReadAgrees, MakesIdentity
    <2>4. QED
      BY <1>1, <1>4, <2>1, <2>3, MakerStep DEF PairingShape, PairingStages
  <1>5. QED
    BY <1>2, <1>3, <1>4 DEF IdentityChecked, Proceeds

\* Whoever finds the file there, is halted or leaves it, only stops.
LEMMA MakerEndStep ==
  ASSUME PairingInv, NEW p \in Provisioners, doing' = [doing EXCEPT ![p] = "ended"],
         UNCHANGED <<keyFile, certFile, bundleFile, given, read, identity>>
  PROVE  PairingInv'
  <1>1. StepAgrees(p)' /\ ReadAgrees(p)' /\ ~MakesIdentity(p)'
    BY DEF PairingInv, PairingShape, StepAgrees, ReadAgrees, MakesIdentity
  <1>2. QED
    BY <1>1, MakerStep DEF PairingInv, PairingShape, PairingStages

LEMMA RunsAgainStep ==
  ASSUME PairingInv, NEW p \in Provisioners, RunsAgain(p)
  PROVE  PairingInv'
  <1> USE DEF PairingInv
  <1>1. /\ doing' = [doing EXCEPT ![p] = "idle"] /\ read' = [read EXCEPT ![p] = Unread]
        /\ identity' = [identity EXCEPT ![p] = NoKey] /\ UNCHANGED <<keyFile, certFile, bundleFile, given>>
    BY DEF RunsAgain, Proceeds, files
  <1>2. /\ Unread \in [bundle : Bundles \cup {NoBundle, TornBundle}, cert : KeyFiles, key : KeyFiles]
        /\ Unread.bundle = NoBundle /\ Unread.cert = NoFile /\ Unread.key = NoFile
    BY DEF Unread, NoBundle, KeyFiles
  <1>3. StepAgrees(p)' /\ ~MakesIdentity(p)'
    BY <1>1 DEF PairingShape, StepAgrees, MakesIdentity
  <1>4. ReadAgrees(p)'
    BY <1>1, <1>2, BundleIsOne, NamesDiffer DEF PairingShape, ReadAgrees
  <1>5. QED
    BY <1>1, <1>2, <1>3, <1>4, MakerStep DEF PairingShape, PairingStages

\* A provisioner makes a step on the key or the certificate.
LEMMA IdentityStep ==
  ASSUME PairingInv, NEW p \in Provisioners, NEW to \in PairingStages, doing' = [doing EXCEPT ![p] = to],
         UNCHANGED <<bundleFile, given, read, identity>>, keyFile' \in KeyFiles, certFile' \in KeyFiles,
         keyFile \in Made => keyFile' = keyFile, certFile \in Made => certFile' = certFile,
         FilesAgree', OneMaker', \A q \in Provisioners : StepAgrees(q)'
  PROVE  PairingInv'
  <1>1. PairingShape'
    BY DEF PairingInv, PairingShape
  <1>2. ASSUME NEW q \in Provisioners
        PROVE  ReadAgrees(q)'
    BY DEF PairingInv, ReadAgrees
  <1>3. \A b \in given' : bundleFile' = b /\ b.cert # NoKey
    BY DEF PairingInv
  <1>4. QED
    BY <1>1, <1>2, <1>3 DEF PairingInv

\* As long as an identity is incomplete, no bundle has one.
LEMMA IncompleteIsUnpaired ==
  ASSUME PairingInv, keyFile \notin Made \/ certFile \notin Made
  PROVE  bundleFile \in Bundles => bundleFile.cert = NoKey
  BY DEF PairingInv, FilesAgree, Bundles

LEMMA KeyCreatedStep ==
  ASSUME PairingInv, NEW p \in Provisioners, KeyCreated(p)
  PROVE  PairingInv'
  <1>1. CASE doing' = [doing EXCEPT ![p] = "ended"]
    <2>1. doing'[p] = "ended"
      BY <1>1 DEF PairingInv, PairingShape
    <2>2. QED
      BY <1>1, <2>1, MakerEndStep DEF KeyCreated
  <1>2. CASE doing[p] = "generated" /\ keyFile = NoFile /\ doing' = [doing EXCEPT ![p] = "keyCreated"]
    <2>1. keyFile' = TornFile /\ UNCHANGED <<certFile, bundleFile, read, identity, given>>
      BY <1>2 DEF KeyCreated, PairingInv, PairingShape
    <2>2. certFile = NoFile
      BY <1>2 DEF PairingInv, FilesAgree
    <2>3. \A q \in Provisioners : ~MakesIdentity(q) /\ doing[q] \notin {"identified", "bundleCreated"}
      BY <1>2, NamesDiffer DEF PairingInv, StepAgrees, MakesIdentity
    <2>4. \A q \in Provisioners \ {p} : doing'[q] = doing[q]
      BY <1>2 DEF PairingInv, PairingShape
    <2>5. FilesAgree'
      BY <1>2, <2>1, <2>2, NamesDiffer, IncompleteIsUnpaired DEF FilesAgree
    <2>6. OneMaker'
      BY <2>3, <2>4 DEF OneMaker, MakesIdentity, MakesBundle
    <2>7. ASSUME NEW q \in Provisioners \ {p}
          PROVE  StepAgrees(q)'
      BY <2>1, <2>3, <2>4 DEF PairingInv, StepAgrees, MakesIdentity
    <2>8. StepAgrees(p)'
      BY <1>2, <2>1 DEF PairingInv, PairingShape, StepAgrees
    <2>9. QED
      BY <1>2, <2>1, <2>2, <2>5, <2>6, <2>7, <2>8, NamesDiffer, IdentityStep DEF PairingStages, KeyFiles
  <1>3. QED
    BY <1>1, <1>2 DEF KeyCreated, Creates, Proceeds

LEMMA KeyWrittenStep ==
  ASSUME PairingInv, NEW p \in Provisioners, KeyWritten(p)
  PROVE  PairingInv'
  <1>1. /\ doing[p] = "keyCreated" /\ doing' = [doing EXCEPT ![p] = "keyWritten"] /\ keyFile' = identity[p]
        /\ UNCHANGED <<certFile, bundleFile, read, identity, given>>
    BY DEF KeyWritten, Proceeds
  <1>2. identity[p] \in Made /\ keyFile = TornFile /\ certFile = NoFile
    BY <1>1 DEF PairingInv, StepAgrees, FilesAgree
  <1>3. \A q \in Provisioners \ {p} :
          doing'[q] = doing[q] /\ ~MakesIdentity(q) /\ doing[q] \notin {"identified", "bundleCreated"}
    BY <1>1, <1>2, NamesDiffer DEF PairingInv, PairingShape, StepAgrees, OneMaker, MakesIdentity, MakesBundle
  <1>4. FilesAgree'
    BY <1>1, <1>2, NamesDiffer, IncompleteIsUnpaired DEF FilesAgree
  <1>5. OneMaker'
    BY <1>3 DEF OneMaker, MakesIdentity, MakesBundle
  <1>6. ASSUME NEW q \in Provisioners \ {p}
        PROVE  StepAgrees(q)'
    BY <1>1, <1>3 DEF PairingInv, StepAgrees, MakesIdentity
  <1>7. StepAgrees(p)'
    BY <1>1, <1>2 DEF PairingInv, PairingShape, StepAgrees
  <1>8. QED
    BY <1>1, <1>2, <1>4, <1>5, <1>6, <1>7, NamesDiffer, IdentityStep DEF PairingStages, KeyFiles

LEMMA CertCreatedStep ==
  ASSUME PairingInv, NEW p \in Provisioners, CertCreated(p)
  PROVE  PairingInv'
  <1>1. CASE doing' = [doing EXCEPT ![p] = "ended"]
    <2>1. doing'[p] = "ended"
      BY <1>1 DEF PairingInv, PairingShape
    <2>2. QED
      BY <1>1, <2>1, MakerEndStep DEF CertCreated
  <1>2. CASE doing[p] = "keyWritten" /\ doing' = [doing EXCEPT ![p] = "certCreated"]
    <2>1. certFile' = TornFile /\ UNCHANGED <<keyFile, bundleFile, read, identity, given>>
      BY <1>2 DEF CertCreated, PairingInv, PairingShape
    <2>2. identity[p] \in Made /\ keyFile = identity[p] /\ certFile = NoFile
      BY <1>2 DEF PairingInv, StepAgrees
    <2>3. \A q \in Provisioners \ {p} :
            doing'[q] = doing[q] /\ ~MakesIdentity(q) /\ doing[q] \notin {"identified", "bundleCreated"}
      BY <1>2, <2>2, NamesDiffer DEF PairingInv, PairingShape, StepAgrees, OneMaker, MakesIdentity, MakesBundle
    <2>4. FilesAgree'
      BY <2>1, <2>2, NamesDiffer, IncompleteIsUnpaired DEF FilesAgree
    <2>5. OneMaker'
      BY <2>3 DEF OneMaker, MakesIdentity, MakesBundle
    <2>6. ASSUME NEW q \in Provisioners \ {p}
          PROVE  StepAgrees(q)'
      BY <2>1, <2>3 DEF PairingInv, StepAgrees, MakesIdentity
    <2>7. StepAgrees(p)'
      BY <1>2, <2>1, <2>2 DEF PairingInv, PairingShape, StepAgrees
    <2>8. QED
      BY <1>2, <2>1, <2>2, <2>4, <2>5, <2>6, <2>7, NamesDiffer, IdentityStep DEF PairingStages, KeyFiles
  <1>3. QED
    BY <1>1, <1>2 DEF CertCreated, Creates, Proceeds

LEMMA CertWrittenStep ==
  ASSUME PairingInv, NEW p \in Provisioners, CertWritten(p)
  PROVE  PairingInv'
  <1>1. /\ doing[p] = "certCreated" /\ doing' = [doing EXCEPT ![p] = "identified"] /\ certFile' = identity[p]
        /\ UNCHANGED <<keyFile, bundleFile, read, identity, given>>
    BY DEF CertWritten, Proceeds
  <1>2. identity[p] \in Made /\ keyFile = identity[p] /\ certFile = TornFile
    BY <1>1 DEF PairingInv, StepAgrees
  <1>3. \A q \in Provisioners \ {p} :
          doing'[q] = doing[q] /\ ~MakesIdentity(q) /\ doing[q] \notin {"identified", "bundleCreated"}
    BY <1>1, <1>2, NamesDiffer DEF PairingInv, PairingShape, StepAgrees, OneMaker, MakesIdentity, MakesBundle
  <1>4. FilesAgree'
    BY <1>1, <1>2, NamesDiffer, IncompleteIsUnpaired DEF FilesAgree
  <1>5. OneMaker'
    BY <1>3 DEF OneMaker, MakesIdentity, MakesBundle
  <1>6. ASSUME NEW q \in Provisioners \ {p}
        PROVE  StepAgrees(q)'
    BY <1>1, <1>3 DEF PairingInv, StepAgrees, MakesIdentity
  <1>7. StepAgrees(p)'
    BY <1>1, <1>2 DEF PairingInv, PairingShape, StepAgrees
  <1>8. QED
    BY <1>1, <1>2, <1>4, <1>5, <1>6, <1>7, NamesDiffer, IdentityStep DEF PairingStages, KeyFiles

\* A provisioner makes a step on the bundle, of which there is one.
LEMMA BundleStep ==
  ASSUME PairingInv, NEW p \in Provisioners, NEW to \in {"bundleCreated", "ended"}, doing' = [doing EXCEPT ![p] = to],
         UNCHANGED <<keyFile, certFile, read, identity>>,
         bundleFile' \in Bundles \cup {NoBundle, TornBundle}, given' \subseteq Bundles, FilesAgree',
         \A q \in Provisioners \ {p} : doing[q] # "bundleCreated", StepAgrees(p)',
         bundleFile \in Bundles =>
           /\ bundleFile' \in Bundles /\ bundleFile'.token = bundleFile.token
           /\ bundleFile.cert # NoKey => bundleFile' = bundleFile,
         \A b \in given' : bundleFile' = b /\ b.cert # NoKey
  PROVE  PairingInv'
  <1>1. PairingShape'
    BY DEF PairingInv, PairingShape, PairingStages
  <1>2. \A q \in Provisioners \ {p} : doing'[q] = doing[q]
    BY DEF PairingInv, PairingShape
  <1>3. OneMaker'
    BY <1>2 DEF PairingInv, PairingShape, OneMaker, MakesIdentity, MakesBundle
  <1>4. ASSUME NEW q \in Provisioners \ {p}
        PROVE  StepAgrees(q)'
    BY <1>2 DEF PairingInv, StepAgrees
  <1>5. ASSUME NEW q \in Provisioners
        PROVE  ReadAgrees(q)'
    BY DEF PairingInv, ReadAgrees
  <1>6. QED
    BY <1>1, <1>3, <1>4, <1>5 DEF PairingInv

LEMMA BundleCreatedStep ==
  ASSUME PairingInv, NEW p \in Provisioners, BundleCreated(p)
  PROVE  PairingInv'
  <1>1. CASE doing' = [doing EXCEPT ![p] = "ended"]
    <2>1. doing'[p] = "ended"
      BY <1>1 DEF PairingInv, PairingShape
    <2>2. QED
      BY <1>1, <2>1, MakerEndStep DEF BundleCreated
  <1>2. CASE doing[p] = "identified" /\ bundleFile = NoBundle /\ doing' = [doing EXCEPT ![p] = "bundleCreated"]
    <2>1. bundleFile' = TornBundle /\ UNCHANGED <<keyFile, certFile, read, identity, given>>
      BY <1>2 DEF BundleCreated, PairingInv, PairingShape, TornBundle
    <2>2. \A q \in Provisioners : doing[q] # "bundleCreated"
      BY <1>2, BundleIsOne DEF PairingInv, StepAgrees
    <2>3. given = {}
      BY <1>2, BundleIsOne DEF PairingInv, PairingShape
    <2>4. FilesAgree'
      BY <2>1, BundleIsOne DEF PairingInv, FilesAgree
    <2>5. StepAgrees(p)'
      BY <1>2, <2>1 DEF PairingInv, PairingShape, StepAgrees
    <2>6. QED
      BY <1>2, <2>1, <2>2, <2>3, <2>4, <2>5, BundleIsOne, BundleStep
  <1>3. QED
    BY <1>1, <1>2 DEF BundleCreated, Creates, Proceeds, NoBundle

LEMMA BundleWrittenStep ==
  ASSUME PairingInv, NEW p \in Provisioners, BundleWritten(p)
  PROVE  PairingInv'
  <1> DEFINE new == [token |-> p, cert |-> identity[p]]
  <1>1. /\ doing[p] = "bundleCreated" /\ doing' = [doing EXCEPT ![p] = "ended"]
        /\ bundleFile' = new /\ given' = given \cup {new} /\ UNCHANGED <<keyFile, certFile, read, identity>>
    BY DEF BundleWritten, Proceeds
  <1>2. identity[p] \in Made /\ keyFile = identity[p] /\ certFile = identity[p] /\ bundleFile = TornBundle
    BY <1>1 DEF PairingInv, StepAgrees
  <1>3. new \in Bundles /\ new.cert = identity[p] /\ new.cert # NoKey
    BY <1>2, NamesDiffer DEF Bundles, Made
  <1> HIDE DEF new
  <1>4. given = {}
    BY <1>2, BundleIsOne DEF PairingInv, PairingShape
  <1>5. FilesAgree'
    BY <1>1, <1>2, <1>3, NamesDiffer DEF FilesAgree
  <1>6. StepAgrees(p)'
    BY <1>1 DEF PairingInv, PairingShape, StepAgrees
  <1>7. \A q \in Provisioners \ {p} : doing[q] # "bundleCreated"
    BY <1>1 DEF PairingInv, OneMaker, MakesBundle
  <1>8. QED
    BY <1>1, <1>2, <1>3, <1>4, <1>5, <1>6, <1>7, BundleIsOne, BundleStep

LEMMA BundleReplacedStep ==
  ASSUME PairingInv, NEW p \in Provisioners, BundleReplaced(p)
  PROVE  PairingInv'
  <1> DEFINE old == read[p].bundle
             new == [token |-> old.token, cert |-> identity[p]]
  <1>1. /\ doing[p] = "identified" /\ doing' = [doing EXCEPT ![p] = "ended"] /\ IsBundle(old)
        /\ bundleFile' = IF old.cert = NoKey THEN new ELSE bundleFile
        /\ given' = given \cup {new} /\ UNCHANGED <<keyFile, certFile, read, identity>>
    BY DEF BundleReplaced, UpgradedToken, Proceeds
  <1>2. identity[p] \in Made /\ keyFile = identity[p] /\ certFile = identity[p]
    BY <1>1 DEF PairingInv, StepAgrees
  <1>3. old \in Bundles
    BY <1>1, BundleIsOne DEF PairingInv, PairingShape
  <1>4. /\ bundleFile \in Bundles /\ bundleFile.token = old.token
        /\ old.cert # NoKey => bundleFile = old
    BY <1>3 DEF PairingInv, ReadAgrees
  <1>5. new \in Bundles /\ new.cert = identity[p] /\ new.token = old.token /\ new.cert # NoKey
    BY <1>2, <1>3, NamesDiffer DEF Bundles
  <1>6. ASSUME bundleFile.cert # NoKey
        PROVE  bundleFile = new
    <2>1. bundleFile.cert = identity[p]
      BY <1>2, <1>4, <1>6 DEF PairingInv, FilesAgree
    <2>2. bundleFile = [token |-> bundleFile.token, cert |-> bundleFile.cert]
      BY <1>4, BundleIsOne
    <2>3. QED
      BY <1>4, <2>1, <2>2
  <1> HIDE DEF old, new
  <1>7. bundleFile' = new
    BY <1>1, <1>4, <1>6
  <1>8. \A b \in given' : bundleFile' = b /\ b.cert # NoKey
    BY <1>1, <1>5, <1>6, <1>7 DEF PairingInv
  <1>9. FilesAgree'
    BY <1>1, <1>2, <1>5, <1>7, NamesDiffer DEF FilesAgree
  <1>10. StepAgrees(p)'
    BY <1>1 DEF PairingInv, PairingShape, StepAgrees
  <1>11. \A q \in Provisioners \ {p} : doing[q] # "bundleCreated"
    BY <1>4, BundleIsOne DEF PairingInv, StepAgrees
  <1>12. given' \subseteq Bundles
    BY <1>1, <1>5 DEF PairingInv, PairingShape
  <1>13. QED
    BY <1>1, <1>4, <1>5, <1>6, <1>7, <1>8, <1>9, <1>10, <1>11, <1>12, BundleStep

LEMMA PairingNextInv == PairingInv /\ [PairingNext]_pairingVars => PairingInv'
  <1> SUFFICES ASSUME PairingInv, [PairingNext]_pairingVars
               PROVE  PairingInv'
    OBVIOUS
  <1>1. CASE UNCHANGED pairingVars
    BY <1>1 DEF pairingVars, PairingInv, PairingShape, FilesAgree, OneMaker, MakesIdentity, MakesBundle,
                StepAgrees, ReadAgrees
  <1>2. ASSUME NEW p \in Provisioners, Halts(p)
        PROVE  PairingInv'
    BY <1>2, MakerEndStep DEF Halts, Proceeds, files
  <1>3. QED
    BY <1>1, <1>2, ReadsStep, IdentityCheckedStep, KeyCreatedStep, KeyWrittenStep, CertCreatedStep, CertWrittenStep,
       BundleCreatedStep, BundleWrittenStep, BundleReplacedStep, RunsAgainStep DEF PairingNext

(* What a device was paired with stays good: every bundle that was ever    *)
(* reported is the one on the disk, of the host's key and certificate,     *)
(* however many provisioners run at once, end in the middle and run again  *)
(* (host_pairing.py 38-140, private_files.py).                             *)
THEOREM PairingIsKept == PairingSpec => []PairedStayPaired
  <1>1. PairingInv => PairedStayPaired
    BY DEF PairingInv, PairingShape, FilesAgree, PairedStayPaired
  <1>2. QED
    BY <1>1, PairingInitInv, PairingNextInv, PTL DEF PairingSpec

-----------------------------------------------------------------------------
(* The loop of the legacy subagent.                                        *)
(* What every step keeps: the transcript owes a result for each call of    *)
(* the batch and for no other, the batch is within the budget that is      *)
(* left, and whatever was made was counted.                                *)
BatchIsOwed ==
  /\ recorded \in [calls : Nat, results : Nat]
  /\ recorded.calls = recorded.results + Len(batch)
  /\ loop # "answering" => batch = <<>>

WithinBudget ==
  /\ rounds \in 0 .. MaxSteps /\ used \in Nat /\ used + Len(batch) <= MaxLookups
  /\ loop = "generating" => rounds < MaxSteps

MadeIsCounted ==
  /\ seen \in [Lookups -> Nat] /\ executed \in [Lookups -> Nat]
  /\ \A c \in Lookups : executed[c] <= 1 /\ executed[c] <= seen[c]

ResearchInv ==
  /\ loop \in {"generating", "answering", "finalizing", "ended"}
  /\ batch \in Seq(Lookups) /\ Len(batch) <= MaxBatch /\ truncated \in BOOLEAN
  /\ stopReason \in {"none", "repeated", "limit"}
  /\ outcome \in {"none", "ok", "partial", "error", "raised"}
  /\ BatchIsOwed /\ WithinBudget /\ MadeIsCounted

-----------------------------------------------------------------------------
\* The bounded sequences are those whose length is within the bound.
LEMMA BoundedSeqMembers ==
  ASSUME NEW S, NEW n \in Nat, NEW q
  PROVE  q \in BoundedSeq(S, n) <=> q \in Seq(S) /\ Len(q) <= n
  <1>1. ASSUME q \in BoundedSeq(S, n)
        PROVE  q \in Seq(S) /\ Len(q) <= n
    <2>1. PICK m \in 0 .. n : q \in [1 .. m -> S]
      BY <1>1 DEF BoundedSeq, SeqOf
    <2>2. QED
      BY <2>1
  <1>2. ASSUME q \in Seq(S), Len(q) <= n
        PROVE  q \in BoundedSeq(S, n)
    <2>1. Len(q) \in 0 .. n /\ q \in [1 .. Len(q) -> S]
      BY <1>2, LenProperties
    <2>2. QED
      BY <2>1 DEF BoundedSeq, SeqOf
  <1>3. QED
    BY <1>1, <1>2

\* What is admitted of a batch is a batch, no longer than what the budget has left.
LEMMA AdmittedEffect ==
  ASSUME ResearchInv, NEW calls \in Seq(Lookups), Len(calls) <= MaxBatch, batch = <<>>
  PROVE  /\ Admitted(calls) \in Seq(Lookups)
         /\ Len(Admitted(calls)) <= MaxBatch
         /\ used + Len(Admitted(calls)) <= MaxLookups
  <1> DEFINE k == IF Len(calls) < MaxLookups - used THEN Len(calls) ELSE MaxLookups - used
  <1>1. /\ MaxLookups \in Nat /\ MaxBatch \in Nat /\ used \in Nat /\ used <= MaxLookups
        /\ Len(calls) \in Nat
    <2>1. Len(batch) = 0
      OBVIOUS
    <2>2. QED
      BY <2>1, ResearchAssumption, LenProperties DEF ResearchInv, WithinBudget
  <1>2. k \in 0 .. Len(calls) /\ used + k <= MaxLookups
    BY <1>1
  <1>3. SubSeq(calls, 1, k) \in Seq(Lookups) /\ Len(SubSeq(calls, 1, k)) = k
    <2> HIDE DEF k
    <2>1. \A i \in 1 .. k : calls[i] \in Lookups
      BY <1>2, ElementOfSeq
    <2>2. QED
      BY <1>1, <1>2, <2>1, SubSeqProperties
  <1>4. QED
    BY <1>1, <1>2, <1>3 DEF Admitted

LEMMA ResearchInitInv == ResearchInit => ResearchInv
  <1> SUFFICES ASSUME ResearchInit
               PROVE  ResearchInv
    OBVIOUS
  <1>1. batch = <<>> /\ Len(batch) = 0 /\ batch \in Seq(Lookups)
    BY DEF ResearchInit
  <1>2. BatchIsOwed
    BY <1>1 DEF ResearchInit, BatchIsOwed
  <1>3. WithinBudget
    BY <1>1, ResearchAssumption DEF ResearchInit, WithinBudget
  <1>4. MadeIsCounted
    BY DEF ResearchInit, MadeIsCounted
  <1>5. Len(batch) <= MaxBatch
    BY <1>1, ResearchAssumption
  <1>6. QED
    BY <1>1, <1>2, <1>3, <1>4, <1>5 DEF ResearchInit, ResearchInv

-----------------------------------------------------------------------------
\* What ends the run leaves the transcript as it is.
LEMMA LoopEndsStep ==
  ASSUME ResearchInv, batch = <<>>, loop' = "ended", rounds' \in 0 .. MaxSteps, UNCHANGED kept,
         outcome' \in {"none", "ok", "partial", "error", "raised"}
  PROVE  ResearchInv'
  BY DEF kept, ResearchInv, BatchIsOwed, WithinBudget, MadeIsCounted

\* A generation begins with an empty batch and a step that is left.
LEMMA GeneratingFacts ==
  ASSUME ResearchInv, loop = "generating"
  PROVE  batch = <<>> /\ rounds + 1 \in 0 .. MaxSteps
  BY ResearchAssumption DEF ResearchInv, WithinBudget, BatchIsOwed

LEMMA GenerationFailsStep ==
  ASSUME ResearchInv, GenerationFails
  PROVE  ResearchInv'
  BY GeneratingFacts, LoopEndsStep DEF GenerationFails, Ends

LEMMA FinalAnswerStep ==
  ASSUME ResearchInv, NEW answer \in {"whole", "malformed", "null list"}, FinalAnswer(answer)
  PROVE  ResearchInv'
  <1>1. Parsed(answer) \in {"ok", "partial", "raised"}
    BY Zenon DEF Parsed
  <1>2. /\ loop = "generating" /\ loop' = "ended" /\ outcome' = Parsed(answer)
        /\ rounds' = rounds + 1 /\ UNCHANGED kept
    BY DEF FinalAnswer, Ends
  <1>3. batch = <<>> /\ rounds' \in 0 .. MaxSteps
    BY <1>2, GeneratingFacts
  <1>4. outcome' \in {"none", "ok", "partial", "error", "raised"}
    BY <1>1, <1>2
  <1>5. QED
    BY <1>2, <1>3, <1>4, LoopEndsStep

LEMMA FinalizesStep ==
  ASSUME ResearchInv, NEW answer \in {"whole", "malformed", "null list"}, Finalizes(answer)
  PROVE  ResearchInv'
  <1>1. batch = <<>> /\ rounds' \in 0 .. MaxSteps
    BY DEF Finalizes, ResearchInv, BatchIsOwed, WithinBudget
  <1>2. QED
    BY <1>1, LoopEndsStep DEF Finalizes, Ends

LEMMA CallsAdmittedStep ==
  ASSUME ResearchInv, NEW calls \in BoundedSeq(Lookups, MaxBatch), CallsAdmitted(calls)
  PROVE  ResearchInv'
  <1>1. MaxBatch \in Nat /\ MaxSteps \in Nat
    BY ResearchAssumption
  <1>2. calls \in Seq(Lookups) /\ Len(calls) <= MaxBatch /\ batch = <<>> /\ Len(batch) = 0
    BY <1>1, BoundedSeqMembers DEF CallsAdmitted, ResearchInv, BatchIsOwed
  <1>3. /\ Admitted(calls) \in Seq(Lookups) /\ Len(Admitted(calls)) <= MaxBatch
        /\ Len(Admitted(calls)) \in Nat /\ used + Len(Admitted(calls)) <= MaxLookups
    BY <1>2, AdmittedEffect, LenProperties
  <1>4. BatchIsOwed'
    BY <1>2, <1>3 DEF CallsAdmitted, ResearchInv, BatchIsOwed
  <1>5. WithinBudget'
    BY <1>1, <1>3 DEF CallsAdmitted, ResearchInv, WithinBudget
  <1>6. MadeIsCounted'
    BY DEF CallsAdmitted, ResearchInv, MadeIsCounted
  <1>7. QED
    BY <1>3, <1>4, <1>5, <1>6 DEF CallsAdmitted, ResearchInv

LEMMA CallAnsweredStep ==
  ASSUME ResearchInv, CallAnswered
  PROVE  ResearchInv'
  <1> DEFINE lookup == Head(batch)
             made == stopReason = "none" /\ seen[lookup] = 0
             stuck == stopReason = "none" /\ seen[lookup] >= 2
  <1>1. batch \in Seq(Lookups) /\ batch # <<>>
    BY DEF CallAnswered, ResearchInv
  <1>2. lookup \in Lookups /\ Tail(batch) \in Seq(Lookups) /\ Len(Tail(batch)) = Len(batch) - 1 /\ Len(batch) \in Nat \ {0}
    BY <1>1, HeadTailProperties, EmptySeq, LenProperties
  <1>3. /\ used' = used + 1 /\ batch' = Tail(batch)
        /\ recorded' = [recorded EXCEPT !.results = @ + 1]
        /\ seen' = (IF stopReason = "none" THEN [seen EXCEPT ![lookup] = @ + 1] ELSE seen)
        /\ executed' = (IF made THEN [executed EXCEPT ![lookup] = @ + 1] ELSE executed)
        /\ stopReason' = (IF stuck THEN "repeated" ELSE stopReason)
        /\ loop = "answering" /\ UNCHANGED <<loop, rounds, truncated, outcome>>
    BY DEF CallAnswered, LeftOf, Executed
  <1> HIDE DEF lookup
  <1>4. BatchIsOwed'
    BY <1>2, <1>3 DEF ResearchInv, BatchIsOwed
  <1>5. WithinBudget'
    BY <1>2, <1>3, ResearchAssumption DEF ResearchInv, WithinBudget
  <1>6. MadeIsCounted'
    BY <1>2, <1>3 DEF ResearchInv, MadeIsCounted
  <1>7. Len(batch') <= MaxBatch
    BY <1>2, <1>3, ResearchAssumption DEF ResearchInv
  <1>8. QED
    BY <1>2, <1>3, <1>4, <1>5, <1>6, <1>7 DEF ResearchInv

LEMMA BatchEndsStep ==
  ASSUME ResearchInv, BatchEnds
  PROVE  ResearchInv'
  <1>1. WithinBudget'
    BY ResearchAssumption DEF BatchEnds, ResearchInv, WithinBudget
  <1>2. QED
    BY <1>1 DEF BatchEnds, ResearchInv, BatchIsOwed, MadeIsCounted

LEMMA ResearchNextInv == ResearchInv /\ [ResearchNext]_researchVars => ResearchInv'
  <1> SUFFICES ASSUME ResearchInv, [ResearchNext]_researchVars
               PROVE  ResearchInv'
    OBVIOUS
  <1>1. ASSUME NEW calls \in BoundedSeq(Lookups, MaxBatch) \ {<<>>}, CallsAdmitted(calls)
        PROVE  ResearchInv'
    BY <1>1, CallsAdmittedStep
  <1>2. CASE CallAnswered
    BY <1>2, CallAnsweredStep
  <1>3. CASE BatchEnds
    BY <1>3, BatchEndsStep
  <1>4. CASE GenerationFails
    BY <1>4, GenerationFailsStep
  <1>5. ASSUME NEW answer \in {"whole", "malformed", "null list"}, FinalAnswer(answer) \/ Finalizes(answer)
        PROVE  ResearchInv'
    BY <1>5, FinalAnswerStep, FinalizesStep
  <1>6. CASE UNCHANGED researchVars
    BY <1>6 DEF researchVars, ResearchInv, BatchIsOwed, WithinBudget, MadeIsCounted
  <1>7. QED
    BY <1>1, <1>2, <1>3, <1>4, <1>5, <1>6 DEF ResearchNext

-----------------------------------------------------------------------------
(* A run stays within its budgets of steps and of calls, and every         *)
(* variable keeps its type, whatever the model asks for.                   *)
THEOREM ResearchTypeCorrect == ResearchSpec => []ResearchTypeOK
  <1>1. ResearchInv => ResearchTypeOK
    <2> SUFFICES ASSUME ResearchInv
                 PROVE  ResearchTypeOK
      OBVIOUS
    <2>1. batch \in BoundedSeq(Lookups, MaxBatch)
      BY BoundedSeqMembers, ResearchAssumption DEF ResearchInv
    <2>2. used \in 0 .. MaxLookups
      BY LenProperties, ResearchAssumption DEF ResearchInv, WithinBudget
    <2>3. QED
      BY <2>1, <2>2 DEF ResearchInv, WithinBudget, ResearchTypeOK
  <1>2. QED
    BY <1>1, ResearchInitInv, ResearchNextInv, PTL DEF ResearchSpec

(* Whenever the model is asked, the transcript holds one result for each   *)
(* call, and no call is made twice: the loop of engine/subagent.py.        *)
THEOREM TranscriptStaysWhole == ResearchSpec => []TranscriptIsWhole
  <1>1. ResearchInv => TranscriptIsWhole
    <2> SUFFICES ASSUME ResearchInv
                 PROVE  TranscriptIsWhole
      OBVIOUS
    <2>1. loop \in {"generating", "finalizing"} => Len(batch) = 0
      BY DEF ResearchInv, BatchIsOwed
    <2>2. QED
      BY <2>1 DEF ResearchInv, BatchIsOwed, MadeIsCounted, TranscriptIsWhole
  <1>2. QED
    BY <1>1, ResearchInitInv, ResearchNextInv, PTL DEF ResearchSpec

-----------------------------------------------------------------------------
(* Connections.                                                            *)
SignInStages == {"none", "listening", "exchanging", "connected", "failed"}
HeardSet == ConsentAnswers \cup {"nothing", "closed"}
CallStages == {"none", "waiting", "refreshing", "looking", "served", "refused"}

ConnectorsShape ==
  /\ signIn \in [SignIns -> [stage : SignInStages, heard : HeardSet]]
  /\ port \in SignIns \cup {"free"} /\ allowed \subseteq SignIns
  /\ pages \subseteq [of : SignIns, said : {"allow", "deny"}]
  /\ grant \in SignIns \cup {"none"} /\ token \in [of : SignIns \cup {"none"}, fresh : BOOLEAN]
  /\ call \in [Calls -> [stage : CallStages, got : SignIns \cup {"none"}]]
  /\ access \in Calls \cup {"free"}

(* What a page is about to say, and what a sign-in has heard, was said by  *)
(* the user; only a sign-in that heard the Allow goes on.                  *)
AnswersAreTheUsers ==
  /\ \A p \in pages : p.said = "allow" => p.of \in allowed
  /\ \A f \in SignIns : /\ signIn[f].heard = "allow" => f \in allowed
                        /\ signIn[f].heard # "forged"
                        /\ signIn[f].stage \in {"none", "listening"} => signIn[f].heard # "closed"
                        /\ signIn[f].stage = "exchanging" => signIn[f].heard = "allow"

RefreshHasAccess == \A c \in Calls : call[c].stage = "refreshing" => access = c

ConnectorsInv == ConnectorsShape /\ AnswersAreTheUsers /\ OnlyTheUserConnects /\ RefreshHasAccess

LEMMA ConnectorsInitInv == ConnectorsInit => ConnectorsInv
  BY DEF ConnectorsInit, ConnectorsInv, ConnectorsShape, SignInStages, HeardSet, CallStages, ConsentAnswers,
         AnswersAreTheUsers, OnlyTheUserConnects, RefreshHasAccess

\* A step of one sign-in, or of its listener.
LEMMA SignInStep ==
  ASSUME ConnectorsInv, NEW f \in SignIns,
         SignInStarts(f) \/ SignInHeard(f) \/ SignInTimesOut(f) \/ CodeExchanged(f)
  PROVE  ConnectorsInv'
  <1> USE DEF ConnectorsInv, ConnectorsShape, SignInStages, HeardSet, ConsentAnswers
  <1>1. ConnectorsShape'
    <2>1. signIn' \in [SignIns -> [stage : SignInStages, heard : HeardSet]]
      <3>1. CASE SignInStarts(f)
        BY <3>1 DEF SignInStarts
      <3>2. CASE SignInHeard(f)
        BY <3>2 DEF SignInHeard
      <3>3. CASE SignInTimesOut(f)
        BY <3>3 DEF SignInTimesOut
      <3>4. CASE CodeExchanged(f)
        BY SMTT(40), ZenonT(40), <3>4 DEF CodeExchanged
      <3>5. QED
        BY <3>1, <3>2, <3>3, <3>4
    <2>2. port' \in SignIns \cup {"free"} /\ UNCHANGED <<allowed, pages, call, access>>
      BY DEF SignInStarts, SignInHeard, SignInTimesOut, CodeExchanged
    <2>3. (grant' = grant /\ token' = token) \/ (grant' = f /\ token' = [of |-> f, fresh |-> TRUE])
      BY DEF SignInStarts, SignInHeard, SignInTimesOut, CodeExchanged
    <2>4. [of |-> f, fresh |-> TRUE] \in [of : SignIns \cup {"none"}, fresh : BOOLEAN]
      OBVIOUS
    <2>5. QED
      BY <2>1, <2>2, <2>3, <2>4
  <1>2. AnswersAreTheUsers'
    <2>1. /\ allowed' = allowed /\ pages' = pages
          /\ \A g \in SignIns \ {f} : signIn'[g] = signIn[g]
      BY DEF SignInStarts, SignInHeard, SignInTimesOut, CodeExchanged
    <2>2. /\ signIn'[f].heard \in {signIn[f].heard, "closed"} /\ signIn'[f].heard # "forged"
          /\ signIn'[f].stage \in {"none", "listening"} => signIn'[f].heard # "closed"
          /\ signIn'[f].stage = "exchanging" => signIn'[f].heard = "allow"
      <3>1. CASE SignInStarts(f)
        <4>1. PICK stage \in {"listening", "failed"} : signIn' = [signIn EXCEPT ![f].stage = stage]
          BY <3>1 DEF SignInStarts
        <4>2. signIn'[f].heard = signIn[f].heard /\ signIn'[f].stage = stage
          BY <4>1
        <4>3. signIn[f].heard # "forged" /\ (stage = "listening" => signIn[f].heard # "closed")
          BY <3>1 DEF SignInStarts, AnswersAreTheUsers
        <4>4. QED
          BY <4>2, <4>3
      <3>2. CASE SignInHeard(f)
        BY <3>2 DEF SignInHeard, AnswersAreTheUsers
      <3>3. CASE SignInTimesOut(f)
        BY <3>3 DEF SignInTimesOut, AnswersAreTheUsers
      <3>4. CASE CodeExchanged(f)
        BY <3>4 DEF CodeExchanged, AnswersAreTheUsers
      <3>5. QED
        BY <3>1, <3>2, <3>3, <3>4
    <2>3. QED
      BY <2>1, <2>2 DEF AnswersAreTheUsers
  <1>3. OnlyTheUserConnects'
    BY DEF SignInStarts, SignInHeard, SignInTimesOut, CodeExchanged, AnswersAreTheUsers, OnlyTheUserConnects
  <1>4. RefreshHasAccess'
    BY DEF SignInStarts, SignInHeard, SignInTimesOut, CodeExchanged, RefreshHasAccess
  <1>5. QED
    BY <1>1, <1>2, <1>3, <1>4

LEMMA CallbackArrivesStep ==
  ASSUME ConnectorsInv, NEW f \in SignIns, NEW consent \in ConsentAnswers, CallbackArrives(f, consent)
  PROVE  ConnectorsInv'
  <1> USE DEF ConnectorsInv, ConnectorsShape
  <1>1. /\ pages' \subseteq pages \cup {[of |-> f, said |-> consent]}
        /\ consent = "forged" => pages' = pages
        /\ allowed \subseteq allowed' /\ allowed' \subseteq allowed \cup {f} /\ (consent = "allow" => f \in allowed')
        /\ UNCHANGED <<signIn, port, grant, token, call, access>>
    BY DEF CallbackArrives, Matches
  <1>2. ConnectorsShape'
    BY <1>1 DEF ConsentAnswers
  <1>3. AnswersAreTheUsers'
    BY <1>1 DEF AnswersAreTheUsers
  <1>4. OnlyTheUserConnects' /\ RefreshHasAccess'
    BY <1>1 DEF OnlyTheUserConnects, RefreshHasAccess
  <1>5. QED
    BY <1>2, <1>3, <1>4

LEMMA CallbackSettlesStep ==
  ASSUME ConnectorsInv, NEW p \in pages, CallbackSettles(p)
  PROVE  ConnectorsInv'
  <1> USE DEF ConnectorsInv, ConnectorsShape
  <1>1. p.of \in SignIns /\ p.said \in {"allow", "deny"}
    OBVIOUS
  <1>2. ConnectorsShape'
    BY <1>1 DEF CallbackSettles, HeardSet, ConsentAnswers
  <1>3. AnswersAreTheUsers'
    BY <1>1 DEF CallbackSettles, AnswersAreTheUsers
  <1>4. OnlyTheUserConnects' /\ RefreshHasAccess'
    BY DEF CallbackSettles, OnlyTheUserConnects, RefreshHasAccess
  <1>5. QED
    BY <1>2, <1>3, <1>4

LEMMA CallStep ==
  ASSUME ConnectorsInv, NEW c \in Calls,
         ConnectionAsked(c) \/ AccessTaken(c) \/ AccessRefreshed(c) \/ ExtrasFound(c)
  PROVE  ConnectorsInv'
  <1> USE DEF ConnectorsInv, ConnectorsShape
  <1>1. ConnectorsShape'
    <2>1. CASE ConnectionAsked(c) \/ ExtrasFound(c)
      BY <2>1 DEF ConnectionAsked, ExtrasFound, CallStages
    <2>2. CASE AccessTaken(c)
      BY <2>2 DEF AccessTaken, CallStages
    <2>3. CASE AccessRefreshed(c)
      <3>1. UNCHANGED <<signIn, port, pages, allowed, grant>> /\ access' = "free"
        BY <2>3 DEF AccessRefreshed
      <3>2. call[c].got \in SignIns \cup {"none"}
        OBVIOUS
      <3>3. token' = token \/ token' = [of |-> call[c].got, fresh |-> TRUE]
        BY <2>3 DEF AccessRefreshed
      <3>4. call' \in [Calls -> [stage : CallStages, got : SignIns \cup {"none"}]]
        BY <2>3 DEF AccessRefreshed, CallStages
      <3>5. [of |-> call[c].got, fresh |-> TRUE] \in [of : SignIns \cup {"none"}, fresh : BOOLEAN]
        BY <3>2
      <3>6. QED
        BY <3>1, <3>3, <3>4, <3>5
    <2>4. QED
      BY <2>1, <2>2, <2>3
  <1>2. AnswersAreTheUsers'
    BY DEF ConnectionAsked, AccessTaken, AccessRefreshed, ExtrasFound, AnswersAreTheUsers
  <1>3. OnlyTheUserConnects'
    BY DEF ConnectionAsked, AccessTaken, AccessRefreshed, ExtrasFound, OnlyTheUserConnects
  <1>4. RefreshHasAccess'
    BY ConnectorsAssumption
       DEF ConnectionAsked, AccessTaken, MayRefresh, AccessRefreshed, ExtrasFound, RefreshHasAccess
  <1>5. QED
    BY <1>1, <1>2, <1>3, <1>4

LEMMA ConnectorsNextInv == ConnectorsInv /\ [ConnectorsNext]_connectorsVars => ConnectorsInv'
  <1> SUFFICES ASSUME ConnectorsInv, [ConnectorsNext]_connectorsVars
               PROVE  ConnectorsInv'
    OBVIOUS
  <1>1. CASE UNCHANGED connectorsVars
    BY <1>1 DEF connectorsVars, ConnectorsInv, ConnectorsShape, AnswersAreTheUsers, OnlyTheUserConnects, RefreshHasAccess
  <1>2. CASE TokenExpires
    <2>1. /\ UNCHANGED <<signIn, port, pages, allowed, grant, call, access>>
          /\ token' = [token EXCEPT !.fresh = FALSE]
      BY <1>2 DEF TokenExpires
    <2>2. token' \in [of : SignIns \cup {"none"}, fresh : BOOLEAN] /\ token'.of = token.of
      BY <2>1 DEF ConnectorsInv, ConnectorsShape
    <2>3. QED
      BY <2>1, <2>2 DEF ConnectorsInv, ConnectorsShape, AnswersAreTheUsers, OnlyTheUserConnects, RefreshHasAccess
  <1>3. CASE Disconnected
    BY <1>3 DEF Disconnected, ConnectorsInv, ConnectorsShape, AnswersAreTheUsers,
                OnlyTheUserConnects, RefreshHasAccess
  <1>4. QED
    BY <1>1, <1>2, <1>3, SignInStep, CallbackArrivesStep, CallbackSettlesStep, CallStep DEF ConnectorsNext

(* The sign-in, the callbacks under way and the worker's calls keep the    *)
(* shape that their code gives them (connectors/manager.py).               *)
THEOREM ConnectorsStayTyped == ConnectorsSpec => []ConnectorsTypeOK
  <1>1. ConnectorsInv => ConnectorsTypeOK
    BY DEF ConnectorsInv, ConnectorsShape, ConnectorsTypeOK, SignInStages, HeardSet, CallStages, ConsentAnswers
  <1>2. QED
    BY <1>1, ConnectorsInitInv, ConnectorsNextInv, PTL DEF ConnectorsSpec

(* A connection exists because the user allowed it in the sign-in it       *)
(* answers, whatever callbacks of older sign-ins arrive and whenever, and  *)
(* of the calls that find a token expired one refreshes it                 *)
(* (connectors/manager.py).                                                *)
THEOREM ConnectionsStayTheUsers == ConnectorsSpec => [](OnlyTheUserConnects /\ RefreshedOnce)
  <1>1. ConnectorsInv => OnlyTheUserConnects /\ RefreshedOnce
    <2> SUFFICES ASSUME ConnectorsInv
                 PROVE  OnlyTheUserConnects /\ RefreshedOnce
      OBVIOUS
    <2>1. {c \in Calls : call[c].stage = "refreshing"} \in SUBSET {access}
      BY DEF ConnectorsInv, RefreshHasAccess
    <2>2. IsFiniteSet({access}) /\ Cardinality({access}) = 1
      BY FS_Singleton
    <2>3. RefreshedOnce
      BY <2>1, <2>2, FS_Subset DEF RefreshedOnce
    <2>4. QED
      BY <2>3 DEF ConnectorsInv
  <1>2. QED
    BY <1>1, ConnectorsInitInv, ConnectorsNextInv, PTL DEF ConnectorsSpec

-----------------------------------------------------------------------------
(* The relay for the workers.                                              *)
RelayStages == {"none", "sent", "allowed", "staged", "found", "listing", "answered", "lost"}
RelayAnswers == {"none", "ok", "refused", "missing", "error"}

RelayCallSet ==
  [op : Operations \cup {"none"}, ns : Namespaces \cup {"none"}, key : Keys \cup {"none"}, stage : RelayStages,
   rest : SUBSET Keys, answer : RelayAnswers, told : RelayAnswers \cup {"unknown"}]

RelayShape ==
  /\ dirs \subseteq Namespaces /\ putLock \in RelayCalls \cup {"free"}
  /\ entries \in [Namespaces -> [Keys -> RelayCalls \cup {"none"}]]
  /\ relay \in [RelayCalls -> RelayCallSet]
  /\ \A c \in RelayCalls :
       /\ relay[c].stage # "none" => relay[c].ns \in Namespaces /\ relay[c].key \in Keys
       /\ relay[c].op = "none" => relay[c].stage = "none"

Putting(c) == relay[c].stage \in {"allowed", "staged"}
PutsAreSerial == \A c \in RelayCalls : Putting(c) => putLock = c

(* What a put found under the lock is still so when it writes: deletes     *)
(* only make room.                                                         *)
RoomIsHeld ==
  \A c \in RelayCalls : Putting(c) =>
    /\ Cardinality(Stored(relay[c].ns) \cup {relay[c].key}) <= MaxKeys
    /\ Cardinality(dirs \cup {relay[c].ns}) <= MaxNamespaces
    /\ relay[c].stage = "staged" => relay[c].ns \in dirs

StoreIsFinite == IsFiniteSet(dirs) /\ \A n \in Namespaces : IsFiniteSet(Stored(n))

StoreInv == RelayShape /\ PutsAreSerial /\ RoomIsHeld /\ StoreIsFinite /\ QuotasHold

LEMMA NoneStored == RelayInit => \A n \in Namespaces : Stored(n) = {}
  BY DEF RelayInit, Stored

LEMMA RelayInitInv == RelayInit => StoreInv
  <1> SUFFICES ASSUME RelayInit
               PROVE  StoreInv
    OBVIOUS
  <1>1. RelayShape
    BY DEF RelayInit, RelayShape, RelayCallSet, NoCall, RelayStages, RelayAnswers, Operations
  <1>2. PutsAreSerial /\ RoomIsHeld
    BY DEF RelayInit, NoCall, PutsAreSerial, RoomIsHeld, Putting
  <1>3. StoreIsFinite
    BY NoneStored, FS_EmptySet DEF StoreIsFinite, RelayInit
  <1>4. QuotasHold
    <2>1. dirs = {} /\ \A n \in Namespaces, k \in Keys : entries[n][k] # "torn"
      BY DEF RelayInit
    <2>2. QED
      BY <2>1, NoneStored, FS_EmptySet, RelayAssumption DEF QuotasHold
  <1>5. QED
    BY <1>1, <1>2, <1>3, <1>4 DEF StoreInv

\* A call goes on and leaves the store and the lock alone.
LEMMA CallMoves ==
  ASSUME StoreInv, NEW c \in RelayCalls, UNCHANGED <<dirs, entries, putLock>>,
         NEW moved \in RelayCallSet,
         relay' = [relay EXCEPT ![c] = moved],
         moved.stage # "none" => moved.ns \in Namespaces /\ moved.key \in Keys,
         moved.op = "none" => moved.stage = "none",
         moved.stage \in {"allowed", "staged"} =>
           moved.stage = relay[c].stage /\ moved.ns = relay[c].ns /\ moved.key = relay[c].key
  PROVE  StoreInv'
  <1>1. relay'[c] = moved /\ \A d \in RelayCalls \ {c} : relay'[d] = relay[d]
    BY DEF StoreInv, RelayShape
  <1>2. RelayShape'
    BY <1>1 DEF StoreInv, RelayShape
  <1>3. \A n \in Namespaces : Stored(n)' = Stored(n)
    BY DEF Stored
  <1>4. \A d \in RelayCalls : Putting(d)' =>
           Putting(d) /\ relay'[d].stage = relay[d].stage /\ relay'[d].ns = relay[d].ns /\ relay'[d].key = relay[d].key
    BY <1>1 DEF Putting
  <1>5. PutsAreSerial'
    BY <1>4 DEF StoreInv, PutsAreSerial
  <1>6. RoomIsHeld'
    <2> SUFFICES ASSUME NEW d \in RelayCalls, Putting(d)'
                 PROVE  /\ Cardinality(Stored(relay[d].ns) \cup {relay[d].key})' <= MaxKeys
                        /\ Cardinality(dirs \cup {relay[d].ns})' <= MaxNamespaces
                        /\ relay'[d].stage = "staged" => relay'[d].ns \in dirs'
      BY DEF RoomIsHeld
    <2>1. Putting(d) /\ relay'[d].stage = relay[d].stage /\ relay'[d].ns = relay[d].ns /\ relay'[d].key = relay[d].key
      BY <1>4
    <2>2. (Stored(relay[d].ns) \cup {relay[d].key})' = Stored(relay[d].ns) \cup {relay[d].key}
      BY <2>1 DEF Stored
    <2>3. /\ Cardinality(Stored(relay[d].ns) \cup {relay[d].key}) <= MaxKeys
          /\ Cardinality(dirs \cup {relay[d].ns}) <= MaxNamespaces
          /\ relay[d].stage = "staged" => relay[d].ns \in dirs
      BY <2>1 DEF StoreInv, RoomIsHeld
    <2>4. QED
      BY SMTT(30), <2>1, <2>2, <2>3
  <1>7. StoreIsFinite' /\ QuotasHold'
    BY <1>3 DEF StoreInv, StoreIsFinite, QuotasHold
  <1>8. QED
    BY <1>2, <1>5, <1>6, <1>7 DEF StoreInv

\* A call is answered.
LEMMA AnswersEffect ==
  ASSUME StoreInv, NEW c \in RelayCalls, NEW answer \in RelayAnswers, Answers(c, answer)
  PROVE  /\ relay' \in [RelayCalls -> RelayCallSet]
         /\ relay'[c].stage = "answered" /\ relay'[c].op = relay[c].op /\ relay'[c].ns = relay[c].ns
         /\ relay'[c].key = relay[c].key /\ relay'[c].answer = answer /\ relay'[c].told = relay[c].told
         /\ \A d \in RelayCalls \ {c} : relay'[d] = relay[d]
  <1> DEFINE moved == [relay[c] EXCEPT !.stage = "answered", !.answer = answer]
  <1>1. relay[c] \in RelayCallSet /\ relay \in [RelayCalls -> RelayCallSet]
    BY DEF StoreInv, RelayShape
  <1>2. moved \in RelayCallSet
    BY <1>1 DEF RelayCallSet, RelayStages
  <1>3. /\ moved.ns = relay[c].ns /\ moved.key = relay[c].key /\ moved.op = relay[c].op /\ moved.told = relay[c].told
        /\ moved.stage = "answered" /\ moved.answer = answer
    BY <1>1 DEF RelayCallSet
  <1>4. relay' = [relay EXCEPT ![c] = moved]
    BY <1>1 DEF Answers, RelayCallSet
  <1> HIDE DEF moved
  <1>5. QED
    BY <1>1, <1>2, <1>3, <1>4

\* What is answered to a call that holds nothing.
LEMMA RelayAnswered ==
  ASSUME StoreInv, NEW c \in RelayCalls, UNCHANGED <<dirs, entries, putLock>>, relay[c].op # "none",
         relay[c].stage # "none", NEW answer \in RelayAnswers, Answers(c, answer)
  PROVE  StoreInv'
  <1> DEFINE moved == [relay[c] EXCEPT !.stage = "answered", !.answer = answer]
  <1>1. moved \in RelayCallSet
    BY ZenonT(30) DEF StoreInv, RelayShape, RelayCallSet, RelayStages
  <1>2. relay' = [relay EXCEPT ![c] = moved]
    BY DEF Answers, StoreInv, RelayShape, RelayCallSet
  <1>3. moved.ns = relay[c].ns /\ moved.key = relay[c].key /\ moved.op = relay[c].op /\ moved.stage = "answered"
    BY DEF StoreInv, RelayShape, RelayCallSet
  <1>4. moved.ns \in Namespaces /\ moved.key \in Keys
    BY <1>3 DEF StoreInv, RelayShape
  <1> HIDE DEF moved
  <1>5. QED
    BY <1>1, <1>2, <1>3, <1>4, CallMoves

\* A call goes on to a stage that holds nothing of the store.
LEMMA CallGoesOn ==
  ASSUME StoreInv, NEW c \in RelayCalls, UNCHANGED <<dirs, entries, putLock>>, relay[c].op # "none",
         relay[c].stage # "none", Moves(c, "found")
  PROVE  StoreInv'
  <1> DEFINE moved == [relay[c] EXCEPT !.stage = "found"]
  <1>1. moved \in RelayCallSet
    BY ZenonT(30) DEF StoreInv, RelayShape, RelayCallSet, RelayStages
  <1>2. relay' = [relay EXCEPT ![c] = moved]
    BY DEF Moves, StoreInv, RelayShape, RelayCallSet
  <1>3. moved.ns = relay[c].ns /\ moved.key = relay[c].key /\ moved.op = relay[c].op /\ moved.stage = "found"
    BY DEF StoreInv, RelayShape, RelayCallSet
  <1>4. moved.ns \in Namespaces /\ moved.key \in Keys
    BY <1>3 DEF StoreInv, RelayShape
  <1> HIDE DEF moved
  <1>5. QED
    BY <1>1, <1>2, <1>3, <1>4, CallMoves

\* A call goes to another stage, and asks what it asked.
LEMMA CallStaged ==
  ASSUME StoreInv, NEW c \in RelayCalls, NEW stage \in RelayStages, Moves(c, stage)
  PROVE  /\ relay' \in [RelayCalls -> RelayCallSet]
         /\ relay'[c].stage = stage /\ relay'[c].op = relay[c].op /\ relay'[c].ns = relay[c].ns
         /\ relay'[c].key = relay[c].key /\ relay'[c].answer = relay[c].answer /\ relay'[c].told = relay[c].told
         /\ \A d \in RelayCalls \ {c} : relay'[d] = relay[d]
  BY DEF StoreInv, RelayShape, RelayCallSet, Moves

LEMMA CallSentStep ==
  ASSUME StoreInv, NEW c \in RelayCalls, NEW op \in Operations, NEW n \in Namespaces, NEW k \in Keys,
         CallSent(c, op, n, k)
  PROVE  StoreInv'
  <1> DEFINE moved == [NoCall EXCEPT !.op = op, !.ns = n, !.key = k, !.stage = IF host.up THEN "sent" ELSE "lost"]
  <1>1. moved \in RelayCallSet /\ moved.ns = n /\ moved.key = k /\ moved.op = op /\ moved.stage \in {"sent", "lost"}
    BY DEF NoCall, RelayCallSet, RelayStages, RelayAnswers
  <1>2. relay' = [relay EXCEPT ![c] = moved] /\ UNCHANGED <<dirs, entries, putLock>>
    BY DEF CallSent
  <1>3. op # "none"
    BY DEF Operations
  <1> HIDE DEF moved
  <1>4. QED
    BY <1>1, <1>2, <1>3, CallMoves

LEMMA PutChecksStep ==
  ASSUME StoreInv, NEW c \in RelayCalls, PutChecks(c)
  PROVE  StoreInv'
  <1> DEFINE n == relay[c].ns
             k == relay[c].key
  <1>1. n \in Namespaces /\ k \in Keys /\ relay[c].op # "none" /\ relay[c].stage = "sent" /\ putLock = "free"
    BY DEF StoreInv, RelayShape, PutChecks, MayPut
  <1>2. CASE Answers(c, "refused") /\ UNCHANGED <<dirs, entries, putLock>>
    BY <1>1, <1>2, RelayAnswered DEF RelayAnswers
  <1>3. CASE /\ Moves(c, "allowed") /\ putLock' = c /\ UNCHANGED <<dirs, entries>>
             /\ ~(k \notin Stored(n) /\ Cardinality(Stored(n)) >= MaxKeys)
             /\ ~(n \notin dirs /\ Cardinality(dirs) >= MaxNamespaces)
    <2>1. \A d \in RelayCalls : ~Putting(d)
      BY <1>1, RelayAssumption DEF StoreInv, PutsAreSerial
    <2>2. /\ IsFiniteSet(Stored(n)) /\ Cardinality(Stored(n)) <= MaxKeys /\ Cardinality(Stored(n)) \in Nat
          /\ IsFiniteSet(dirs) /\ Cardinality(dirs) <= MaxNamespaces /\ Cardinality(dirs) \in Nat
      BY <1>1, FS_CardinalityType DEF StoreInv, StoreIsFinite, QuotasHold
    <2>3. Cardinality(Stored(n) \cup {k}) <= MaxKeys /\ Cardinality(dirs \cup {n}) <= MaxNamespaces
      <3>1. Cardinality(Stored(n) \cup {k}) = IF k \in Stored(n) THEN Cardinality(Stored(n)) ELSE Cardinality(Stored(n)) + 1
        BY <2>2, FS_AddElement
      <3>2. Cardinality(dirs \cup {n}) = IF n \in dirs THEN Cardinality(dirs) ELSE Cardinality(dirs) + 1
        BY <2>2, FS_AddElement
      <3>3. QED
        BY <1>3, <2>2, <3>1, <3>2, RelayAssumption
    <2>4. /\ relay' \in [RelayCalls -> RelayCallSet] /\ relay'[c].stage = "allowed" /\ relay'[c].op = relay[c].op
          /\ relay'[c].ns = n /\ relay'[c].key = k /\ \A d \in RelayCalls \ {c} : relay'[d] = relay[d]
      BY <1>3, CallStaged DEF RelayStages
    <2>5. RelayShape'
      BY <1>1, <1>3, <2>4 DEF StoreInv, RelayShape
    <2>6. PutsAreSerial'
      BY <1>3, <2>1, <2>4 DEF PutsAreSerial, Putting
    <2>7. \A m \in Namespaces : Stored(m)' = Stored(m)
      BY <1>3 DEF Stored
    <2>8. RoomIsHeld'
      <3> SUFFICES ASSUME NEW d \in RelayCalls, Putting(d)'
                   PROVE  /\ Cardinality(Stored(relay[d].ns) \cup {relay[d].key})' <= MaxKeys
                          /\ Cardinality(dirs \cup {relay[d].ns})' <= MaxNamespaces
                          /\ relay'[d].stage = "staged" => relay'[d].ns \in dirs'
        BY DEF RoomIsHeld
      <3>1. d = c
        BY <2>1, <2>4 DEF Putting
      <3>2. Stored(relay[c].ns)' = Stored(n)
        BY <1>3, <2>4 DEF Stored
      <3>3. QED
        BY <1>3, <2>3, <2>4, <3>1, <3>2
    <2>9. StoreIsFinite' /\ QuotasHold'
      BY <1>3, <2>7 DEF StoreInv, StoreIsFinite, QuotasHold
    <2>10. QED
      BY <2>5, <2>6, <2>8, <2>9 DEF StoreInv
  <1>4. QED
    BY <1>2, <1>3 DEF PutChecks

LEMMA PutStagesStep ==
  ASSUME StoreInv, NEW c \in RelayCalls, PutStages(c)
  PROVE  StoreInv'
  <1> DEFINE n == relay[c].ns
             k == relay[c].key
  <1>1. /\ n \in Namespaces /\ k \in Keys /\ Putting(c) /\ relay[c].op # "none" /\ Moves(c, "staged")
        /\ dirs' = dirs \cup {n} /\ UNCHANGED <<entries, putLock>>
    BY DEF StoreInv, RelayShape, PutStages, Putting, Staged
  <1>2. /\ relay' \in [RelayCalls -> RelayCallSet] /\ relay'[c].stage = "staged" /\ relay'[c].op = relay[c].op
        /\ relay'[c].ns = n /\ relay'[c].key = k /\ \A d \in RelayCalls \ {c} : relay'[d] = relay[d]
    BY <1>1, CallStaged DEF RelayStages
  <1>3. putLock = c /\ \A d \in RelayCalls : Putting(d) => d = c
    BY <1>1 DEF StoreInv, PutsAreSerial
  <1>4. /\ Cardinality(Stored(n) \cup {k}) <= MaxKeys
        /\ Cardinality(dirs \cup {n}) <= MaxNamespaces
    BY <1>1 DEF StoreInv, RoomIsHeld
  <1>5. RelayShape'
    BY <1>1, <1>2 DEF StoreInv, RelayShape
  <1>6. \A d \in RelayCalls : Putting(d)' => d = c
    BY <1>2, <1>3 DEF Putting
  <1>7. PutsAreSerial'
    BY <1>1, <1>3, <1>6 DEF PutsAreSerial
  <1>8. RoomIsHeld'
    <2>1. (Stored(relay[c].ns) \cup {relay[c].key})' = Stored(n) \cup {k}
      BY <1>1, <1>2 DEF Stored
    <2>2. (dirs \cup {relay[c].ns})' = dirs \cup {n} /\ relay'[c].ns \in dirs'
      BY <1>1, <1>2
    <2>3. QED
      BY <1>4, <1>6, <2>1, <2>2 DEF RoomIsHeld
  <1>9. \A m \in Namespaces : Stored(m)' = Stored(m)
    BY <1>1 DEF Stored
  <1>10. IsFiniteSet(dirs')
    BY <1>1, FS_AddElement DEF StoreInv, StoreIsFinite
  <1>11. StoreIsFinite' /\ QuotasHold'
    BY <1>1, <1>4, <1>9, <1>10 DEF StoreInv, StoreIsFinite, QuotasHold
  <1>12. QED
    BY <1>5, <1>7, <1>8, <1>11 DEF StoreInv

\* The put that holds the lock ends: the entry is written whole, or nothing is.
LEMMA PutEndsStep ==
  ASSUME StoreInv, NEW c \in RelayCalls, PutReplaces(c) \/ PutFails(c)
  PROVE  StoreInv'
  <1> DEFINE n == relay[c].ns
             k == relay[c].key
  <1>1. /\ n \in Namespaces /\ k \in Keys /\ Putting(c) /\ relay[c].op # "none" /\ relay[c].stage = "staged"
        /\ putLock' = "free" /\ dirs' = dirs
        /\ entries' = entries \/ entries' = [entries EXCEPT ![n][k] = c]
    BY DEF StoreInv, RelayShape, PutReplaces, PutFails, Putting
  <1>2. /\ relay' \in [RelayCalls -> RelayCallSet] /\ relay'[c].stage = "answered" /\ relay'[c].op = relay[c].op
        /\ relay'[c].ns = n /\ relay'[c].key = k /\ \A d \in RelayCalls \ {c} : relay'[d] = relay[d]
    BY AnswersEffect DEF PutReplaces, PutFails, RelayAnswers
  <1>3. \A d \in RelayCalls : ~Putting(d)'
    BY <1>1, <1>2 DEF StoreInv, PutsAreSerial, Putting
  <1>4. entries' \in [Namespaces -> [Keys -> RelayCalls \cup {"none"}]]
    <2>1. entries \in [Namespaces -> [Keys -> RelayCalls \cup {"none"}]]
      BY DEF StoreInv, RelayShape
    <2>2. CASE entries' = [entries EXCEPT ![n][k] = c]
      <3>1. [entries[n] EXCEPT ![k] = c] \in [Keys -> RelayCalls \cup {"none"}]
        BY <1>1, <2>1
      <3>2. QED
        BY <2>1, <2>2, <3>1
    <2>3. QED
      BY <1>1, <2>1, <2>2
  <1>5. RelayShape'
    BY <1>1, <1>2, <1>4 DEF StoreInv, RelayShape
  <1>6. \A m \in Namespaces : Stored(m)' \in {Stored(m), IF m = n THEN Stored(n) \cup {k} ELSE Stored(m)}
    <2>1. CASE entries' = entries
      BY <2>1 DEF Stored
    <2>2. CASE entries' = [entries EXCEPT ![n][k] = c]
      <3>1. c # "none"
        BY RelayAssumption
      <3>2. \A m \in Namespaces, j \in Keys : entries'[m][j] = IF m = n /\ j = k THEN c ELSE entries[m][j]
        BY <1>1, <2>2 DEF StoreInv, RelayShape
      <3>3. QED
        BY <1>1, <3>1, <3>2 DEF Stored
    <2>3. QED
      BY <1>1, <2>1, <2>2
  <1>7. /\ Cardinality(Stored(n) \cup {k}) <= MaxKeys /\ n \in dirs /\ IsFiniteSet(Stored(n) \cup {k})
    BY <1>1, FS_AddElement DEF StoreInv, RoomIsHeld, StoreIsFinite
  <1>8. StoreIsFinite' /\ QuotasHold'
    <2>1. \A m \in Namespaces, j \in Keys : entries'[m][j] # "torn"
      BY <1>4, RelayAssumption
    <2>2. ASSUME NEW m \in Namespaces
          PROVE  IsFiniteSet(Stored(m)') /\ Cardinality(Stored(m)') <= MaxKeys /\ (Stored(m)' # {} => m \in dirs)
      BY <1>6, <1>7 DEF StoreInv, StoreIsFinite, QuotasHold
    <2>3. QED
      BY <1>1, <2>1, <2>2 DEF StoreInv, StoreIsFinite, QuotasHold
  <1>9. PutsAreSerial' /\ RoomIsHeld'
    BY <1>3 DEF PutsAreSerial, RoomIsHeld
  <1>10. QED
    BY <1>5, <1>8, <1>9 DEF StoreInv

LEMMA EntryDeletedStep ==
  ASSUME StoreInv, NEW c \in RelayCalls, EntryDeleted(c)
  PROVE  StoreInv'
  <1> DEFINE n == relay[c].ns
             k == relay[c].key
  <1>1. n \in Namespaces /\ k \in Keys /\ relay[c].op # "none" /\ relay[c].stage = "found" /\ UNCHANGED <<dirs, putLock>>
    BY DEF StoreInv, RelayShape, EntryDeleted
  <1>2. CASE Answers(c, "error") /\ UNCHANGED entries
    BY <1>1, <1>2, RelayAnswered DEF RelayAnswers
  <1>3. CASE Answers(c, "ok") /\ entries' = [entries EXCEPT ![n][k] = "none"]
    <2>1. /\ relay' \in [RelayCalls -> RelayCallSet] /\ relay'[c].stage = "answered" /\ relay'[c].op = relay[c].op
          /\ relay'[c].ns = n /\ relay'[c].key = k /\ \A d \in RelayCalls \ {c} : relay'[d] = relay[d]
      BY <1>3, AnswersEffect DEF RelayAnswers
    <2>2. \A d \in RelayCalls : Putting(d)' => Putting(d) /\ d # c
      BY <2>1 DEF Putting
    <2>3. /\ entries' \in [Namespaces -> [Keys -> RelayCalls \cup {"none"}]]
          /\ \A m \in Namespaces, j \in Keys : entries'[m][j] \in {entries[m][j], "none"}
      BY <1>1, <1>3 DEF StoreInv, RelayShape
    <2>4. \A m \in Namespaces : Stored(m)' \in SUBSET Stored(m)
      BY <2>3 DEF Stored
    <2>5. RelayShape'
      BY <1>1, <2>1, <2>3 DEF StoreInv, RelayShape
    <2>6. PutsAreSerial'
      BY <1>1, <2>2 DEF StoreInv, PutsAreSerial
    <2>7. RoomIsHeld'
      <3> SUFFICES ASSUME NEW d \in RelayCalls, Putting(d)'
                   PROVE  /\ Cardinality(Stored(relay[d].ns) \cup {relay[d].key})' <= MaxKeys
                          /\ Cardinality(dirs \cup {relay[d].ns})' <= MaxNamespaces
                          /\ relay'[d].stage = "staged" => relay'[d].ns \in dirs'
        BY DEF RoomIsHeld
      <3> DEFINE m == relay[d].ns
                 j == relay[d].key
      <3>1. Putting(d) /\ relay'[d] = relay[d] /\ m \in Namespaces
        BY <2>1, <2>2 DEF StoreInv, RelayShape, Putting
      <3>2. /\ Cardinality(Stored(m) \cup {j}) <= MaxKeys
            /\ Cardinality(dirs \cup {m}) <= MaxNamespaces
            /\ relay[d].stage = "staged" => m \in dirs
        BY <3>1 DEF StoreInv, RoomIsHeld
      <3>3. IsFiniteSet(Stored(m) \cup {j})
        BY <3>1, FS_AddElement DEF StoreInv, StoreIsFinite
      <3>4. (Stored(relay[d].ns) \cup {relay[d].key})' \in SUBSET (Stored(m) \cup {j})
        <4>1. (Stored(relay[d].ns) \cup {relay[d].key})' = {i \in Keys : entries'[m][i] # "none"} \cup {j}
          BY <3>1 DEF Stored
        <4>2. QED
          BY <2>3, <3>1, <4>1 DEF Stored
      <3>5. /\ Cardinality(Stored(m) \cup {j}) \in Nat
            /\ Cardinality((Stored(relay[d].ns) \cup {relay[d].key})') \in Nat
            /\ Cardinality((Stored(relay[d].ns) \cup {relay[d].key})') <= Cardinality(Stored(m) \cup {j})
        BY <3>3, <3>4, FS_Subset, FS_CardinalityType
      <3>6. QED
        BY <1>1, <3>1, <3>2, <3>5, RelayAssumption
    <2>8. StoreIsFinite' /\ QuotasHold'
      <3>1. ASSUME NEW m \in Namespaces
            PROVE  IsFiniteSet(Stored(m)') /\ Cardinality(Stored(m)') <= MaxKeys /\ (Stored(m)' # {} => m \in dirs)
        <4>1. IsFiniteSet(Stored(m)) /\ Cardinality(Stored(m)) <= MaxKeys
          BY DEF StoreInv, StoreIsFinite, QuotasHold
        <4>2. /\ IsFiniteSet(Stored(m)') /\ Cardinality(Stored(m)') <= Cardinality(Stored(m))
              /\ Cardinality(Stored(m)') \in Nat /\ Cardinality(Stored(m)) \in Nat
          BY <2>4, <4>1, FS_Subset, FS_CardinalityType
        <4>3. QED
          BY <2>4, <4>1, <4>2, RelayAssumption DEF StoreInv, QuotasHold
      <3>2. \A m \in Namespaces, j \in Keys : entries'[m][j] # "torn"
        BY <2>3 DEF StoreInv, QuotasHold
      <3>3. QED
        BY <1>1, <3>1, <3>2 DEF StoreInv, StoreIsFinite, QuotasHold
    <2>9. QED
      BY <2>5, <2>6, <2>7, <2>8 DEF StoreInv
  <1>4. QED
    BY <1>2, <1>3 DEF EntryDeleted

\* A step that only moves one call, which holds no place in the store.
LEMMA OtherCallStep ==
  ASSUME StoreInv, NEW c \in RelayCalls,
         \/ EntryLooked(c) \/ EntryRead(c) \/ EntriesGlobbed(c) \/ EntryListed(c)
         \/ JobBooked(c) \/ AnswerArrives(c) \/ AnswerLost(c)
  PROVE  StoreInv'
  <1>1. CASE EntryLooked(c)
    <2>1. CASE Answers(c, "missing")
      BY <1>1, <2>1, RelayAnswered DEF EntryLooked, RelayAnswers
    <2>2. CASE Moves(c, "found")
      BY <1>1, <2>2, CallGoesOn DEF EntryLooked
    <2>3. QED
      BY <1>1, <2>1, <2>2 DEF EntryLooked
  <1>2. CASE EntryRead(c)
    <2>1. PICK answer \in RelayAnswers : Answers(c, answer)
      BY <1>2 DEF EntryRead, RelayAnswers
    <2>2. QED
      BY <1>2, <2>1, RelayAnswered DEF EntryRead
  <1>3. CASE EntriesGlobbed(c)
    <2> DEFINE moved == [relay[c] EXCEPT !.stage = "listing", !.rest = Stored(relay[c].ns)]
    <2>1. relay' = [relay EXCEPT ![c] = moved] /\ moved \in RelayCallSet /\ moved.stage = "listing" /\ moved.op = relay[c].op
          /\ moved.ns = relay[c].ns /\ moved.key = relay[c].key
      BY <1>3 DEF EntriesGlobbed, StoreInv, RelayShape, RelayCallSet, RelayStages, Stored
    <2>2. relay[c].op # "none" /\ relay[c].stage = "sent" /\ UNCHANGED <<dirs, entries, putLock>>
      BY <1>3 DEF EntriesGlobbed
    <2> HIDE DEF moved
    <2>3. QED
      BY <2>1, <2>2, CallMoves DEF StoreInv, RelayShape
  <1>4. CASE EntryListed(c)
    <2>1. relay[c].op # "none" /\ relay[c].stage = "listing" /\ UNCHANGED <<dirs, entries, putLock>>
      BY <1>4 DEF EntryListed
    <2>2. CASE \E answer \in RelayAnswers : Answers(c, answer)
      BY <2>1, <2>2, RelayAnswered
    <2>3. ASSUME NEW k \in relay[c].rest, relay' = [relay EXCEPT ![c].rest = @ \ {k}]
          PROVE  StoreInv'
      <3> DEFINE moved == [relay[c] EXCEPT !.rest = @ \ {k}]
      <3>1. relay' = [relay EXCEPT ![c] = moved] /\ moved \in RelayCallSet /\ moved.stage = "listing"
            /\ moved.op = relay[c].op /\ moved.ns = relay[c].ns /\ moved.key = relay[c].key
        BY <2>1, <2>3 DEF StoreInv, RelayShape, RelayCallSet
      <3> HIDE DEF moved
      <3>2. QED
        BY <2>1, <3>1, CallMoves DEF StoreInv, RelayShape
    <2>4. QED
      BY <1>4, <2>2, <2>3 DEF EntryListed, RelayAnswers
  <1>5. CASE JobBooked(c)
    <2>1. PICK answer \in RelayAnswers : Answers(c, answer)
      BY <1>5 DEF JobBooked, BookingAnswer, RelayAnswers
    <2>2. QED
      BY <1>5, <2>1, RelayAnswered DEF JobBooked
  <1>6. CASE AnswerArrives(c) \/ AnswerLost(c)
    <2>1. PICK news \in RelayAnswers \cup {"unknown"} : relay' = [relay EXCEPT ![c].told = news]
      BY <1>6 DEF AnswerArrives, AnswerLost, StoreInv, RelayShape, RelayCallSet
    <2> DEFINE moved == [relay[c] EXCEPT !.told = news]
    <2>2. relay' = [relay EXCEPT ![c] = moved] /\ moved \in RelayCallSet /\ moved.stage = relay[c].stage
          /\ moved.op = relay[c].op /\ moved.ns = relay[c].ns /\ moved.key = relay[c].key
      BY <2>1 DEF StoreInv, RelayShape, RelayCallSet
    <2> HIDE DEF moved
    <2>3. QED
      BY <1>6, <2>2, CallMoves DEF AnswerArrives, AnswerLost, StoreInv, RelayShape
  <1>7. QED
    BY <1>1, <1>2, <1>3, <1>4, <1>5, <1>6

LEMMA HostStepInv ==
  ASSUME StoreInv, HostStops \/ HostStarts
  PROVE  StoreInv'
  <1>1. /\ UNCHANGED <<dirs, entries>> /\ (putLock' = "free" \/ UNCHANGED <<relay, putLock>>)
    BY DEF HostStops, HostStarts
  <1>2. \A m \in Namespaces : Stored(m)' = Stored(m)
    BY <1>1 DEF Stored
  <1>3. StoreIsFinite' /\ QuotasHold'
    BY <1>1, <1>2 DEF StoreInv, StoreIsFinite, QuotasHold
  <1>4. CASE HostStarts
    BY <1>3, <1>4 DEF HostStarts, StoreInv, RelayShape, PutsAreSerial, RoomIsHeld, Putting, Stored
  <1>5. CASE HostStops
    <2>1. ASSUME NEW c \in RelayCalls
          PROVE  /\ relay'[c] \in RelayCallSet /\ relay'[c].stage \in {"none", "lost"} /\ relay'[c].op = relay[c].op
                 /\ relay'[c].ns = relay[c].ns /\ relay'[c].key = relay[c].key
                 /\ relay[c].stage = "none" => relay'[c] = relay[c]
      <3>1. CASE relay[c].stage = "none"
        BY <1>5, <3>1 DEF HostStops, StoreInv, RelayShape
      <3>2. CASE relay[c].stage # "none"
        <4>1. relay'[c] = [relay[c] EXCEPT !.stage = "lost", !.rest = {}]
          BY <1>5, <3>2 DEF HostStops
        <4>2. relay[c] \in RelayCallSet
          BY DEF StoreInv, RelayShape
        <4>3. relay'[c] \in RelayCallSet
          BY <4>1, <4>2 DEF RelayCallSet, RelayStages
        <4>4. /\ relay'[c].stage = "lost" /\ relay'[c].op = relay[c].op
              /\ relay'[c].ns = relay[c].ns /\ relay'[c].key = relay[c].key
          BY <4>1, <4>2 DEF RelayCallSet
        <4>5. QED
          BY <3>2, <4>3, <4>4
      <3>3. QED
        BY <3>1, <3>2
    <2>2. relay' \in [RelayCalls -> RelayCallSet]
      BY <1>5, <2>1 DEF HostStops
    <2>3. RelayShape'
      <3>1. putLock' = "free"
        BY <1>5 DEF HostStops
      <3>2. ASSUME NEW c \in RelayCalls
            PROVE  /\ relay'[c].stage # "none" => relay'[c].ns \in Namespaces /\ relay'[c].key \in Keys
                   /\ relay'[c].op = "none" => relay'[c].stage = "none"
        BY <2>1 DEF StoreInv, RelayShape
      <3>3. QED
        BY <1>1, <2>2, <3>1, <3>2 DEF StoreInv, RelayShape
    <2>4. PutsAreSerial' /\ RoomIsHeld'
      BY <2>1 DEF PutsAreSerial, RoomIsHeld, Putting
    <2>5. QED
      BY <1>3, <2>3, <2>4 DEF StoreInv
  <1>6. QED
    BY <1>4, <1>5

LEMMA RelayNextInv == StoreInv /\ [RelayNext]_relayVars => StoreInv'
  <1> SUFFICES ASSUME StoreInv, [RelayNext]_relayVars
               PROVE  StoreInv'
    OBVIOUS
  <1>1. CASE UNCHANGED relayVars
    BY <1>1 DEF relayVars, StoreInv, RelayShape, PutsAreSerial, RoomIsHeld, StoreIsFinite, QuotasHold, Putting, Stored
  <1>2. QED
    BY <1>1, CallSentStep, PutChecksStep, PutStagesStep, PutEndsStep, EntryDeletedStep, OtherCallStep, HostStepInv
       DEF RelayNext

(* The agents' store never has more namespaces or keys than it may,        *)
(* although a put checks them, writes a file and counts it in different    *)
(* steps, and the host may stop between them: puts come one at a time, and *)
(* the room that one found is still there when it stores                   *)
(* (agents_store.py).                                                      *)
THEOREM QuotasAreKept == RelaySpec => []QuotasHold
  <1>1. StoreInv => QuotasHold
    BY DEF StoreInv
  <1>2. QED
    BY <1>1, RelayInitInv, RelayNextInv, PTL DEF RelaySpec

-----------------------------------------------------------------------------
(* A booking is answered as made only once it is on disk, and stays there. *)
Booked(c) == jobs[c].disk = TRUE
AnsweredIsBooked ==
  /\ jobs \in [RelayCalls -> [memory : BOOLEAN, disk : BOOLEAN]]
  /\ \A c \in RelayCalls : relay[c].op = "book" =>
       /\ relay[c].stage = "answered" /\ relay[c].answer = "ok" => Booked(c)
       /\ relay[c].told = "ok" => Booked(c)

\* A call that is no booking goes on, or a booking that is told nothing new.
LEMMA BookingsStay ==
  ASSUME AnsweredIsBooked, NEW c \in RelayCalls, UNCHANGED jobs,
         \A d \in RelayCalls \ {c} : relay'[d] = relay[d],
         relay'[c].op = "book" =>
           /\ relay'[c].stage = "answered" /\ relay'[c].answer = "ok" =>
                relay[c].op = "book" /\ relay[c].stage = "answered" /\ relay[c].answer = "ok"
           /\ relay'[c].told = "ok" =>
                \/ relay[c].op = "book" /\ relay[c].stage = "answered" /\ relay[c].answer = "ok"
                \/ relay[c].op = "book" /\ relay[c].told = "ok"
  PROVE  AnsweredIsBooked'
  BY DEF AnsweredIsBooked, Booked

LEMMA JobBookedStep ==
  ASSUME StoreInv, AnsweredIsBooked, NEW c \in RelayCalls, JobBooked(c)
  PROVE  AnsweredIsBooked'
  <1>1. PICK wrote \in BOOLEAN :
          /\ jobs' = [d \in RelayCalls |-> LET known == jobs[d].memory \/ d = c
                                            IN [memory |-> known, disk |-> jobs[d].disk \/ (known /\ wrote)]]
          /\ Answers(c, BookingAnswer(wrote))
    BY DEF JobBooked
  <1>2. ASSUME NEW d \in RelayCalls
        PROVE  /\ jobs'[d] \in [memory : BOOLEAN, disk : BOOLEAN]
               /\ Booked(d) => Booked(d)'
               /\ d = c /\ wrote => Booked(d)'
    BY <1>1 DEF AnsweredIsBooked, Booked
  <1>3. jobs' \in [RelayCalls -> [memory : BOOLEAN, disk : BOOLEAN]]
    BY <1>1, <1>2
  <1>4. /\ relay'[c].answer = BookingAnswer(wrote) /\ relay'[c].told = relay[c].told /\ relay'[c].op = relay[c].op
        /\ \A d \in RelayCalls \ {c} : relay'[d] = relay[d]
    BY <1>1, AnswersEffect DEF BookingAnswer, RelayAnswers
  <1>5. BookingAnswer(wrote) = "ok" => wrote
    BY DEF BookingAnswer
  <1>6. QED
    BY <1>2, <1>3, <1>4, <1>5 DEF AnsweredIsBooked
 
LEMMA AnsweredNextInv == StoreInv /\ AnsweredIsBooked /\ [RelayNext]_relayVars => AnsweredIsBooked'
  <1> SUFFICES ASSUME StoreInv, AnsweredIsBooked, [RelayNext]_relayVars
               PROVE  AnsweredIsBooked'
    OBVIOUS
  <1> USE DEF StoreInv
  <1>1. CASE UNCHANGED relayVars
    BY <1>1 DEF relayVars, AnsweredIsBooked, Booked
  <1>2. ASSUME NEW c \in RelayCalls, NEW op \in Operations, NEW n \in Namespaces, NEW k \in Keys, CallSent(c, op, n, k)
        PROVE  AnsweredIsBooked'
    <2>1. relay'[c].told = "none" /\ relay'[c].stage \in {"sent", "lost"}
      BY <1>2 DEF CallSent, NoCall, RelayShape
    <2>2. UNCHANGED jobs /\ \A d \in RelayCalls \ {c} : relay'[d] = relay[d]
      BY <1>2 DEF CallSent, RelayShape
    <2>3. QED
      BY <2>1, <2>2, BookingsStay
  <1>3. ASSUME NEW c \in RelayCalls,
               PutChecks(c) \/ PutStages(c) \/ PutReplaces(c) \/ PutFails(c)
               \/ EntryLooked(c) \/ EntryDeleted(c) \/ EntryRead(c) \/ EntriesGlobbed(c) \/ EntryListed(c)
        PROVE  AnsweredIsBooked'
    <2>1. relay[c].op # "book" /\ UNCHANGED jobs
      BY <1>3 DEF PutChecks, PutStages, PutReplaces, PutFails, EntryLooked, EntryDeleted, EntryRead, EntriesGlobbed,
                  EntryListed
    <2>2. \/ \E stage \in RelayStages : Moves(c, stage)
          \/ \E answer \in RelayAnswers : Answers(c, answer)
          \/ relay' = [relay EXCEPT ![c].stage = "listing", ![c].rest = Stored(relay[c].ns)]
          \/ \E k \in relay[c].rest : relay' = [relay EXCEPT ![c].rest = @ \ {k}]
      BY <1>3 DEF PutChecks, PutStages, PutReplaces, PutFails, EntryLooked, EntryDeleted, EntryRead, EntriesGlobbed,
                  EntryListed, RelayStages, RelayAnswers
    <2>3. relay'[c].op = relay[c].op /\ \A d \in RelayCalls \ {c} : relay'[d] = relay[d]
      BY <2>2, CallStaged, AnswersEffect DEF RelayShape, RelayCallSet
    <2>4. QED
      BY <2>1, <2>3, BookingsStay
  <1>4. ASSUME NEW c \in RelayCalls, AnswerArrives(c) \/ AnswerLost(c)
        PROVE  AnsweredIsBooked'
    <2>1. PICK news \in RelayAnswers \cup {"unknown"} :
            /\ relay' = [relay EXCEPT ![c].told = news]
            /\ news = "unknown" \/ (relay[c].stage = "answered" /\ news = relay[c].answer)
      BY <1>4 DEF AnswerArrives, AnswerLost, RelayShape, RelayCallSet
    <2>2. /\ relay'[c].op = relay[c].op /\ relay'[c].stage = relay[c].stage /\ relay'[c].answer = relay[c].answer
          /\ relay'[c].told = news /\ \A d \in RelayCalls \ {c} : relay'[d] = relay[d]
      BY <2>1 DEF RelayShape, RelayCallSet
    <2>3. UNCHANGED jobs
      BY <1>4 DEF AnswerArrives, AnswerLost
    <2>4. QED
      BY <2>1, <2>2, <2>3, BookingsStay
  <1>5. CASE HostStops
    <2>1. ASSUME NEW c \in RelayCalls
          PROVE  /\ jobs'[c] \in [memory : BOOLEAN, disk : BOOLEAN] /\ (Booked(c) => Booked(c)')
                 /\ relay'[c].op = relay[c].op /\ relay'[c].told = relay[c].told
                 /\ relay'[c].stage # "answered"
      <3>1. jobs'[c] \in [memory : BOOLEAN, disk : BOOLEAN] /\ (Booked(c) => Booked(c)')
        BY <1>5 DEF HostStops, AnsweredIsBooked, Booked
      <3>2. relay[c] \in RelayCallSet
        BY DEF RelayShape
      <3>3. relay'[c] = IF relay[c].stage = "none" THEN relay[c] ELSE [relay[c] EXCEPT !.stage = "lost", !.rest = {}]
        BY <1>5 DEF HostStops
      <3>4. QED
        BY <3>1, <3>2, <3>3 DEF RelayCallSet
    <2>2. jobs' \in [RelayCalls -> [memory : BOOLEAN, disk : BOOLEAN]]
      BY <1>5, <2>1 DEF HostStops
    <2>3. QED
      BY <2>1, <2>2 DEF AnsweredIsBooked
  <1>6. CASE HostStarts
    <2>1. ASSUME NEW c \in RelayCalls
          PROVE  jobs'[c] \in [memory : BOOLEAN, disk : BOOLEAN] /\ (Booked(c) => Booked(c)')
      BY <1>6 DEF HostStarts, AnsweredIsBooked, Booked
    <2>2. jobs' \in [RelayCalls -> [memory : BOOLEAN, disk : BOOLEAN]] /\ UNCHANGED relay
      BY <1>6, <2>1 DEF HostStarts
    <2>3. QED
      BY <2>1, <2>2 DEF AnsweredIsBooked
  <1>7. QED
    BY <1>1, <1>2, <1>3, <1>4, <1>5, <1>6, JobBookedStep DEF RelayNext

(* A booking that a worker was told of is in the schedule on the disk,     *)
(* also after a stop of the host and a save that fails (subagent_tools,    *)
(* scheduling.py 180-230).                                                 *)
THEOREM ToldStaysBooked == RelaySpec => []ToldIsBooked
  <1>1. RelayInit => AnsweredIsBooked
    BY DEF RelayInit, AnsweredIsBooked, NoCall
  <1>2. AnsweredIsBooked => ToldIsBooked
    BY DEF AnsweredIsBooked, Booked, ToldIsBooked
  <1>3. QED
    BY <1>1, <1>2, RelayInitInv, RelayNextInv, AnsweredNextInv, PTL DEF RelaySpec

-----------------------------------------------------------------------------
(* The limits of requests.                                                 *)
PostStages == Inside \cup {"waiting", "busy", "ended"}
Insiders == {p \in Posts : post[p] \in Inside}

LimitsInv ==
  /\ post \in [Posts -> PostStages] /\ total \in [Posts -> Nat]
  /\ declared \in [Posts -> Lengths \cup {Undeclared, Bad}]
  /\ IsFiniteSet(Insiders) /\ PlacesAreKept

LEMMA LimitsInitInv == LimitsInit => LimitsInv
  <1> SUFFICES ASSUME LimitsInit
               PROVE  LimitsInv
    OBVIOUS
  <1>1. Insiders = {} /\ Insiders = {p \in Posts : post[p] \in Inside}
    BY DEF LimitsInit, Insiders, Inside
  <1>2. PlacesAreKept
    BY <1>1, FS_EmptySet, LimitsAssumption DEF LimitsInit, PlacesAreKept
  <1>3. IsFiniteSet(Insiders)
    BY <1>1, FS_EmptySet
  <1>4. QED
    BY <1>2, <1>3 DEF LimitsInit, LimitsInv, PostStages

\* Who is inside, and how many, when one request goes to another stage.
LEMMA OneMoves ==
  ASSUME LimitsInv, NEW p \in Posts, NEW stage \in PostStages, At(p, stage)
  PROVE  /\ post' \in [Posts -> PostStages] /\ IsFiniteSet(Insiders')
         /\ post'[p] = stage /\ \A q \in Posts \ {p} : post'[q] = post[q]
         /\ Cardinality(Insiders) = active /\ active \in Nat
         /\ Cardinality(Insiders') = active
              + (IF stage \in Inside /\ post[p] \notin Inside THEN 1 ELSE 0)
              - (IF stage \notin Inside /\ post[p] \in Inside THEN 1 ELSE 0)
  <1>1. post' \in [Posts -> PostStages] /\ post'[p] = stage /\ \A q \in Posts \ {p} : post'[q] = post[q]
    BY DEF LimitsInv, At
  <1>2. IsFiniteSet(Insiders) /\ Cardinality(Insiders) = active /\ active \in Nat
    BY FS_CardinalityType DEF LimitsInv, PlacesAreKept, Insiders
  <1>3. Insiders' = IF stage \in Inside THEN Insiders \cup {p} ELSE Insiders \ {p}
    BY <1>1 DEF Insiders
  <1>4. p \in Insiders <=> post[p] \in Inside
    BY DEF Insiders
  <1>5. CASE stage \in Inside
    BY <1>1, <1>2, <1>3, <1>4, <1>5, FS_AddElement
  <1>6. CASE stage \notin Inside
    BY SMTT(30), <1>1, <1>2, <1>3, <1>4, <1>6, FS_RemoveElement
  <1>7. QED
    BY <1>5, <1>6

LEMMA EntersStep ==
  ASSUME LimitsInv, NEW p \in Posts, Enters(p)
  PROVE  LimitsInv'
  <1>1. post[p] = "waiting" /\ UNCHANGED <<declared, total>> /\ "waiting" \notin Inside
    BY DEF Enters, Inside
  <1>2. CASE active >= MaxRequests /\ At(p, "busy") /\ UNCHANGED active
    BY <1>1, <1>2, OneMoves DEF LimitsInv, PlacesAreKept, Insiders, PostStages, Inside
  <1>3. ASSUME ~(active >= MaxRequests), active' = active + 1, NEW stage \in {"refused", "uploading"}, At(p, stage)
        PROVE  LimitsInv'
    <2>1. stage \in Inside /\ stage \in PostStages /\ stage # "served"
      BY DEF Inside, PostStages
    <2>2. Cardinality(Insiders') = active + 1 /\ active' <= MaxRequests /\ active \in Nat
      BY <1>1, <1>3, <2>1, OneMoves, LimitsAssumption
    <2>3. \A q \in Posts : post'[q] = "served" => total'[q] <= MaxBody
      BY <1>1, <1>3, <2>1, OneMoves DEF LimitsInv, PlacesAreKept
    <2>4. PlacesAreKept'
      BY <1>3, <2>2, <2>3 DEF PlacesAreKept, Insiders
    <2>5. QED
      BY <1>1, <1>3, <2>1, <2>4, OneMoves DEF LimitsInv
  <1>4. QED
    BY <1>2, <1>3 DEF Enters

\* A request that is inside stays inside.
LEMMA StaysInside ==
  ASSUME LimitsInv, NEW p \in Posts, post[p] = "uploading", NEW stage \in Inside, At(p, stage),
         UNCHANGED <<declared, active>>, total' \in [Posts -> Nat], \A q \in Posts \ {p} : total'[q] = total[q],
         stage = "served" => total'[p] <= MaxBody
  PROVE  LimitsInv'
  <1>1. stage \in PostStages /\ "uploading" \in Inside
    BY DEF PostStages, Inside
  <1>2. Cardinality(Insiders') = active /\ IsFiniteSet(Insiders') /\ post' \in [Posts -> PostStages]
    BY <1>1, OneMoves
  <1>3. \A q \in Posts : post'[q] = "served" => total'[q] <= MaxBody
    BY <1>1, OneMoves DEF LimitsInv, PlacesAreKept
  <1>4. PlacesAreKept'
    BY <1>2, <1>3 DEF LimitsInv, PlacesAreKept, Insiders
  <1>5. QED
    BY <1>2, <1>4 DEF LimitsInv

LEMMA ChunkStep ==
  ASSUME LimitsInv, NEW p \in Posts, NEW size \in Lengths, NEW more \in BOOLEAN, Chunk(p, size, more)
  PROVE  LimitsInv'
  <1>1. /\ total' \in [Posts -> Nat] /\ \A q \in Posts \ {p} : total'[q] = total[q]
        /\ post[p] = "uploading" /\ UNCHANGED <<declared, active>>
    BY LimitsAssumption DEF Chunk, LimitsInv
  <1>2. PICK stage \in Inside : At(p, stage) /\ (stage = "served" => ~(total'[p] > MaxBody))
    BY DEF Chunk, Inside
  <1>3. QED
    BY <1>1, <1>2, StaysInside, LimitsAssumption

LEMMA LeavesStep ==
  ASSUME LimitsInv, NEW p \in Posts, Leaves(p)
  PROVE  LimitsInv'
  <1>1. /\ post[p] \in Inside /\ At(p, "ended") /\ active' = active - 1 /\ UNCHANGED <<declared, total>>
        /\ "ended" \notin Inside /\ "ended" \in PostStages
    BY DEF Leaves, PlaceBack, Inside, PostStages
  <1>2. Cardinality(Insiders') = active - 1 /\ IsFiniteSet(Insiders') /\ post' \in [Posts -> PostStages] /\ active \in Nat
    BY <1>1, OneMoves
  <1>3. \A q \in Posts : post'[q] = "served" => total'[q] <= MaxBody
    BY <1>1, OneMoves DEF LimitsInv, PlacesAreKept
  <1>4. PlacesAreKept'
    BY <1>1, <1>2, <1>3, LimitsAssumption DEF LimitsInv, PlacesAreKept, Insiders
  <1>5. QED
    BY <1>1, <1>2, <1>4 DEF LimitsInv

LEMMA LimitsNextInv == LimitsInv /\ [LimitsNext]_limitVars => LimitsInv'
  <1> SUFFICES ASSUME LimitsInv, [LimitsNext]_limitVars
               PROVE  LimitsInv'
    OBVIOUS
  <1>1. CASE UNCHANGED limitVars
    BY <1>1 DEF limitVars, LimitsInv, PlacesAreKept, Insiders
  <1>2. ASSUME NEW p \in Posts, UploadTimesOut(p)
        PROVE  LimitsInv'
    BY <1>2, StaysInside DEF UploadTimesOut, Inside, LimitsInv
  <1>3. QED
    BY <1>1, <1>2, EntersStep, ChunkStep, LeavesStep DEF LimitsNext

(* There is a place for every request that is served and for no other, so  *)
(* that a request that was cut off or gave up never keeps one (limits.py); *)
(* and the requests keep their shape.                                      *)
THEOREM PlacesStayKept == LimitsSpec => []PlacesAreKept /\ []LimitsTypeOK
  <1>1. LimitsInv => PlacesAreKept /\ LimitsTypeOK
    BY FS_CardinalityType DEF LimitsInv, LimitsTypeOK, PostStages, PlacesAreKept, Insiders
  <1>2. QED
    BY <1>1, LimitsInitInv, LimitsNextInv, PTL DEF LimitsSpec

-----------------------------------------------------------------------------
(* The pacing of searches.                                                 *)
LegStages == {"new", "sleeping", "asking", "skipped", "answered"}

PacingShape ==
  /\ clock \in 1 .. MaxClock /\ leg \in [Legs -> LegStages] /\ wakes \in [Legs -> Nat]
  /\ nextAllowed \in Nat /\ cooldownUntil \in Nat /\ lastAsked \in Nat
  /\ keyless \in BOOLEAN /\ disabled \in BOOLEAN /\ reserving \in Legs \cup {NoLeg}

(* The next request is allowed an interval after the last one, and a leg   *)
(* that sleeps until then has the lock: nobody else asks meanwhile.        *)
TurnIsKept ==
  /\ lastAsked = Never \/ nextAllowed = lastAsked + Interval
  /\ \A l \in Legs : leg[l] = "sleeping" => reserving = l /\ wakes[l] = nextAllowed

PacingInv == PacingShape /\ TurnIsKept

Paced ==
  lastAsked' # lastAsked =>
    /\ lastAsked = Never \/ clock >= lastAsked + Interval
    /\ ~disabled /\ cooldownUntil <= clock

LEMMA PacingInitInv == PacingInit => PacingInv
  <1> SUFFICES ASSUME PacingInit
               PROVE  PacingInv
    OBVIOUS
  <1>1. keyless \in BOOLEAN /\ disabled \in BOOLEAN
    BY DEF PacingInit
  <1>2. clock \in 1 .. MaxClock /\ leg \in [Legs -> LegStages] /\ wakes \in [Legs -> Nat]
    BY PacingAssumption DEF PacingInit, LegStages, Never
  <1>3. nextAllowed \in Nat /\ cooldownUntil \in Nat /\ lastAsked \in Nat /\ reserving \in Legs \cup {NoLeg}
    BY DEF PacingInit, Never
  <1>4. TurnIsKept
    BY DEF PacingInit, TurnIsKept
  <1>5. QED
    BY <1>1, <1>2, <1>3, <1>4 DEF PacingInv, PacingShape

LEMMA SkipsStep ==
  ASSUME PacingInv, NEW l \in Legs, Skips(l), reserving' \in {reserving, NoLeg}, UNCHANGED <<clock, wakes, keyless>>,
         reserving = NoLeg \/ leg[l] = "sleeping"
  PROVE  PacingInv' /\ Paced
  <1>1. leg' \in [Legs -> LegStages] /\ leg'[l] = "skipped" /\ \A k \in Legs \ {l} : leg'[k] = leg[k]
    BY DEF Skips, PacingInv, PacingShape, LegStages
  <1>2. \A k \in Legs : leg'[k] # "sleeping"
    BY <1>1, PacingAssumption DEF PacingInv, TurnIsKept
  <1>3. UNCHANGED <<nextAllowed, cooldownUntil, disabled, lastAsked>>
    BY DEF Skips, pacing
  <1>4. PacingShape' /\ TurnIsKept'
    BY <1>1, <1>2, <1>3 DEF PacingInv, PacingShape, TurnIsKept
  <1>5. QED
    BY <1>3, <1>4 DEF PacingInv, Paced

LEMMA ReservesStep ==
  ASSUME PacingInv, NEW l \in Legs, Reserves(l), reserving' \in {reserving, NoLeg}, UNCHANGED <<clock, wakes, keyless>>,
         reserving = NoLeg \/ leg[l] = "sleeping", ~Refused, clock >= nextAllowed
  PROVE  PacingInv' /\ Paced
  <1>1. leg' \in [Legs -> LegStages] /\ leg'[l] = "asking" /\ \A k \in Legs \ {l} : leg'[k] = leg[k]
    BY DEF Reserves, PacingInv, PacingShape, LegStages
  <1>2. \A k \in Legs : leg'[k] # "sleeping"
    BY <1>1, PacingAssumption DEF PacingInv, TurnIsKept
  <1>3. nextAllowed' = clock + Interval /\ lastAsked' = clock /\ UNCHANGED <<cooldownUntil, disabled>>
    BY DEF Reserves
  <1>4. PacingShape' /\ TurnIsKept'
    BY <1>1, <1>2, <1>3, PacingAssumption DEF PacingInv, PacingShape, TurnIsKept
  <1>5. Paced
    BY PacingAssumption DEF PacingInv, PacingShape, TurnIsKept, Paced, Refused, Never
  <1>6. QED
    BY <1>4, <1>5 DEF PacingInv

LEMMA LegComesStep ==
  ASSUME PacingInv, NEW l \in Legs, LegComes(l)
  PROVE  PacingInv' /\ Paced
  <1>1. leg[l] = "new" /\ reserving = NoLeg /\ UNCHANGED <<clock, keyless>>
    BY DEF LegComes, LockFree
  <1>2. CASE Refused /\ Skips(l) /\ UNCHANGED <<wakes, reserving>>
    BY <1>1, <1>2, SkipsStep
  <1>3. CASE /\ leg' = [leg EXCEPT ![l] = "sleeping"] /\ wakes' = [wakes EXCEPT ![l] = nextAllowed]
             /\ reserving' = l /\ UNCHANGED <<pacing, lastAsked>>
    <2>1. /\ leg' \in [Legs -> LegStages] /\ leg'[l] = "sleeping" /\ \A k \in Legs \ {l} : leg'[k] = leg[k]
          /\ wakes' \in [Legs -> Nat] /\ wakes'[l] = nextAllowed
          /\ UNCHANGED <<nextAllowed, cooldownUntil, disabled, lastAsked>>
      BY <1>3 DEF PacingInv, PacingShape, LegStages, pacing
    <2>2. \A k \in Legs : leg[k] # "sleeping"
      BY <1>1, PacingAssumption DEF PacingInv, TurnIsKept
    <2>3. PacingShape' /\ TurnIsKept'
      BY <1>1, <1>3, <2>1, <2>2 DEF PacingInv, PacingShape, TurnIsKept
    <2>4. QED
      BY <2>1, <2>3 DEF PacingInv, Paced
  <1>4. CASE ~Refused /\ ~(nextAllowed > clock) /\ Reserves(l) /\ UNCHANGED <<wakes, reserving>>
    <2>1. clock >= nextAllowed
      BY <1>4 DEF PacingInv, PacingShape
    <2>2. QED
      BY <1>1, <1>4, <2>1, ReservesStep
  <1>5. QED
    BY <1>2, <1>3, <1>4 DEF LegComes

LEMMA LegWakesStep ==
  ASSUME PacingInv, NEW l \in Legs, LegWakes(l)
  PROVE  PacingInv' /\ Paced
  <1>1. /\ leg[l] = "sleeping" /\ clock >= nextAllowed /\ reserving' = NoLeg /\ UNCHANGED <<clock, wakes, keyless>>
    BY DEF LegWakes, PacingInv, TurnIsKept
  <1>2. Skips(l) \/ (~Refused /\ Reserves(l))
    BY DEF LegWakes, RefusedNow
  <1>3. QED
    BY <1>1, <1>2, SkipsStep, ReservesStep

\* A leg that is over, or an answer, changes nobody's turn.
LEMMA LegEndsStep ==
  ASSUME PacingInv, NEW l \in Legs, leg[l] \in {"sleeping", "asking"}, leg' = [leg EXCEPT ![l] = "answered"],
         reserving' = (IF reserving = l THEN NoLeg ELSE reserving) \/ (reserving' = reserving /\ leg[l] = "asking"),
         cooldownUntil' \in Nat, disabled' \in BOOLEAN, UNCHANGED <<clock, wakes, keyless, nextAllowed, lastAsked>>
  PROVE  PacingInv' /\ Paced
  <1>1. leg' \in [Legs -> LegStages] /\ leg'[l] = "answered" /\ \A k \in Legs \ {l} : leg'[k] = leg[k]
    BY DEF PacingInv, PacingShape, LegStages
  <1>2. PacingShape'
    BY <1>1 DEF PacingInv, PacingShape
  <1>3. TurnIsKept'
    BY <1>1 DEF PacingInv, TurnIsKept
  <1>4. QED
    BY <1>2, <1>3 DEF PacingInv, Paced

LEMMA LegAnsweredStep ==
  ASSUME PacingInv, NEW l \in Legs, NEW how \in {"ok", "error", "timeout", "429"}, NEW after \in RetryAfters,
         LegAnswered(l, how, after)
  PROVE  PacingInv' /\ Paced
  <1>1. clock \in Nat /\ cooldownUntil \in Nat /\ LeastRest \in Nat /\ after \in Nat /\ disabled \in BOOLEAN
    BY PacingAssumption DEF PacingInv, PacingShape
  <1>2. /\ cooldownUntil' \in {cooldownUntil, clock + LaterOf(LeastRest, after), clock + LeastRest}
        /\ disabled' = TRUE \/ disabled' = disabled
    BY DEF LegAnswered, Answered429
  <1>3. LaterOf(LeastRest, after) \in Nat
    BY <1>1 DEF LaterOf
  <1>4. cooldownUntil' \in Nat
    BY <1>1, <1>2, <1>3
  <1>5. disabled' \in BOOLEAN
    BY <1>1, <1>2
  <1>6. QED
    BY <1>4, <1>5, LegEndsStep DEF LegAnswered

LEMMA PacingStep == PacingInv /\ [PacingNext]_pacingVars => PacingInv' /\ (Paced \/ UNCHANGED pacingVars)
  <1> SUFFICES ASSUME PacingInv, [PacingNext]_pacingVars
               PROVE  PacingInv' /\ (Paced \/ UNCHANGED pacingVars)
    OBVIOUS
  <1>1. CASE UNCHANGED pacingVars
    BY <1>1 DEF pacingVars, pacing, PacingInv, PacingShape, TurnIsKept
  <1>2. CASE ClockTicks
    <2>1. /\ clock' = clock + 1 /\ clock < MaxClock
          /\ UNCHANGED <<leg, wakes, keyless, nextAllowed, cooldownUntil, disabled, reserving, lastAsked>>
      BY <1>2 DEF ClockTicks, pacing
    <2>2. clock' \in 1 .. MaxClock
      BY <2>1, PacingAssumption DEF PacingInv, PacingShape
    <2>3. PacingShape' /\ TurnIsKept'
      BY <2>1, <2>2 DEF PacingInv, PacingShape, TurnIsKept
    <2>4. QED
      BY <2>1, <2>3 DEF PacingInv, Paced
  <1>3. ASSUME NEW l \in Legs, LegCancelled(l)
        PROVE  PacingInv' /\ Paced
    BY <1>3, LegEndsStep DEF LegCancelled, pacing, PacingInv, PacingShape
  <1>4. QED
    BY <1>1, <1>2, <1>3, LegComesStep, LegWakesStep, LegAnsweredStep DEF PacingNext

(* Of two requests to a search service the later one comes an interval     *)
(* after the earlier, and none while the service asked to be left alone,   *)
(* whoever sends them and whoever was cancelled while it waited for its    *)
(* turn (engine/webtools.py 540-660).                                      *)
THEOREM SearchesArePaced == PacingSpec => RequestsArePaced /\ []PacingTypeOK
  <1>1. PacingInv => PacingTypeOK
    BY DEF PacingInv, PacingShape, PacingTypeOK, LegStages
  <1>2. Paced \/ UNCHANGED pacingVars => [Paced]_pacingVars
    OBVIOUS
  <1>3. QED
    BY <1>1, <1>2, PacingInitInv, PacingStep, PTL DEF PacingSpec, RequestsArePaced, Paced

-----------------------------------------------------------------------------
(* Notices.                                                                *)
\* The only step that announces anything speaks of an event the teller has in hand.
LEMMA OnlySpeaksTells ==
  ASSUME NoticesNext
  PROVE  announced' = announced \/ \E p \in teller.now : Speaks(p[1], p[2])
  BY ZenonT(90) DEF NoticesNext, TellerSteps, Sweeps, SweepEnds, RestEnds, TakesUp, Looks, LookFails, SpeakFails, IntervalPasses,
         UserSteers, UserQuiets, UserCancels, UserDeletes, WorkEnds, WorkerAccepts, WorkerReports

(* Whatever the announcer says of a task is true of it when it is said:    *)
(* the event still waits, the task has not stopped, no later instruction   *)
(* was accepted, and nothing routine is said of a task that is to be       *)
(* quiet, although the event was taken up and looked at in earlier steps   *)
(* (task_notices.py).                                                      *)
THEOREM SaidStaysCurrent == NoticesSpec => SaidIsCurrent
  <1> DEFINE Said == \A p \in announced' \ announced :
                       /\ waiting[p[1]] = p[2] /\ task[p[1]].state \notin Stopped
                       /\ p[2].rev >= task[p[1]].accepted /\ (task[p[1]].quiet => ~Routine(p[2]))
  <1>1. NoticesNext => Said
    <2> SUFFICES ASSUME NoticesNext, NEW p \in announced' \ announced
                 PROVE  /\ waiting[p[1]] = p[2] /\ task[p[1]].state \notin Stopped
                        /\ p[2].rev >= task[p[1]].accepted /\ (task[p[1]].quiet => ~Routine(p[2]))
      OBVIOUS
    <2>1. PICK q \in teller.now : Speaks(q[1], q[2])
      BY OnlySpeaksTells
    <2>2. p = <<q[1], q[2]>> /\ StillWaits(q[1], q[2]) /\ StillMaySay(q[1], q[2])
      BY <2>1 DEF Speaks
    <2>3. QED
      BY <2>2 DEF StillWaits, StillMaySay, MaySay
  <1>2. QED
    BY <1>1, PTL DEF NoticesSpec, SaidIsCurrent

-----------------------------------------------------------------------------
(* The mailbox.                                                            *)
MailNames == Ids \cup ({"start"} \X Tasks) \cup ({"accepted"} \X Tasks \X Nat)
Messages == [seq : Nat \ {0}, id : MailNames, task : Tasks, direction : {"main", "subagent"},
             kind : {"start", "steer", "cancel", "question", "accepted"}, text : Texts \cup {NoText}, rev : Nat]

Instructions(t) == {m \in Messages : m.task = t /\ m.direction = "main"}
UpTo(c) == {m \in Messages : m.seq <= c}
Beyond(c) == {m \in Messages : m.seq > c}
SeqsGrow(s) == \A i, j \in DOMAIN s : i < j => s[i].seq < s[j].seq
NamesIn(s) == [i \in DOMAIN s |-> s[i].id]

MailShape ==
  /\ mail \in Seq(Messages) /\ lastSeq \in Nat
  /\ revision \in [Tasks -> Nat] /\ accepted \in [Tasks -> Nat]
  /\ born \subseteq Tasks /\ reading.task \in Tasks \cup {"none"} /\ reading.after \in 0..lastSeq
  /\ reading = [task |-> reading.task, after |-> reading.after, got |-> reading.got]

\* The rows are in the order of their transactions.
Numbered == SeqsGrow(mail) /\ \A m \in Range(mail) : m.seq <= lastSeq

\* Messages are of tasks that are there, and a task is begun once.
MailOwned ==
  /\ \A m \in Range(mail) : Here(m.task)
  /\ \A t \in Tasks : Here(t) => t \in born

\* A reading has what the inbox of its task holds up to the cursor.
ReadSoFar ==
  LET t == reading.task IN
  t # "none" =>
    /\ t \notin born => reading.after = 0
    /\ t \notin born \/ Here(t) => reading.got = NamesIn(Among(mail, Instructions(t) \cap UpTo(reading.after)))

MailInv == MailShape /\ Numbered /\ MailOwned /\ ReadSoFar

LEMMA InOrderAppend ==
  ASSUME NEW s \in Seq(Messages), NEW x \in Messages
  PROVE  SeqsGrow(Append(s, x)) <=> SeqsGrow(s) /\ \A m \in Range(s) : m.seq < x.seq
  <1> DEFINE r == Append(s, x)
  <1> DEFINE n == Len(s)
  <1>1. n \in Nat /\ DOMAIN s = 1..n /\ DOMAIN r = 1..(n + 1) /\ r[n + 1] = x /\ \A i \in 1..n : r[i] = s[i]
    OBVIOUS
  <1> HIDE DEF r, n
  <1>2. ASSUME SeqsGrow(r)
        PROVE  SeqsGrow(s) /\ \A m \in Range(s) : m.seq < x.seq
    BY <1>1, <1>2 DEF SeqsGrow, Range
  <1>3. ASSUME SeqsGrow(s), \A m \in Range(s) : m.seq < x.seq
        PROVE  SeqsGrow(r)
    <2> SUFFICES ASSUME NEW i \in 1..(n + 1), NEW j \in 1..(n + 1), i < j
                 PROVE  r[i].seq < r[j].seq
      BY <1>1 DEF SeqsGrow
    <2>1. i \in 1..n /\ r[i] = s[i] /\ s[i] \in Range(s)
      BY <1>1 DEF Range
    <2>2. CASE j = n + 1
      BY <1>1, <1>3, <2>1, <2>2
    <2>3. CASE j # n + 1
      <3>1. j \in 1..n /\ r[j] = s[j]
        BY <1>1, <2>3
      <3>2. QED
        BY <1>1, <1>3, <2>1, <3>1 DEF SeqsGrow
    <2>4. QED
      BY <2>2, <2>3
  <1>4. QED
    BY <1>2, <1>3 DEF r

LEMMA AmongInOrder ==
  ASSUME NEW s \in Seq(Messages), SeqsGrow(s), NEW S
  PROVE  SeqsGrow(Among(s, S))
  <1> DEFINE T == {r \in Seq(Messages) : SeqsGrow(r) /\ ~SeqsGrow(Among(r, S))}
  <1>1. ASSUME T # {} PROVE FALSE
    <2>1. <<>> \notin T
      BY AmongEmpty DEF SeqsGrow
    <2>2. PICK r \in Seq(Messages), x \in Messages : Append(r, x) \in T /\ r \notin T
      BY <1>1, <2>1, Shortest
    <2>3. SeqsGrow(r) /\ \A m \in Range(r) : m.seq < x.seq
      BY <2>2, InOrderAppend
    <2>4. SeqsGrow(Among(r, S))
      BY <2>2, <2>3
    <2>5. Among(r, S) \in Seq(Messages) /\ Range(Among(r, S)) = Range(r) \cap S
      BY AmongSeq
    <2>6. SeqsGrow(Append(Among(r, S), x))
      BY <2>3, <2>4, <2>5, InOrderAppend
    <2>7. SeqsGrow(Among(Append(r, x), S))
      BY <2>4, <2>6, AmongAppend
    <2>8. QED
      BY <2>2, <2>7
  <1>2. QED
    BY <1>1

\* A cursor cuts rows in order in two.
LEMMA CursorCuts ==
  ASSUME NEW s \in Seq(Messages), SeqsGrow(s), NEW c \in Nat
  PROVE  s = Among(s, UpTo(c)) \o Among(s, Beyond(c))
  <1> DEFINE T == {r \in Seq(Messages) : SeqsGrow(r) /\ r # Among(r, UpTo(c)) \o Among(r, Beyond(c))}
  <1>1. ASSUME T # {} PROVE FALSE
    <2>1. <<>> \notin T
      BY AmongEmpty
    <2>2. PICK r \in Seq(Messages), x \in Messages : Append(r, x) \in T /\ r \notin T
      BY <1>1, <2>1, Shortest
    <2>3. SeqsGrow(r) /\ \A m \in Range(r) : m.seq < x.seq
      BY <2>2, InOrderAppend
    <2>4. PICK a \in Seq(Messages), b \in Seq(Messages) :
            /\ a = Among(r, UpTo(c)) /\ b = Among(r, Beyond(c))
            /\ Range(b) = Range(r) \cap Beyond(c)
      BY AmongSeq
    <2>5. r = a \o b
      BY <2>2, <2>3, <2>4
    <2>6. Among(Append(r, x), UpTo(c)) = IF x \in UpTo(c) THEN Append(a, x) ELSE a
      BY SMTT(40), ZenonT(40), <2>4, AmongAppend
    <2>7. Among(Append(r, x), Beyond(c)) = IF x \in Beyond(c) THEN Append(b, x) ELSE b
      BY <2>4, AmongAppend
    <2>8. x.seq \in Nat
      BY DEF Messages
    <2>9. CASE x.seq > c
      <3>1. Among(Append(r, x), UpTo(c)) = a /\ Among(Append(r, x), Beyond(c)) = Append(b, x)
        <4>1. x \notin UpTo(c) /\ x \in Beyond(c)
          BY <2>8, <2>9 DEF UpTo, Beyond
        <4>2. QED
          BY <2>6, <2>7, <4>1
      <3>2. Append(a \o b, x) = a \o Append(b, x)
        BY SMTT(180)
      <3>3. QED
        BY <2>2, <2>5, <3>1, <3>2
    <2>10. CASE x.seq <= c
      <3>1. Among(Append(r, x), UpTo(c)) = Append(a, x) /\ Among(Append(r, x), Beyond(c)) = b
        <4>1. x \in UpTo(c) /\ x \notin Beyond(c)
          BY <2>8, <2>10 DEF UpTo, Beyond
        <4>2. QED
          BY <2>6, <2>7, <4>1
      <3>2. Range(b) = {}
        <4>1. \A m \in Messages : m.seq \in Nat
          BY DEF Messages
        <4>2. Range(r) \subseteq Messages
          BY DEF Range
        <4>3. QED
          BY SMTT(30), <2>3, <2>4, <4>1, <4>2, <2>8, <2>10 DEF Beyond
      <3>3. b = <<>>
        <4>1. DOMAIN b = {}
          BY <3>2 DEF Range
        <4>2. QED
          BY <2>4, <4>1
      <3>4. Append(a \o b, x) = Append(a, x) \o b
        BY <2>4, <3>3
      <3>5. QED
        BY <2>2, <2>5, <3>1, <3>4
    <2>11. QED
      BY <2>8, <2>9, <2>10
  <1>2. QED
    BY <1>1

LEMMA MainMailIs ==
  ASSUME mail \in Seq(Messages), NEW t
  PROVE  MainMail(t) = Among(mail, Instructions(t))
  <1>1. Range(mail) \subseteq Messages
    BY DEF Range
  <1>2. Range(mail) \cap {m \in MailOf(t) : m.direction = "main"} = Range(mail) \cap Instructions(t)
    BY <1>1 DEF MailOf, Instructions
  <1>3. QED
    BY <1>2, AmongSame DEF MainMail

LEMMA NamesInAppend ==
  ASSUME NEW s \in Seq(Messages), NEW x \in Messages
  PROVE  NamesIn(Append(s, x)) = Append(NamesIn(s), x.id)
  BY DEF NamesIn

LEMMA NamesInConcat ==
  ASSUME NEW s \in Seq(Messages), NEW r \in Seq(Messages)
  PROVE  NamesIn(s \o r) = NamesIn(s) \o NamesIn(r)
  <1> DEFINE q == s \o r
  <1> DEFINE m == Len(s)
  <1> DEFINE n == Len(r)
  <1>1. /\ m \in Nat /\ n \in Nat /\ DOMAIN s = 1..m /\ DOMAIN r = 1..n /\ DOMAIN q = 1..(m + n)
        /\ \A i \in 1..(m + n) : q[i] = IF i <= m THEN s[i] ELSE r[i - m]
    OBVIOUS
  <1> HIDE DEF m, n, q
  <1>2. PICK a \in Seq(MailNames), b \in Seq(MailNames) :
          a = NamesIn(s) /\ Len(a) = m /\ b = NamesIn(r) /\ Len(b) = n
    <2>1. \A x \in Messages : x.id \in MailNames
      BY DEF Messages
    <2>2. NamesIn(s) \in [1..m -> MailNames] /\ NamesIn(r) \in [1..n -> MailNames]
      <3>1. \A i \in 1..m : s[i] \in Messages
        BY <1>1
      <3>2. \A i \in 1..n : r[i] \in Messages
        BY <1>1
      <3>3. QED
        BY <1>1, <2>1, <3>1, <3>2 DEF NamesIn
    <2>3. QED
      BY <1>1, <2>2
  <1>3. /\ a \o b \in Seq(MailNames) /\ Len(a \o b) = m + n
        /\ \A i \in 1..(m + n) : (a \o b)[i] = IF i <= m THEN a[i] ELSE b[i - m]
    BY <1>2, ConcatProperties
  <1>4. \A i \in 1..(m + n) : (a \o b)[i] = q[i].id
    <2> TAKE i \in 1..(m + n)
    <2>1. i <= m => i \in 1..m
      BY <1>1
    <2>2. ~(i <= m) => i - m \in 1..n
      BY <1>1
    <2>3. QED
      BY <1>1, <1>2, <1>3, <2>1, <2>2 DEF NamesIn
  <1>5. NamesIn(q) \in Seq(MailNames) /\ Len(NamesIn(q)) = m + n /\ \A i \in 1..(m + n) : NamesIn(q)[i] = q[i].id
    <2>1. NamesIn(q) = [i \in 1..(m + n) |-> q[i].id]
      BY <1>1 DEF NamesIn
    <2>2. \A i \in 1..(m + n) : q[i].id \in MailNames
      <3>1. \A i \in 1..(m + n) : q[i] \in Messages
        <4>1. q \in Seq(Messages)
          BY DEF q
        <4>2. QED
          BY <4>1, <1>1
      <3>2. QED
        BY <3>1 DEF Messages
    <2>3. PICK k \in Nat : k = m + n
      BY <1>1
    <2>4. NamesIn(q) \in [1..k -> MailNames]
      BY <2>1, <2>2, <2>3
    <2>5. NamesIn(q) \in Seq(MailNames) /\ Len(NamesIn(q)) = k
      BY <2>4
    <2>6. QED
      BY <2>1, <2>3, <2>5
  <1>6. NamesIn(q) = a \o b
    BY <1>1, <1>3, <1>4, <1>5, SeqEqual
  <1>7. QED
    BY <1>2, <1>6 DEF q

\* What an inserted message is to the table and to what is read of it.
RowPut(m, t, id, direction) ==
  /\ mail' = Append(mail, m) /\ m.task = t /\ m.id = id /\ m.direction = direction
  /\ mail' \in Seq(Messages) /\ lastSeq' \in Nat /\ lastSeq < lastSeq'
  /\ Range(mail') = Range(mail) \cup {m} /\ Numbered'
  /\ \A u \in Tasks, c \in 0..lastSeq :
       Among(mail', Instructions(u) \cap UpTo(c)) = Among(mail, Instructions(u) \cap UpTo(c))
  /\ \A u \in Tasks :
       MainMail(u)' = IF u = t /\ direction = "main" THEN Append(MainMail(u), m) ELSE MainMail(u)

\* A message that is inserted is the last of the table.
LEMMA InsertedEffect ==
  ASSUME MailInv, NEW t \in Tasks, NEW id \in MailNames, NEW direction \in {"main", "subagent"},
         NEW sort \in {"start", "steer", "cancel", "question", "accepted"},
         NEW text \in Texts \cup {NoText}, NEW rev \in Nat, Inserted(t, id, direction, sort, text, rev)
  PROVE  \E m \in Messages : RowPut(m, t, id, direction)
  <1> DEFINE m == [seq |-> lastSeq + 1, id |-> id, task |-> t, direction |-> direction,
                   kind |-> sort, text |-> text, rev |-> rev]
  <1>1. m \in Messages
    BY DEF MailInv, MailShape, Messages
  <1>2. mail' = Append(mail, m) /\ lastSeq' = lastSeq + 1
    BY DEF Inserted
  <1>3. m.seq = lastSeq + 1 /\ m.task = t /\ m.id = id /\ m.direction = direction
    OBVIOUS
  <1> HIDE DEF m
  <1>4. mail \in Seq(Messages) /\ lastSeq \in Nat /\ mail' \in Seq(Messages)
    BY <1>1, <1>2 DEF MailInv, MailShape
  <1>5. Range(mail') = Range(mail) \cup {m}
    BY <1>1, <1>2, <1>4, RangeAppend
  <1>6. Numbered'
    <2>1. \A x \in Range(mail) : x \in Messages /\ x.seq \in Nat /\ x.seq <= lastSeq
      <3>1. Range(mail) \subseteq Messages
        BY <1>4 DEF Range
      <3>2. \A x \in Messages : x.seq \in Nat
        BY DEF Messages
      <3>3. QED
        BY <3>1, <3>2 DEF MailInv, Numbered
    <2>2. SeqsGrow(mail)'
      <3>1. \A x \in Range(mail) : x.seq < m.seq
        BY <2>1, <1>3, <1>4
      <3>2. SeqsGrow(Append(mail, m))
        BY <3>1, <1>1, <1>4, InOrderAppend DEF MailInv, Numbered
      <3>3. QED
        BY <3>2, <1>2
    <2>3. \A x \in Range(mail') : x.seq <= lastSeq'
      BY <2>1, <1>2, <1>3, <1>4, <1>5
    <2>4. QED
      BY <2>2, <2>3 DEF Numbered
  <1>7. ASSUME NEW u \in Tasks, NEW c \in 0..lastSeq
        PROVE  Among(mail', Instructions(u) \cap UpTo(c)) = Among(mail, Instructions(u) \cap UpTo(c))
    <2>1. m \notin UpTo(c)
      BY <1>3, <1>4 DEF UpTo
    <2>2. QED
      BY <2>1, <1>1, <1>2, <1>4, AmongAppend
  <1>8. ASSUME NEW u \in Tasks
        PROVE  MainMail(u)' = IF u = t /\ direction = "main" THEN Append(MainMail(u), m) ELSE MainMail(u)
    <2>1. MainMail(u) = Among(mail, Instructions(u))
      BY <1>4, MainMailIs
    <2>2. MainMail(u)' = Among(mail', Instructions(u))
      <3>1. Range(mail') \subseteq Messages
        BY <1>4 DEF Range
      <3>2. Range(mail') \cap {x \in MailOf(u)' : x.direction = "main"} = Range(mail') \cap Instructions(u)
        BY <3>1 DEF MailOf, Instructions
      <3>3. QED
        BY <3>2, <1>4, AmongSame DEF MainMail
    <2>3. m \in Instructions(u) <=> u = t /\ direction = "main"
      BY <1>1, <1>3 DEF Instructions
    <2>4. Among(mail', Instructions(u)) =
            IF m \in Instructions(u) THEN Append(Among(mail, Instructions(u)), m) ELSE Among(mail, Instructions(u))
      BY <1>1, <1>2, <1>4, AmongAppend
    <2>5. QED
      BY <2>1, <2>2, <2>3, <2>4
  <1>9. lastSeq' \in Nat /\ lastSeq < lastSeq'
    BY <1>2, <1>4
  <1>10. QED
    BY <1>1, <1>2, <1>3, <1>4, <1>5, <1>6, <1>7, <1>8, <1>9 DEF RowPut

\* What the steps that insert a message do to the rest of the state.
LEMMA InsertedKeeps ==
  ASSUME MailInv, NEW t \in Tasks, NEW id \in MailNames, NEW direction \in {"main", "subagent"},
         NEW sort \in {"start", "steer", "cancel", "question", "accepted"},
         NEW text \in Texts \cup {NoText}, NEW rev \in Nat, Inserted(t, id, direction, sort, text, rev),
         revision' \in [Tasks -> Nat], accepted' \in [Tasks -> Nat],
         born \subseteq born', born' \subseteq Tasks, Here(t)', UNCHANGED reading,
         \A u \in Tasks : Here(u) => Here(u)',
         \A u \in Tasks : Here(u)' => u \in born' /\ (Here(u) \/ u \notin born)
  PROVE  MailInv'
  <1>0. PICK m \in Messages : RowPut(m, t, id, direction)
    BY InsertedEffect
  <1>1. /\ m.task = t
        /\ mail' \in Seq(Messages) /\ lastSeq' \in Nat /\ lastSeq < lastSeq'
        /\ Range(mail') = Range(mail) \cup {m} /\ Numbered'
        /\ \A u \in Tasks, c \in 0..lastSeq :
             Among(mail', Instructions(u) \cap UpTo(c)) = Among(mail, Instructions(u) \cap UpTo(c))
    BY <1>0 DEF RowPut
  <1>2. lastSeq \in Nat
    BY DEF MailInv, MailShape
  <1>3. MailShape'
    BY <1>1, <1>2 DEF MailInv, MailShape
  <1>4. MailOwned'
    <2>1. \A x \in Range(mail) : x.task \in Tasks
      <3>1. \A x \in Messages : x.task \in Tasks
        BY DEF Messages
      <3>2. QED
        BY <3>1 DEF Range, MailInv, MailShape
    <2>2. QED
      BY <1>1, <2>1 DEF MailInv, MailOwned
  <1>5. ReadSoFar'
    <2> SUFFICES ASSUME reading.task # "none"
                 PROVE  /\ reading.task \notin born' => reading.after = 0
                        /\ reading.task \notin born' \/ Here(reading.task)' =>
                             reading.got = NamesIn(Among(mail', Instructions(reading.task) \cap UpTo(reading.after)))
      BY DEF ReadSoFar
    <2>1. reading.task \in Tasks /\ reading.after \in 0..lastSeq
      BY DEF MailInv, MailShape
    <2>2. reading.task \notin born' => reading.after = 0
      BY DEF MailInv, ReadSoFar
    <2>3. ASSUME reading.task \notin born' \/ Here(reading.task)'
          PROVE  reading.got = NamesIn(Among(mail', Instructions(reading.task) \cap UpTo(reading.after)))
      <3>1. reading.task \notin born \/ Here(reading.task)
        BY <2>1, <2>3
      <3>2. reading.got = NamesIn(Among(mail, Instructions(reading.task) \cap UpTo(reading.after)))
        BY <3>1 DEF MailInv, ReadSoFar
      <3>3. QED
        BY <3>2, <1>1, <2>1
    <2>4. QED
      BY <2>2, <2>3
  <1>6. QED
    BY <1>1, <1>3, <1>4, <1>5 DEF MailInv

\* The abstract inbox of each task, and what a step does to it.
Inboxes == [t \in Tasks |-> NamesIn(MainMail(t))]
InboxesStay == UNCHANGED Inboxes
MessagePut(t, id) ==
  /\ \A u \in Tasks : \A i \in DOMAIN Inboxes[u] : Inboxes[u][i] # id
  /\ Inboxes' = [Inboxes EXCEPT ![t] = Append(@, id)]

LEMMA InsertedPuts ==
  ASSUME MailInv, NEW t \in Tasks, NEW id \in MailNames,
         NEW sort \in {"start", "steer", "cancel", "question", "accepted"},
         NEW text \in Texts \cup {NoText}, NEW rev \in Nat, Inserted(t, id, "main", sort, text, rev)
  PROVE  MessagePut(t, id)
  <1>0. PICK direction \in {"main", "subagent"} : direction = "main"
    OBVIOUS
  <1>1. PICK m \in Messages : RowPut(m, t, id, direction)
    <2>1. Inserted(t, id, direction, sort, text, rev)
      BY <1>0
    <2>2. QED
      BY <2>1, InsertedEffect
  <1>5. m.id = id /\ \A u \in Tasks : MainMail(u)' = IF u = t THEN Append(MainMail(u), m) ELSE MainMail(u)
    BY <1>0, <1>1 DEF RowPut
  <1>2. mail \in Seq(Messages)
    BY DEF MailInv, MailShape
  <1>3. \A u \in Tasks : MainMail(u) \in Seq(Messages) /\ Range(MainMail(u)) \subseteq Range(mail)
    BY <1>2, MainMailIs, AmongSeq
  <1>4. \A u \in Tasks : \A i \in DOMAIN Inboxes[u] : Inboxes[u][i] # id
    <2> TAKE u \in Tasks
    <2> TAKE i \in DOMAIN Inboxes[u]
    <2>1. Inboxes[u] = [j \in DOMAIN MainMail(u) |-> MainMail(u)[j].id]
      BY DEF Inboxes, NamesIn
    <2>2. i \in DOMAIN MainMail(u) /\ Inboxes[u][i] = MainMail(u)[i].id
      BY <2>1
    <2>3. MainMail(u)[i] \in Range(mail)
      BY <2>2, <1>3 DEF Range
    <2>4. QED
      BY <2>2, <2>3 DEF Inserted, IsNewId, MayRepeat
  <1>6. \A u \in Tasks : Inboxes'[u] = IF u = t THEN Append(Inboxes[u], id) ELSE Inboxes[u]
    <2> TAKE u \in Tasks
    <2>1. Inboxes'[u] = NamesIn(MainMail(u)') /\ Inboxes[u] = NamesIn(MainMail(u))
      BY DEF Inboxes, NamesIn
    <2>2. NamesIn(Append(MainMail(u), m)) = Append(NamesIn(MainMail(u)), id)
      BY <1>3, <1>5, NamesInAppend
    <2>3. QED
      BY <2>1, <2>2, <1>5
  <1>7. Inboxes' = [Inboxes EXCEPT ![t] = Append(@, id)]
    BY <1>6 DEF Inboxes
  <1>8. QED
    BY <1>4, <1>7 DEF MessagePut

LEMMA InsertedAside ==
  ASSUME MailInv, NEW t \in Tasks, NEW id \in MailNames,
         NEW sort \in {"start", "steer", "cancel", "question", "accepted"},
         NEW text \in Texts \cup {NoText}, NEW rev \in Nat, Inserted(t, id, "subagent", sort, text, rev)
  PROVE  InboxesStay
  <1>0. "subagent" \in {"main", "subagent"} /\ "subagent" # "main"
    OBVIOUS
  <1>1. \A u \in Tasks : MainMail(u)' = MainMail(u)
    <2>1. PICK direction \in {"main", "subagent"} : direction = "subagent"
      OBVIOUS
    <2>2. PICK m \in Messages : RowPut(m, t, id, direction)
      BY <2>1, InsertedEffect
    <2>3. QED
      BY <1>0, <2>1, <2>2 DEF RowPut
  <1>2. \A u \in Tasks : NamesIn(MainMail(u)') = NamesIn(MainMail(u))
    BY <1>1
  <1>3. QED
    BY <1>2 DEF InboxesStay, Inboxes

\* A cursor at a row takes the rows up to it.
LEMMA CursorTakes ==
  ASSUME NEW s \in Seq(Messages), NEW r \in Seq(Messages), s # <<>>, SeqsGrow(s \o r)
  PROVE  Among(s \o r, UpTo(s[Len(s)].seq)) = s
  <1> DEFINE q == s \o r
  <1> DEFINE n == Len(s)
  <1> DEFINE c == s[n].seq
  <1>1. /\ n \in Nat \ {0} /\ Len(r) \in Nat /\ DOMAIN s = 1..n /\ DOMAIN r = 1..Len(r)
        /\ DOMAIN q = 1..(n + Len(r)) /\ \A i \in 1..n : q[i] = s[i]
        /\ \A i \in 1..Len(r) : q[n + i] = r[i]
    OBVIOUS
  <1>2. \A m \in Messages : m.seq \in Nat
    BY DEF Messages
  <1>3. (\A i \in 1..n : s[i] \in Messages) /\ (\A i \in 1..Len(r) : r[i] \in Messages)
    OBVIOUS
  <1>4. \A i, j \in 1..(n + Len(r)) : i < j => q[i].seq < q[j].seq
    BY <1>1 DEF SeqsGrow
  <1> HIDE DEF q, n
  <1>5. c \in Nat
    BY <1>1, <1>2, <1>3
  <1>6. Range(s) \subseteq UpTo(c)
    <2> SUFFICES ASSUME NEW i \in 1..n PROVE s[i] \in UpTo(c)
      BY <1>1 DEF Range
    <2>1. s[i].seq <= c
      <3>1. CASE i = n
        BY <3>1, <1>5
      <3>2. CASE i # n
        <4>1. i < n /\ i \in 1..(n + Len(r)) /\ n \in 1..(n + Len(r)) /\ n \in 1..n
          BY <1>1, <3>2
        <4>2. q[i].seq < q[n].seq
          BY <4>1, <1>4
        <4>3. s[i].seq < c
          BY <4>1, <4>2, <1>1
        <4>4. s[i].seq \in Nat
          BY <1>2, <1>3
        <4>5. QED
          BY <4>3, <4>4, <1>5
      <3>3. QED
        BY <3>1, <3>2
    <2>2. QED
      BY <2>1, <1>3 DEF UpTo
  <1>7. Range(r) \cap UpTo(c) = {}
    <2> SUFFICES ASSUME NEW i \in 1..Len(r) PROVE r[i] \notin UpTo(c)
      BY <1>1 DEF Range
    <2>1. n < n + i /\ n + i \in 1..(n + Len(r)) /\ n \in 1..(n + Len(r)) /\ n \in 1..n
      BY <1>1
    <2>2. q[n].seq < q[n + i].seq
      BY <2>1, <1>4
    <2>3. c < r[i].seq
      BY <2>1, <2>2, <1>1
    <2>4. r[i].seq \in Nat
      BY <1>2, <1>3
    <2>5. QED
      BY <2>3, <2>4, <1>5 DEF UpTo
  <1>8. Among(s, UpTo(c)) = s /\ Among(r, UpTo(c)) = <<>>
    BY <1>6, <1>7, AmongAll, AmongNone
  <1>9. Among(s \o r, UpTo(c)) = Among(s, UpTo(c)) \o Among(r, UpTo(c))
    BY AmongConcat
  <1>10. s \o <<>> = s
    OBVIOUS
  <1>11. Among(s \o r, UpTo(c)) = s
    BY <1>8, <1>9, <1>10
  <1>12. QED
    BY <1>11 DEF n

LEMMA MailStarts == MailboxInit => MailInv
  <1> SUFFICES ASSUME MailboxInit PROVE MailInv
    OBVIOUS
  <1>1. mail = <<>> /\ Range(mail) = {}
    BY DEF MailboxInit, Range
  <1>2. MailShape
    BY <1>1, MailboxAssumption DEF MailboxInit, MailShape, NoReading
  <1>3. Numbered /\ MailOwned /\ ReadSoFar
    BY <1>1 DEF MailboxInit, Numbered, SeqsGrow, MailOwned, ReadSoFar, Here, NoReading
  <1>4. QED
    BY <1>2, <1>3 DEF MailInv

\* What a step of the mailbox is to the abstract inbox.
InboxStep ==
  \/ InboxesStay /\ UNCHANGED lastRead
  \/ \E t \in Tasks :
       \/ (\E id \in Ids \cup ({"start"} \X Tasks) : MessagePut(t, id)) /\ UNCHANGED lastRead
       \/ Inboxes' = [Inboxes EXCEPT ![t] = <<>>] /\ UNCHANGED lastRead
       \/ lastRead' = <<t, Inboxes[t]>> /\ InboxesStay

LEMMA BegunKeeps ==
  ASSUME MailInv, NEW t \in Tasks, NEW text \in Texts, Begun(t, text)
  PROVE  MailInv' /\ InboxStep
  <1>1. PICK sort \in {"start", "steer", "cancel", "question", "accepted"}, direction \in {"main", "subagent"}, wording \in Texts \cup {NoText},
             id \in MailNames, rev \in Nat :
          /\ sort = "start" /\ direction = "main" /\ wording = text /\ id = <<"start", t>> /\ rev = 1
          /\ id \in Ids \cup ({"start"} \X Tasks)
    <2>1. <<"start", t>> \in {"start"} \X Tasks
      OBVIOUS
    <2>2. PICK id : id = <<"start", t>>
      OBVIOUS
    <2>3. id \in Ids \cup ({"start"} \X Tasks) /\ id \in MailNames
      BY <2>1, <2>2 DEF MailNames
    <2>4. QED
      BY <2>2, <2>3
  <1>2. Inserted(t, id, direction, sort, wording, rev)
    BY <1>1 DEF Begun
  <1>3. /\ revision' \in [Tasks -> Nat] /\ accepted' \in [Tasks -> Nat]
        /\ born \subseteq born' /\ born' \subseteq Tasks /\ Here(t)' /\ UNCHANGED reading /\ UNCHANGED lastRead
        /\ \A u \in Tasks : Here(u) => Here(u)'
        /\ \A u \in Tasks : Here(u)' => u \in born' /\ (Here(u) \/ u \notin born)
    BY DEF Begun, MailInv, MailShape, MailOwned, Here
  <1>4. MailInv'
    BY <1>2, <1>3, InsertedKeeps
  <1>5. Inserted(t, id, "main", sort, wording, rev)
    BY <1>1, <1>2
  <1>6. MessagePut(t, id)
    BY <1>5, InsertedPuts
  <1>7. QED
    BY <1>1, <1>3, <1>4, <1>6 DEF InboxStep

LEMMA SteeredKeeps ==
  ASSUME MailInv, NEW t \in Tasks, NEW name \in Ids, NEW text \in Texts, Steered(t, name, text)
  PROVE  MailInv' /\ InboxStep
  <1>1. revision[t] \in Nat /\ revision' = [revision EXCEPT ![t] = revision[t] + 1]
    BY DEF Steered, MailInv, MailShape
  <1>2. PICK sort \in {"start", "steer", "cancel", "question", "accepted"}, direction \in {"main", "subagent"}, wording \in Texts \cup {NoText},
             id \in MailNames, rev \in Nat :
          /\ sort = "steer" /\ direction = "main" /\ wording = text /\ id = name /\ rev = revision'[t]
          /\ id \in Ids \cup ({"start"} \X Tasks)
    BY <1>1 DEF MailNames, MailInv, MailShape
  <1>3. Inserted(t, id, direction, sort, wording, rev)
    BY <1>2 DEF Steered
  <1>4. /\ revision' \in [Tasks -> Nat] /\ accepted' \in [Tasks -> Nat]
        /\ born \subseteq born' /\ born' \subseteq Tasks /\ Here(t)' /\ UNCHANGED reading /\ UNCHANGED lastRead
        /\ \A u \in Tasks : Here(u) => Here(u)'
        /\ \A u \in Tasks : Here(u)' => u \in born' /\ (Here(u) \/ u \notin born)
    BY <1>1 DEF Steered, MailInv, MailShape, MailOwned, Here
  <1>5. MailInv'
    BY <1>3, <1>4, InsertedKeeps
  <1>6. Inserted(t, id, "main", sort, wording, rev)
    BY <1>2, <1>3
  <1>7. MessagePut(t, id)
    BY <1>6, InsertedPuts
  <1>8. QED
    BY <1>2, <1>4, <1>5, <1>7 DEF InboxStep

LEMMA PostedKeeps ==
  ASSUME MailInv, NEW t \in Tasks, NEW name \in Ids, NEW text \in Texts,
         Posted(t, name, "main", "cancel", text) \/ Posted(t, name, "subagent", "question", text)
  PROVE  MailInv' /\ InboxStep
  <1>1. PICK sort \in {"start", "steer", "cancel", "question", "accepted"}, direction \in {"main", "subagent"} :
          Posted(t, name, direction, sort, text)
    OBVIOUS
  <1>2. PICK wording \in Texts \cup {NoText}, id \in MailNames, rev \in Nat :
          wording = text /\ id = name /\ rev = revision[t] /\ id \in Ids \cup ({"start"} \X Tasks)
    BY DEF MailNames, MailInv, MailShape
  <1>3. Inserted(t, id, direction, sort, wording, rev)
    BY <1>1, <1>2 DEF Posted
  <1>4. /\ revision' \in [Tasks -> Nat] /\ accepted' \in [Tasks -> Nat]
        /\ born \subseteq born' /\ born' \subseteq Tasks /\ Here(t)' /\ UNCHANGED reading /\ UNCHANGED lastRead
        /\ \A u \in Tasks : Here(u) => Here(u)'
        /\ \A u \in Tasks : Here(u)' => u \in born' /\ (Here(u) \/ u \notin born)
    BY <1>1 DEF Posted, MailInv, MailShape, MailOwned, Here
  <1>5. MailInv'
    BY <1>3, <1>4, InsertedKeeps
  <1>6. CASE direction = "main"
    <2>1. Inserted(t, id, "main", sort, wording, rev)
      BY <1>3, <1>6
    <2>2. MessagePut(t, id)
      BY <2>1, InsertedPuts
    <2>3. QED
      BY <1>2, <1>4, <1>5, <2>2 DEF InboxStep
  <1>7. CASE direction = "subagent"
    <2>1. Inserted(t, id, "subagent", sort, wording, rev)
      BY <1>3, <1>7
    <2>2. InboxesStay
      BY <2>1, InsertedAside
    <2>3. QED
      BY <1>4, <1>5, <2>2 DEF InboxStep
  <1>8. QED
    BY <1>6, <1>7

LEMMA AcceptedKeeps ==
  ASSUME MailInv, NEW t \in Tasks, NEW rev \in 1..revision[t], Accepted(t, rev)
  PROVE  MailInv' /\ InboxStep
  <1>0. revision[t] \in Nat /\ rev \in Nat
    BY DEF MailInv, MailShape
  <1>1. PICK sort \in {"start", "steer", "cancel", "question", "accepted"}, direction \in {"main", "subagent"}, wording \in Texts \cup {NoText},
             id \in MailNames :
          sort = "accepted" /\ direction = "subagent" /\ wording = NoText /\ id = <<"accepted", t, rev>>
    BY <1>0 DEF MailNames
  <1>2. Inserted(t, id, direction, sort, wording, rev)
    BY <1>1 DEF Accepted
  <1>3. /\ revision' \in [Tasks -> Nat] /\ accepted' \in [Tasks -> Nat]
        /\ born \subseteq born' /\ born' \subseteq Tasks /\ Here(t)' /\ UNCHANGED reading /\ UNCHANGED lastRead
        /\ \A u \in Tasks : Here(u) => Here(u)'
        /\ \A u \in Tasks : Here(u)' => u \in born' /\ (Here(u) \/ u \notin born)
    BY <1>0 DEF Accepted, MailInv, MailShape, MailOwned, Here
  <1>4. MailInv'
    BY <1>0, <1>2, <1>3, InsertedKeeps
  <1>5. Inserted(t, id, "subagent", sort, wording, rev)
    BY <1>1, <1>2
  <1>6. InboxesStay
    BY <1>0, <1>5, InsertedAside
  <1>7. QED
    BY <1>3, <1>4, <1>6 DEF InboxStep

LEMMA StateSavedKeeps ==
  ASSUME MailInv, NEW t \in Tasks, NEW over, StateSaved(t, over)
  PROVE  MailInv' /\ InboxStep
  <1>1. UNCHANGED <<mail, lastSeq, born, revision, accepted, reading, lastRead>>
    BY DEF StateSaved
  <1>2. MailInv'
    BY <1>1 DEF MailInv, MailShape, Numbered, MailOwned, Here, ReadSoFar
  <1>3. InboxesStay
    BY <1>1 DEF InboxesStay, Inboxes, MainMail, MailOf
  <1>4. QED
    BY <1>1, <1>2, <1>3 DEF InboxStep

\* A task that is deleted takes its rows along, and no other.
LEMMA RemovedRows ==
  ASSUME MailInv, NEW t \in Tasks, Removed(t)
  PROVE  /\ mail' \in Seq(Messages) /\ Range(mail') = Range(mail) \ MailOf(t) /\ SeqsGrow(mail')
         /\ \A u \in Tasks : \A S : u # t => Among(mail', Instructions(u) \cap S) = Among(mail, Instructions(u) \cap S)
         /\ \A S : Among(mail', Instructions(t) \cap S) = <<>>
  <1> DEFINE Rest == Range(mail) \ MailOf(t)
  <1>1. mail \in Seq(Messages) /\ Range(mail) \subseteq Messages /\ SeqsGrow(mail)
    BY DEF MailInv, MailShape, Numbered, Range
  <1>2. mail' = Among(mail, Rest)
    BY DEF Removed
  <1>3. mail' \in Seq(Messages) /\ Range(mail') = Range(mail) \ MailOf(t) /\ SeqsGrow(mail')
    BY <1>1, <1>2, AmongSeq, AmongInOrder
  <1>4. ASSUME NEW u \in Tasks, NEW S, u # t
        PROVE  Among(mail', Instructions(u) \cap S) = Among(mail, Instructions(u) \cap S)
    <2>1. Among(mail', Instructions(u) \cap S) = Among(mail, Rest \cap (Instructions(u) \cap S))
      BY <1>1, <1>2, AmongTwice
    <2>2. Range(mail) \cap (Rest \cap (Instructions(u) \cap S)) = Range(mail) \cap (Instructions(u) \cap S)
      BY <1>4 DEF MailOf, Instructions
    <2>3. QED
      BY <2>1, <2>2, <1>1, AmongSame
  <1>5. ASSUME NEW S
        PROVE  Among(mail', Instructions(t) \cap S) = <<>>
    <2>1. Range(mail') \cap (Instructions(t) \cap S) = {}
      BY <1>3 DEF MailOf, Instructions
    <2>2. QED
      BY <2>1, <1>3, AmongNone
  <1>6. QED
    BY <1>3, <1>4, <1>5

LEMMA RemovedKeeps ==
  ASSUME MailInv, NEW t \in Tasks, Removed(t)
  PROVE  MailInv' /\ InboxStep
  <1>1. /\ mail' \in Seq(Messages) /\ Range(mail') = Range(mail) \ MailOf(t) /\ SeqsGrow(mail')
        /\ \A u \in Tasks : \A S : u # t => Among(mail', Instructions(u) \cap S) = Among(mail, Instructions(u) \cap S)
        /\ \A S : Among(mail', Instructions(t) \cap S) = <<>>
    BY RemovedRows
  <1>2. /\ UNCHANGED <<lastSeq, born, reading, lastRead>> /\ Here(t)
        /\ revision' \in [Tasks -> Nat] /\ accepted' \in [Tasks -> Nat]
        /\ ~Here(t)' /\ \A u \in Tasks : u # t => (Here(u)' <=> Here(u))
    BY DEF Removed, MailInv, MailShape, Here
  <1>3. MailShape' /\ Numbered'
    BY <1>1, <1>2 DEF MailInv, MailShape, Numbered
  <1>4. MailOwned'
    <2>1. \A m \in Range(mail') : m.task \in Tasks /\ m.task # t /\ m \in Range(mail)
      <3>1. \A m \in Messages : m.task \in Tasks
        BY DEF Messages
      <3>2. Range(mail) \subseteq Messages
        BY DEF Range, MailInv, MailShape
      <3>3. QED
        BY <1>1, <3>1, <3>2 DEF MailOf
    <2>2. QED
      BY <2>1, <1>2 DEF MailInv, MailOwned
  <1>5. ReadSoFar'
    <2> DEFINE u == reading.task
    <2> SUFFICES ASSUME u # "none"
                 PROVE  /\ u \notin born => reading.after = 0
                        /\ u \notin born \/ Here(u)' =>
                             reading.got = NamesIn(Among(mail', Instructions(u) \cap UpTo(reading.after)))
      BY <1>2 DEF ReadSoFar
    <2>1. u \in Tasks /\ t \in born
      BY <1>2 DEF MailInv, MailShape, MailOwned
    <2>2. ASSUME u \notin born \/ Here(u)'
          PROVE  reading.got = NamesIn(Among(mail', Instructions(u) \cap UpTo(reading.after)))
      <3>1. u # t /\ (u \notin born \/ Here(u))
        BY <2>1, <2>2, <1>2
      <3>2. reading.got = NamesIn(Among(mail, Instructions(u) \cap UpTo(reading.after)))
        BY <3>1 DEF MailInv, ReadSoFar
      <3>3. QED
        BY <2>1, <3>1, <3>2, <1>1
    <2>3. QED
      BY <2>2 DEF MailInv, ReadSoFar
  <1>6. Inboxes' = [Inboxes EXCEPT ![t] = <<>>]
    <2>1. mail \in Seq(Messages) /\ \A u : Instructions(u) \cap Messages = Instructions(u)
      BY DEF MailInv, MailShape, Instructions
    <2>2. \A u \in Tasks : MainMail(u) = Among(mail, Instructions(u))
      BY <2>1, MainMailIs
    <2>3. \A u \in Tasks : MainMail(u)' = Among(mail', Instructions(u))
      <3> TAKE u \in Tasks
      <3>1. Range(mail') \subseteq Messages
        BY <1>1 DEF Range
      <3>2. Range(mail') \cap {x \in MailOf(u)' : x.direction = "main"} = Range(mail') \cap Instructions(u)
        BY <3>1 DEF MailOf, Instructions
      <3>3. QED
        BY <3>2, <1>1, AmongSame DEF MainMail
    <2>4. \A u \in Tasks : MainMail(u)' = IF u = t THEN <<>> ELSE MainMail(u)
      <3> TAKE u \in Tasks
      <3>1. MainMail(u)' = Among(mail', Instructions(u) \cap Messages) /\ MainMail(u) = Among(mail, Instructions(u) \cap Messages)
        BY <2>1, <2>2, <2>3
      <3>2. CASE u = t
        <4>1. Among(mail', Instructions(t) \cap Messages) = <<>>
          BY <1>1
        <4>2. QED
          BY <3>1, <3>2, <4>1
      <3>3. CASE u # t
        <4>1. Among(mail', Instructions(u) \cap Messages) = Among(mail, Instructions(u) \cap Messages)
          BY <1>1, <3>3
        <4>2. QED
          BY <3>1, <3>3, <4>1
      <3>4. QED
        BY <3>2, <3>3
    <2>5. NamesIn(<<>>) = <<>>
      BY DEF NamesIn
    <2>6. \A u \in Tasks : NamesIn(MainMail(u)') = IF u = t THEN <<>> ELSE NamesIn(MainMail(u))
      BY <2>4, <2>5
    <2>7. QED
      BY <2>6 DEF Inboxes
  <1>7. QED
    BY <1>2, <1>3, <1>4, <1>5, <1>6 DEF MailInv, InboxStep

LEMMA ReadingStartsKeeps ==
  ASSUME MailInv, NEW t \in Tasks, ReadingStarts(t)
  PROVE  MailInv' /\ InboxStep
  <1>1. /\ UNCHANGED <<mail, lastSeq, born, revision, accepted, lastRead>>
        /\ reading' = [task |-> t, after |-> 0, got |-> <<>>]
    BY DEF ReadingStarts, NoReading
  <1>2. \A S : Among(mail, S \cap UpTo(0)) = <<>>
    <2> TAKE S
    <2>1. \A m \in Messages : m.seq \in Nat \ {0}
      BY DEF Messages
    <2>2. UpTo(0) = {}
      BY <2>1 DEF UpTo
    <2>3. Range(mail) \cap (S \cap UpTo(0)) = {}
      BY <2>2
    <2>4. QED
      BY <2>3, AmongNone DEF MailInv, MailShape
  <1>3. NamesIn(<<>>) = <<>>
    BY DEF NamesIn
  <1>4. ReadSoFar'
    BY <1>1, <1>2, <1>3 DEF ReadSoFar
  <1>5. MailShape' /\ Numbered' /\ MailOwned'
    BY <1>1 DEF MailInv, MailShape, Numbered, MailOwned, Here
  <1>6. InboxesStay
    BY <1>1 DEF InboxesStay, Inboxes, MainMail, MailOf
  <1>7. QED
    BY <1>1, <1>4, <1>5, <1>6 DEF MailInv, InboxStep

LEMMA ReadingFailsKeeps ==
  ASSUME MailInv, ReadingFails
  PROVE  MailInv' /\ InboxStep
  <1>1. UNCHANGED <<mail, lastSeq, born, revision, accepted, lastRead>> /\ reading' = NoReading
    BY DEF ReadingFails
  <1>2. MailInv'
    BY <1>1 DEF MailInv, MailShape, Numbered, MailOwned, Here, ReadSoFar, NoReading
  <1>3. InboxesStay
    BY <1>1 DEF InboxesStay, Inboxes, MainMail, MailOf
  <1>4. QED
    BY <1>1, <1>2, <1>3 DEF InboxStep

\* The rows of a reading: those it has, the page, and those behind it.
LEMMA PageCuts ==
  ASSUME MailInv, NEW t \in Tasks, NEW c \in Nat
  PROVE  \E a, p, r \in Seq(Messages) :
           /\ a = Among(mail, Instructions(t) \cap UpTo(c)) /\ p = Page(t, c)
           /\ MainMail(t) = (a \o p) \o r /\ SeqsGrow((a \o p) \o r)
           /\ Len(p) < PageSize => r = <<>>
           /\ Range(p) \subseteq Range(mail)
  <1>1. mail \in Seq(Messages) /\ Range(mail) \subseteq Messages /\ SeqsGrow(mail)
    BY DEF MailInv, MailShape, Numbered, Range
  <1>2. PICK q \in Seq(Messages) : q = MainMail(t) /\ q = Among(mail, Instructions(t)) /\ Range(q) = Range(mail) \cap Instructions(t)
    BY <1>1, MainMailIs, AmongSeq
  <1>3. SeqsGrow(q)
    BY <1>1, <1>2, AmongInOrder
  <1>4. PICK a \in Seq(Messages), b \in Seq(Messages) :
          a = Among(q, UpTo(c)) /\ b = Among(q, Beyond(c)) /\ q = a \o b /\ Range(b) \subseteq Range(mail)
    <2>1. Among(q, UpTo(c)) \in Seq(Messages)
      BY AmongSeq
    <2>2. Among(q, Beyond(c)) \in Seq(Messages) /\ Range(Among(q, Beyond(c))) = Range(q) \cap Beyond(c)
      BY AmongSeq
    <2>3. q = Among(q, UpTo(c)) \o Among(q, Beyond(c))
      BY <1>3, CursorCuts
    <2>4. QED
      BY <1>2, <2>1, <2>2, <2>3
  <1>5. a = Among(mail, Instructions(t) \cap UpTo(c))
    <2>1. Among(Among(mail, Instructions(t)), UpTo(c)) = Among(mail, Instructions(t) \cap UpTo(c))
      BY <1>1, AmongTwice
    <2>2. QED
      BY <1>2, <1>4, <2>1
  <1>6. b = AfterCursor(t, c)
    <2>1. Range(q) \cap {m \in MailOf(t) : m.seq > c} = Range(q) \cap Beyond(c)
      BY <1>1, <1>2 DEF MailOf, Beyond, Instructions
    <2>2. Among(q, {m \in MailOf(t) : m.seq > c}) = Among(q, Beyond(c))
      BY <2>1, AmongSame
    <2>3. QED
      BY <2>2, <1>2, <1>4 DEF AfterCursor
  <1>7. PageSize \in Nat \ {0} /\ Len(b) \in Nat
    BY MailboxAssumption
  <1>8. CASE Len(b) <= PageSize
    <2>1. Page(t, c) = b
      BY <1>6, <1>8 DEF Page
    <2>2. (a \o b) \o <<>> = a \o b /\ <<>> \in Seq(Messages)
      OBVIOUS
    <2>3. PICK r : r = <<>>
      OBVIOUS
    <2>4. r \in Seq(Messages) /\ (a \o b) \o r = a \o b
      BY <2>2, <2>3
    <2>5. QED
      BY <1>2, <1>3, <1>4, <1>5, <2>1, <2>3, <2>4
  <1>9. CASE ~(Len(b) <= PageSize)
    <2>1. PICK p \in Seq(Messages), r \in Seq(Messages) :
            p = SubSeq(b, 1, PageSize) /\ Len(p) = PageSize /\ b = p \o r /\ Range(p) \subseteq Range(b)
      <3>1. PageSize \in Nat /\ PageSize < Len(b)
        BY <1>7, <1>9
      <3>2. QED
        BY <3>1, SplitAt
    <2>2. p = Page(t, c)
      BY <1>6, <1>7, <1>9, <2>1 DEF Page
    <2>3. (a \o p) \o r = a \o (p \o r)
      BY SMTT(30), ConcatAssociative
    <2>4. q = (a \o p) \o r
      BY <1>4, <2>1, <2>3
    <2>5. Range(p) \subseteq Range(mail) /\ ~(Len(p) < PageSize)
      BY <1>4, <1>7, <2>1
    <2>6. SeqsGrow((a \o p) \o r) /\ MainMail(t) = (a \o p) \o r
      BY <1>2, <1>3, <2>4
    <2>7. QED
      BY <1>5, <2>2, <2>5, <2>6
  <1>10. QED
    BY <1>8, <1>9, Zenon

LEMMA PageTakenKeeps ==
  ASSUME MailInv, PageTaken
  PROVE  MailInv' /\ InboxStep
  <1>1. PICK t \in Tasks, c \in Nat : t = reading.task /\ c = reading.after /\ Here(t) /\ t \in born
    BY DEF PageTaken, MailInv, MailShape, MailOwned
  <1>2. PICK a \in Seq(Messages), p \in Seq(Messages), r \in Seq(Messages) :
           /\ a = Among(mail, Instructions(t) \cap UpTo(c)) /\ p = Page(t, c)
           /\ MainMail(t) = (a \o p) \o r /\ SeqsGrow((a \o p) \o r)
           /\ Len(p) < PageSize => r = <<>>
           /\ Range(p) \subseteq Range(mail)
    BY PageCuts
  <1>3. UNCHANGED <<mail, lastSeq, born, revision, accepted>>
    BY DEF PageTaken
  <1>4. reading.got \o NamesIn(p) = NamesIn(a \o p)
    <2>1. reading.got = NamesIn(a)
      BY <1>1, <1>2, MailboxAssumption DEF MailInv, ReadSoFar
    <2>2. QED
      BY <2>1, NamesInConcat
  <1>5. InboxesStay
    BY <1>3 DEF InboxesStay, Inboxes, MainMail, MailOf
  <1>6. Numbered' /\ MailOwned'
    BY <1>3 DEF MailInv, Numbered, MailOwned, Here
  <1>7. CASE Len(p) < PageSize
    <2>1. reading' = NoReading /\ lastRead' = <<t, NamesIn(a \o p)>>
      BY <1>1, <1>2, <1>4, <1>7 DEF PageTaken, NamesIn
    <2>2. MainMail(t) = a \o p
      BY <1>2, <1>7
    <2>3. lastRead' = <<t, Inboxes[t]>>
      BY <2>1, <2>2 DEF Inboxes
    <2>4. MailShape' /\ ReadSoFar'
      BY <1>3, <2>1 DEF MailInv, MailShape, ReadSoFar, NoReading
    <2>5. QED
      BY <1>5, <1>6, <2>3, <2>4 DEF MailInv, InboxStep
  <1>8. CASE ~(Len(p) < PageSize)
    <2>1. reading' = [reading EXCEPT !.after = Last(p).seq, !.got = NamesIn(a \o p)] /\ UNCHANGED lastRead
      BY <1>1, <1>2, <1>4, <1>8 DEF PageTaken, NextCursor, NamesIn
    <2>2. PageSize \in Nat \ {0} /\ Len(p) \in Nat \ {0}
      BY <1>8, MailboxAssumption
    <2>3. PICK n \in Messages : n = Last(p) /\ n \in Range(mail)
      <3>1. Last(p) = p[Len(p)] /\ Len(p) \in DOMAIN p /\ p[Len(p)] \in Messages
        BY <2>2 DEF Last
      <3>2. QED
        BY <3>1, <1>2 DEF Range
    <2>4. n.seq \in 0..lastSeq
      BY <2>3 DEF MailInv, MailShape, Numbered, Messages
    <2>5. reading' = [task |-> t, after |-> n.seq, got |-> NamesIn(a \o p)]
      BY <1>1, <2>1, <2>3 DEF MailInv, MailShape
    <2>6. PICK q \in Seq(Messages) : q = a \o p /\ q # <<>> /\ q[Len(q)] = n
      <3>0. a \o p \in Seq(Messages)
        OBVIOUS
      <3>1. PICK q \in Seq(Messages) : q = a \o p
        BY <3>0
      <3>2. Len(q) = Len(a) + Len(p) /\ q[Len(a) + Len(p)] = p[Len(p)]
        BY <2>2, <3>1
      <3>3. Len(q) # 0
        BY <2>2, <3>2
      <3>4. q # <<>>
        BY <3>3
      <3>5. QED
        BY <2>3, <3>1, <3>2, <3>4 DEF Last
    <2>7. Among(q \o r, UpTo(n.seq)) = q
      BY <1>2, <2>6, CursorTakes
    <2>8. Among(mail, Instructions(t) \cap UpTo(n.seq)) = q
      <3>1. mail \in Seq(Messages)
        BY DEF MailInv, MailShape
      <3>2. Among(mail, Instructions(t)) = q \o r
        BY <1>2, <2>6, <3>1, MainMailIs
      <3>3. Among(Among(mail, Instructions(t)), UpTo(n.seq)) = Among(mail, Instructions(t) \cap UpTo(n.seq))
        BY <3>1, AmongTwice
      <3>4. QED
        BY <2>7, <3>2, <3>3
    <2>9. MailShape'
      BY <1>3, <2>4, <2>5 DEF MailInv, MailShape
    <2>10. ReadSoFar'
      BY <1>1, <1>3, <2>5, <2>6, <2>8 DEF ReadSoFar
    <2>11. QED
      BY <1>5, <1>6, <2>1, <2>9, <2>10 DEF MailInv, InboxStep
  <1>9. QED
    BY <1>7, <1>8

LEMMA MailSteps ==
  ASSUME MailInv, MailboxNext
  PROVE  MailInv' /\ InboxStep
  BY BegunKeeps, SteeredKeeps, PostedKeeps, AcceptedKeeps, StateSavedKeeps, RemovedKeeps, ReadingStartsKeeps,
     PageTakenKeeps, ReadingFailsKeeps DEF MailboxNext

LEMMA MailStays ==
  ASSUME MailInv, [MailboxNext]_mailVars
  PROVE  MailInv' /\ InboxStep
  <1>1. CASE MailboxNext
    BY <1>1, MailSteps
  <1>2. CASE UNCHANGED mailVars
    <2>1. MailInv'
      BY <1>2 DEF MailInv, MailShape, Numbered, MailOwned, Here, ReadSoFar, mailVars
    <2>2. InboxesStay /\ UNCHANGED lastRead
      BY <1>2 DEF InboxesStay, Inboxes, MainMail, MailOf, mailVars
    <2>3. QED
      BY <2>1, <2>2 DEF InboxStep
  <1>3. QED
    BY <1>1, <1>2

(* The instructions that the coordinator reads page by page are those the  *)
(* mailbox held at one moment, in order and once each, whatever is sent,   *)
(* sent again, refused or deleted between two pages: the mailbox is an     *)
(* Inbox (task_store.py message, steer, messages; tasks.py _main_messages).*)
LEMMA MailIsAnInbox == MailboxSpec => Implemented!InboxSpec
  <1>1. MailboxInit => Implemented!InboxInit
    <2> SUFFICES ASSUME MailboxInit PROVE Implemented!InboxInit
      OBVIOUS
    <2>1. \A t \in Tasks : MainMail(t) = <<>>
      BY AmongEmpty DEF MailboxInit, MainMail
    <2>2. NamesIn(<<>>) = <<>>
      BY DEF NamesIn
    <2>3. \A t \in Tasks : NamesIn(MainMail(t)) = <<>>
      BY <2>1, <2>2
    <2>4. lastRead = <<>>
      BY DEF MailboxInit
    <2>5. QED
      BY <2>3, <2>4 DEF NamesIn, Implemented!InboxInit
  <1>2. InboxStep => [Implemented!InboxNext]_(Implemented!inboxVars)
    <2> DEFINE I == [t \in Tasks |-> [i \in DOMAIN MainMail(t) |-> MainMail(t)[i].id]]
    <2>1. Inboxes = I /\ Inboxes' = I'
      BY DEF Inboxes, NamesIn
    <2>2. ASSUME InboxesStay, UNCHANGED lastRead
          PROVE  UNCHANGED Implemented!inboxVars
      <3>1. I' = I
        BY <2>1, <2>2 DEF InboxesStay
      <3>2. QED
        BY <2>2, <3>1 DEF Implemented!inboxVars
    <2>3. ASSUME NEW t \in Tasks, NEW id \in Ids \cup ({"start"} \X Tasks), MessagePut(t, id), UNCHANGED lastRead
          PROVE  Implemented!Put(t, id)
      <3>1. I' = [I EXCEPT ![t] = Append(I[t], id)] /\ \A u \in Tasks : \A i \in DOMAIN I[u] : I[u][i] # id
        BY SMTT(40), ZenonT(40), <2>1, <2>3 DEF MessagePut
      <3>2. QED
        BY <2>3, <3>1 DEF Implemented!Put, Implemented!Used
    <2>4. ASSUME NEW t \in Tasks, Inboxes' = [Inboxes EXCEPT ![t] = <<>>], UNCHANGED lastRead
          PROVE  Implemented!Thrown(t)
      <3>1. I' = [I EXCEPT ![t] = <<>>]
        BY <2>1, <2>4
      <3>2. QED
        BY <2>4, <3>1 DEF Implemented!Thrown
    <2>5. ASSUME NEW t \in Tasks, lastRead' = <<t, Inboxes[t]>>, InboxesStay
          PROVE  Implemented!Read(t)
      <3>1. I' = I /\ lastRead' = <<t, I[t]>>
        BY <2>1, <2>5 DEF InboxesStay
      <3>2. QED
        BY <3>1 DEF Implemented!Read
    <2>6. QED
      BY <2>2, <2>3, <2>4, <2>5 DEF InboxStep, Implemented!InboxNext
  <1>3. MailInv /\ [MailboxNext]_mailVars => MailInv' /\ [Implemented!InboxNext]_(Implemented!inboxVars)
    BY <1>2, MailStays
  <1>4. MailboxInit => MailInv
    BY MailStarts
  <1>5. QED
    BY <1>1, <1>3, <1>4, PTL DEF MailboxSpec, Implemented!InboxSpec

\* The rows that a revision counts.
Steering(t) == {m \in Instructions(t) : m.kind = "steer"}
Steers(t) == Among(mail, Steering(t))
RevisionIsCount(t) == revision[t] = Len(Steers(t)) + 1 /\ \A i \in DOMAIN Steers(t) : Steers(t)[i].rev = i + 1
RevisionsCount == \A t \in Tasks : Here(t) => RevisionIsCount(t)

LEMMA SteersAre ==
  ASSUME mail \in Seq(Messages), NEW t \in Tasks
  PROVE  Among(MainMail(t), {m \in MailOf(t) : m.kind = "steer"}) = Steers(t) /\ Steers(t) \in Seq(Messages)
  <1>1. Range(mail) \subseteq Messages
    BY DEF Range
  <1>2. MainMail(t) = Among(mail, Instructions(t))
    BY MainMailIs
  <1>3. Among(MainMail(t), {m \in MailOf(t) : m.kind = "steer"})
          = Among(mail, Instructions(t) \cap {m \in MailOf(t) : m.kind = "steer"})
    BY <1>2, AmongTwice
  <1>4. Range(mail) \cap (Instructions(t) \cap {m \in MailOf(t) : m.kind = "steer"}) = Range(mail) \cap Steering(t)
    BY <1>1 DEF Steering, Instructions, MailOf
  <1>5. Among(mail, Instructions(t) \cap {m \in MailOf(t) : m.kind = "steer"}) = Steers(t)
    BY <1>4, AmongSame DEF Steers
  <1>6. Steers(t) \in Seq(Messages)
    BY AmongSeq DEF Steers
  <1>7. QED
    BY <1>3, <1>5, <1>6

SteerPut(m, t, direction, sort, rev) ==
  /\ m.rev = rev
  /\ \A u \in Tasks : Steers(u)' = IF u = t /\ direction = "main" /\ sort = "steer"
                                   THEN Append(Steers(u), m) ELSE Steers(u)

LEMMA InsertedSteers ==
  ASSUME MailInv, NEW t \in Tasks, NEW id \in MailNames, NEW direction \in {"main", "subagent"},
         NEW sort \in {"start", "steer", "cancel", "question", "accepted"},
         NEW text \in Texts \cup {NoText}, NEW rev \in Nat, Inserted(t, id, direction, sort, text, rev)
  PROVE  \E m \in Messages : SteerPut(m, t, direction, sort, rev)
  <1> DEFINE m == [seq |-> lastSeq + 1, id |-> id, task |-> t, direction |-> direction,
                   kind |-> sort, text |-> text, rev |-> rev]
  <1>1. m \in Messages
    BY DEF MailInv, MailShape, Messages
  <1>2. mail' = Append(mail, m)
    BY DEF Inserted
  <1>3. m.task = t /\ m.direction = direction /\ m.kind = sort /\ m.rev = rev
    OBVIOUS
  <1> HIDE DEF m
  <1>4. mail \in Seq(Messages)
    BY DEF MailInv, MailShape
  <1>5. ASSUME NEW u \in Tasks
        PROVE  Steers(u)' = IF u = t /\ direction = "main" /\ sort = "steer" THEN Append(Steers(u), m) ELSE Steers(u)
    <2>1. m \in Steering(u) <=> u = t /\ direction = "main" /\ sort = "steer"
      BY <1>1, <1>3 DEF Steering, Instructions
    <2>2. Among(Append(mail, m), Steering(u)) =
            IF m \in Steering(u) THEN Append(Among(mail, Steering(u)), m) ELSE Among(mail, Steering(u))
      BY <1>1, <1>4, AmongAppend
    <2>3. Steers(u)' = Among(Append(mail, m), Steering(u))
      BY <1>2 DEF Steers
    <2>4. QED
      BY <2>1, <2>2, <2>3 DEF Steers
  <1>6. QED
    BY <1>1, <1>3, <1>5 DEF SteerPut

LEMMA OneMoreSteer ==
  ASSUME NEW s \in Seq(Messages), NEW m \in Messages, NEW n \in Nat, n = Len(s) + 1,
         \A i \in DOMAIN s : s[i].rev = i + 1, m.rev = n + 1
  PROVE  /\ n + 1 = Len(Append(s, m)) + 1
         /\ \A i \in DOMAIN Append(s, m) : Append(s, m)[i].rev = i + 1
  OBVIOUS

LEMMA CountKept ==
  ASSUME MailInv, MailboxNext, RevisionsCount
  PROVE  RevisionsCount'
  <1>1. mail \in Seq(Messages) /\ revision \in [Tasks -> Nat] /\ Range(mail) \subseteq Messages
    BY DEF MailInv, MailShape, Range
  <1>2. \A u \in Tasks : Steers(u) \in Seq(Messages)
    BY <1>1, SteersAre
  <1>3. ASSUME NEW t \in Tasks, NEW id \in MailNames, NEW direction \in {"main", "subagent"},
               NEW sort \in {"start", "steer", "cancel", "question", "accepted"},
               NEW text \in Texts \cup {NoText}, NEW rev \in Nat, Inserted(t, id, direction, sort, text, rev),
               ~(direction = "main" /\ sort = "steer"), UNCHANGED revision
        PROVE  RevisionsCount'
    <2>0. PICK m \in Messages : SteerPut(m, t, direction, sort, rev)
      BY <1>3, InsertedSteers
    <2>1. \A u \in Tasks : Steers(u)' = Steers(u)
      BY <1>3, <2>0 DEF SteerPut
    <2>2. QED
      BY <1>3, <2>1 DEF RevisionsCount, RevisionIsCount, Here
  <1>4. ASSUME NEW t \in Tasks, NEW text \in Texts, Begun(t, text) PROVE RevisionsCount'
    <2>1. PICK sort \in {"start", "steer", "cancel", "question", "accepted"}, direction \in {"main", "subagent"}, wording \in Texts \cup {NoText},
               id \in MailNames, rev \in Nat :
            /\ sort = "start" /\ direction = "main" /\ wording = text /\ id = <<"start", t>> /\ rev = 1
      <3>1. <<"start", t>> \in {"start"} \X Tasks
        OBVIOUS
      <3>2. PICK id : id = <<"start", t>>
        OBVIOUS
      <3>3. id \in MailNames
        BY <3>1, <3>2 DEF MailNames
      <3>4. QED
        BY <3>2, <3>3
    <2>2. Inserted(t, id, direction, sort, wording, rev)
      BY <1>4, <2>1 DEF Begun
    <2>3. \A u \in Tasks : Steers(u)' = Steers(u)
      <3>1. sort # "steer"
        BY <2>1
      <3>2. PICK m \in Messages : SteerPut(m, t, direction, sort, rev)
        BY <2>2, InsertedSteers
      <3>3. QED
        BY <3>1, <3>2 DEF SteerPut
    <2>4. Steers(t) = <<>>
      <3>1. Range(mail) \cap Steering(t) = {}
        BY <1>1, <1>4 DEF Begun, MailInv, MailOwned, Steering, Instructions
      <3>2. QED
        BY <1>1, <3>1, AmongNone DEF Steers
    <2>5. RevisionIsCount(t)'
      <3>1. revision'[t] = 1 /\ Steers(t)' = <<>>
        BY <1>1, <1>4, <2>3, <2>4 DEF Begun
      <3>2. QED
        BY <3>1 DEF RevisionIsCount
    <2>6. \A u \in Tasks \ {t} : revision'[u] = revision[u] /\ (Here(u)' <=> Here(u))
      BY <1>1, <1>4 DEF Begun, Here
    <2>7. QED
      BY <2>3, <2>5, <2>6 DEF RevisionsCount, RevisionIsCount
  <1>5. ASSUME NEW t \in Tasks, NEW name \in Ids, NEW text \in Texts, Steered(t, name, text) PROVE RevisionsCount'
    <2>1. revision[t] \in Nat /\ revision'[t] = revision[t] + 1 /\ Here(t)
          /\ \A u \in Tasks \ {t} : revision'[u] = revision[u] /\ (Here(u)' <=> Here(u))
      BY <1>1, <1>5 DEF Steered, Here
    <2>2. PICK sort \in {"start", "steer", "cancel", "question", "accepted"}, direction \in {"main", "subagent"}, wording \in Texts \cup {NoText},
               id \in MailNames, rev \in Nat :
            sort = "steer" /\ direction = "main" /\ wording = text /\ id = name /\ rev = revision[t] + 1
      BY <2>1 DEF MailNames
    <2>3. Inserted(t, id, direction, sort, wording, rev)
      BY <1>5, <2>1, <2>2 DEF Steered
    <2>4. PICK m \in Messages : SteerPut(m, t, direction, sort, rev)
      BY <2>3, InsertedSteers
    <2>5. m.rev = rev /\ Steers(t)' = Append(Steers(t), m) /\ \A u \in Tasks \ {t} : Steers(u)' = Steers(u)
      BY <2>2, <2>4 DEF SteerPut
    <2>6. RevisionIsCount(t)'
      <3>1. revision[t] = Len(Steers(t)) + 1 /\ \A i \in DOMAIN Steers(t) : Steers(t)[i].rev = i + 1
        BY <2>1 DEF RevisionsCount, RevisionIsCount
      <3>2. /\ revision[t] + 1 = Len(Append(Steers(t), m)) + 1
            /\ \A i \in DOMAIN Append(Steers(t), m) : Append(Steers(t), m)[i].rev = i + 1
        BY <1>2, <2>1, <2>2, <2>5, <3>1, OneMoreSteer
      <3>3. QED
        BY <2>1, <2>5, <3>2 DEF RevisionIsCount
    <2>7. QED
      BY <2>1, <2>5, <2>6 DEF RevisionsCount, RevisionIsCount
  <1>6. ASSUME NEW t \in Tasks, NEW name \in Ids, NEW text \in Texts,
               Posted(t, name, "main", "cancel", text) \/ Posted(t, name, "subagent", "question", text)
        PROVE  RevisionsCount'
    <2>1. PICK sort \in {"start", "steer", "cancel", "question", "accepted"}, direction \in {"main", "subagent"} :
            Posted(t, name, direction, sort, text) /\ sort # "steer"
      BY <1>6
    <2>2. PICK wording \in Texts \cup {NoText}, id \in MailNames, rev \in Nat :
            wording = text /\ id = name /\ rev = revision[t]
      BY <1>1 DEF MailNames
    <2>3. Inserted(t, id, direction, sort, wording, rev) /\ UNCHANGED revision
      BY <2>1, <2>2 DEF Posted
    <2>4. QED
      BY <1>3, <2>1, <2>3
  <1>7. ASSUME NEW t \in Tasks, NEW rev \in 1..revision[t], Accepted(t, rev) PROVE RevisionsCount'
    <2>0. rev \in Nat
      BY <1>1
    <2>1. PICK sort \in {"start", "steer", "cancel", "question", "accepted"}, direction \in {"main", "subagent"}, wording \in Texts \cup {NoText},
               id \in MailNames :
            sort = "accepted" /\ direction = "subagent" /\ wording = NoText /\ id = <<"accepted", t, rev>>
      BY <2>0 DEF MailNames
    <2>2. Inserted(t, id, direction, sort, wording, rev) /\ UNCHANGED revision /\ sort # "steer"
      BY <1>7, <2>1 DEF Accepted
    <2>3. QED
      BY <1>3, <2>0, <2>2
  <1>8. ASSUME NEW t \in Tasks, Removed(t) PROVE RevisionsCount'
    <2>1. \A u \in Tasks : \A S : u # t => Among(mail', Instructions(u) \cap S) = Among(mail, Instructions(u) \cap S)
      BY <1>8, RemovedRows
    <2>2. \A u \in Tasks \ {t} : Steers(u)' = Steers(u)
      <3> TAKE u \in Tasks \ {t}
      <3>1. Steering(u) = Instructions(u) \cap {m \in Messages : m.kind = "steer"}
        BY DEF Steering, Instructions
      <3>2. QED
        BY <2>1, <3>1 DEF Steers
    <2>3. ~Here(t)' /\ \A u \in Tasks \ {t} : revision'[u] = revision[u] /\ (Here(u)' <=> Here(u))
      BY <1>1, <1>8 DEF Removed, Here
    <2>4. QED
      BY <2>2, <2>3 DEF RevisionsCount, RevisionIsCount
  <1>9. ASSUME UNCHANGED <<mail, revision>> PROVE RevisionsCount'
    BY <1>9 DEF RevisionsCount, RevisionIsCount, Steers, Here
  <1>10. QED
    BY <1>4, <1>5, <1>6, <1>7, <1>8, <1>9 DEF MailboxNext, StateSaved, ReadingStarts, PageTaken, ReadingFails

(* The mailbox keeps its word: the instructions that are read are those of *)
(* one moment, and the revision of a task counts the instructions that     *)
(* were saved with it, a refused one changing nothing (task_store.py       *)
(* steer).                                                                 *)
THEOREM MailKeepsItsWord == MailboxSpec => ReadsAnInbox
  <1>1. MailboxInit => MailInv /\ RevisionsCount
    BY MailStarts DEF MailboxInit, RevisionsCount, Here
  <1>2. MailInv /\ RevisionsCount /\ [MailboxNext]_mailVars => (MailInv /\ RevisionsCount)'
    <2>1. ASSUME MailInv, RevisionsCount, UNCHANGED mailVars PROVE RevisionsCount'
      BY <2>1 DEF RevisionsCount, RevisionIsCount, Steers, Here, mailVars
    <2>2. QED
      BY <2>1, CountKept, MailStays
  <1>3. MailInv /\ RevisionsCount => RevisionsAreSteers
    <2> SUFFICES ASSUME MailInv, RevisionsCount, NEW t \in Tasks, Here(t)
                 PROVE  LET steers == Among(MainMail(t), {m \in MailOf(t) : m.kind = "steer"}) IN
                        /\ revision[t] = Len(steers) + 1
                        /\ \A i \in DOMAIN steers : steers[i].rev = i + 1
      BY DEF RevisionsAreSteers
    <2>1. Among(MainMail(t), {m \in MailOf(t) : m.kind = "steer"}) = Steers(t)
      BY SteersAre DEF MailInv, MailShape
    <2>2. QED
      BY <2>1 DEF RevisionsCount, RevisionIsCount
  <1>4. MailboxSpec => []RevisionsAreSteers
    BY <1>1, <1>2, <1>3, PTL DEF MailboxSpec
  <1>5. QED
    BY <1>4, MailIsAnInbox, PTL DEF ReadsAnInbox

-----------------------------------------------------------------------------
(* The files of a task.                                                    *)
FilesStages == {"rest", "list", "copy", "write", "deliver", "copying", "note", "restore", "restored", "unlink", "gone"}

FilesShape ==
  /\ workspace \in [FileNames -> Contents \cup {Absence}]
  /\ archive \in [FileIds -> Contents \cup {Absence, Torn}]
  /\ rows \in Seq(Row) /\ opened \in Seq(Row) /\ Len(rows) + Len(opened) <= MaxFiles
  /\ downloads \in [FileNames \X (1..MaxCopies) -> Contents \cup {Absence, Torn, "users"}]
  /\ keeper.at \in FilesStages
  /\ keeper = [at |-> keeper.at, todo |-> keeper.todo, got |-> keeper.got, name |-> keeper.name,
               touched |-> keeper.touched, copy |-> keeper.copy]
  /\ nextId \in 1..(MaxFiles + 1)

IdsOf(table) == {table[i].id : i \in DOMAIN table}

\* An artifact has one row.
RowsDiffer ==
  /\ \A i, j \in DOMAIN rows : rows[i].id = rows[j].id => i = j
  /\ \A i, j \in DOMAIN opened : opened[i].id = opened[j].id => i = j
  /\ IdsOf(rows) \cap IdsOf(opened) = {}
  /\ \A k \in IdsOf(rows) \cup IdsOf(opened) : k < nextId

Filed(r) == r.content \in Contents /\ archive[r.id] = r.content
Delivered(r) == r.copy # 0 => downloads[<<r.name, r.copy>>] = r.content

\* The files of the rows are there, those of the open transaction among them.
RowsFiled ==
  /\ \A i \in DOMAIN rows : Filed(rows[i]) /\ Delivered(rows[i])
  /\ \A i \in DOMAIN opened : Filed(opened[i]) /\ opened[i].copy = 0
  /\ opened # <<>> => KeeperAt("write")

\* The versions of a name are numbered, before and after the commit.
Versions(mine) == \A i \in DOMAIN mine : mine[i].version = i /\ (i > 1 => mine[i].content # mine[i - 1].content)
VersionsSound == \A n \in FileNames : Versions(OfName(rows, n)) /\ Versions(OfName(rows \o opened, n))

\* What the keeper has in its hands is what its stage is about.
CopyPlace == <<rows[RowOf(keeper.name)].name, keeper.copy>>
InHand ==
  /\ keeper.at \in {"list", "copy"} => \A n \in keeper.todo : n \in FileNames /\ workspace[n] \in Contents
  /\ KeeperAt("copy") => keeper.name \in keeper.todo
  /\ keeper.at \in {"list", "copy", "write"} => keeper.got \subseteq FileNames \X Contents
  /\ keeper.at \in {"deliver", "copying", "note"} => keeper.todo \subseteq IdsOf(rows)
  /\ keeper.at \in {"copying", "note"} => keeper.name \in IdsOf(rows) /\ keeper.copy \in 1..MaxCopies
  /\ KeeperAt("copying") => downloads[CopyPlace] = Torn
  /\ KeeperAt("note") => downloads[CopyPlace] = rows[RowOf(keeper.name)].content
  /\ KeeperAt("restore") => keeper.todo \subseteq ToRestore
  /\ KeeperAt("restore") => \A n \in FileNames : HasRow(rows, n) =>
                              Latest(rows, n).id \in keeper.todo \/ workspace[n] = Latest(rows, n).content
  /\ RestoredIsLatest

FilesInv == FilesShape /\ RowsDiffer /\ RowsFiled /\ VersionsSound /\ InHand

\* The step keeps to the user's files.
UsersKept == \A p \in DOMAIN downloads : downloads[p] \notin {Absence, Torn} => downloads'[p] = downloads[p]

-----------------------------------------------------------------------------
RowsNamed(n) == {r \in Row : r.name = n}

LEMMA NamedRows ==
  ASSUME NEW table \in Seq(Row), NEW n
  PROVE  /\ OfName(table, n) = Among(table, RowsNamed(n)) /\ OfName(table, n) \in Seq(Row)
         /\ Range(OfName(table, n)) = Range(table) \cap RowsNamed(n) /\ Len(OfName(table, n)) <= Len(table)
  <1>1. Range(table) \subseteq Row
    BY DEF Range
  <1>2. Range(table) \cap {r \in Range(table) : r.name = n} = Range(table) \cap RowsNamed(n)
    BY <1>1 DEF RowsNamed
  <1>3. Among(table, {r \in Range(table) : r.name = n}) = Among(table, RowsNamed(n))
    BY <1>2, AmongSame
  <1>4. Among(table, RowsNamed(n)) \in Seq(Row) /\ Range(Among(table, RowsNamed(n))) = Range(table) \cap RowsNamed(n)
    BY AmongSeq
  <1>5. Len(Among(table, RowsNamed(n))) <= Len(table)
    BY AmongShorter
  <1>6. QED
    BY <1>3, <1>4, <1>5 DEF OfName

LEMMA LatestIs ==
  ASSUME NEW table \in Seq(Row), NEW n, HasRow(table, n)
  PROVE  /\ Len(OfName(table, n)) \in DOMAIN OfName(table, n)
         /\ Latest(table, n) = OfName(table, n)[Len(OfName(table, n))]
         /\ \E k \in DOMAIN table : Latest(table, n) = table[k] /\ table[k].name = n
  <1>1. PICK mine \in Seq(Row) : mine = OfName(table, n) /\ Range(mine) = Range(table) \cap RowsNamed(n)
    BY NamedRows
  <1>2. mine # <<>>
    BY <1>1 DEF HasRow
  <1>3. Len(mine) \in DOMAIN mine /\ Last(mine) = mine[Len(mine)]
    BY <1>2 DEF Last
  <1>4. Last(mine) \in Range(table) \cap RowsNamed(n)
    BY <1>1, <1>3 DEF Range
  <1>5. QED
    BY <1>1, <1>3, <1>4 DEF Latest, Range, RowsNamed

LEMMA RowIsOne ==
  ASSUME FilesShape, RowsDiffer, NEW id \in IdsOf(rows)
  PROVE  /\ RowOf(id) \in DOMAIN rows /\ rows[RowOf(id)].id = id /\ rows[RowOf(id)] \in Row
         /\ \A i \in DOMAIN rows : rows[i].id = id => i = RowOf(id)
  <1>1. RowOf(id) \in DOMAIN rows /\ rows[RowOf(id)].id = id
    BY DEF IdsOf, RowOf
  <1>2. rows[RowOf(id)] \in Row
    BY <1>1 DEF FilesShape
  <1>3. QED
    BY <1>1, <1>2 DEF RowsDiffer

LEMMA ToRestoreIs ==
  ASSUME FilesShape, RowsDiffer
  PROVE  /\ ToRestore \subseteq IdsOf(rows)
         /\ \A n \in FileNames : HasRow(rows, n) => Latest(rows, n).id \in ToRestore
         /\ \A id \in ToRestore : LET r == rows[RowOf(id)] IN r = Latest(rows, r.name) /\ HasRow(rows, r.name)
  <1>1. rows \in Seq(Row)
    BY DEF FilesShape
  <1>2. ToRestore \subseteq IdsOf(rows)
    BY DEF ToRestore, IdsOf
  <1>3. ASSUME NEW n \in FileNames, HasRow(rows, n)
        PROVE  Latest(rows, n).id \in ToRestore
    <2>1. PICK k \in DOMAIN rows : Latest(rows, n) = rows[k] /\ rows[k].name = n
      BY <1>1, <1>3, LatestIs
    <2>2. rows[k] = Latest(rows, rows[k].name)
      BY <2>1
    <2>3. QED
      BY <2>1, <2>2 DEF ToRestore
  <1>4. ASSUME NEW id \in ToRestore
        PROVE  rows[RowOf(id)] = Latest(rows, rows[RowOf(id)].name) /\ HasRow(rows, rows[RowOf(id)].name)
    <2>1. PICK j \in DOMAIN rows : rows[j] = Latest(rows, rows[j].name) /\ rows[j].id = id
      BY DEF ToRestore
    <2>2. j = RowOf(id)
      BY <1>2, <2>1, RowIsOne
    <2>3. HasRow(rows, rows[j].name)
      <3>1. PICK mine \in Seq(Row) : mine = OfName(rows, rows[j].name) /\ Range(mine) = Range(rows) \cap RowsNamed(rows[j].name)
        BY <1>1, NamedRows
      <3>2. rows[j] \in Range(mine)
        BY <1>1, <2>1, <3>1 DEF Range, RowsNamed
      <3>3. QED
        BY <3>1, <3>2 DEF HasRow, Range
    <2>4. QED
      BY <2>1, <2>2, <2>3
  <1>5. QED
    BY <1>2, <1>3, <1>4

-----------------------------------------------------------------------------
\* What depends on the rows alone.
LEMMA RowsStay ==
  ASSUME UNCHANGED rows
  PROVE  /\ \A id : RowOf(id)' = RowOf(id)
         /\ IdsOf(rows') = IdsOf(rows) /\ ToRestore' = ToRestore
         /\ \A n : HasRow(rows', n) = HasRow(rows, n) /\ Latest(rows', n) = Latest(rows, n)
  BY DEF RowOf, ToRestore

\* Steps that neither write to the archive nor to the table.
LEMMA TableStays ==
  ASSUME FilesInv, UNCHANGED <<archive, rows, opened, downloads, nextId>>, opened # <<>> => KeeperAt("write")'
  PROVE  RowsDiffer' /\ RowsFiled' /\ VersionsSound' /\ UsersKept
  <1>1. RowsDiffer' /\ VersionsSound'
    BY SMTT(30) DEF FilesInv, RowsDiffer, VersionsSound, IdsOf
  <1>2. RowsFiled'
    BY DEF FilesInv, RowsFiled, Filed, Delivered
  <1>3. QED
    BY <1>1, <1>2 DEF UsersKept

LEMMA WorkerWritesKeeps ==
  ASSUME FilesInv, NEW n \in FileNames, NEW c \in Contents, WorkerWrites(n, c)
  PROVE  FilesInv' /\ UsersKept
  <1>1. /\ UNCHANGED <<archive, rows, opened, downloads, nextId>> /\ workspace' = [workspace EXCEPT ![n] = c]
        /\ keeper' = [at |-> keeper.at, todo |-> keeper.todo, got |-> keeper.got, name |-> keeper.name,
                      touched |-> keeper'.touched, copy |-> keeper.copy]
        /\ keeper.at \in {"rest", "list", "copy"} /\ keeper'.at = keeper.at /\ keeper'.todo = keeper.todo
        /\ keeper'.got = keeper.got /\ keeper'.name = keeper.name /\ keeper'.copy = keeper.copy
    BY DEF WorkerWrites, FilesInv, FilesShape
  <1>2. FilesShape'
    BY <1>1 DEF FilesInv, FilesShape
  <1>3. opened = <<>>
    BY <1>1 DEF FilesInv, RowsFiled, KeeperAt
  <1>4. InHand'
    BY <1>1 DEF FilesInv, FilesShape, InHand, KeeperAt, RestoredIsLatest
  <1>5. QED
    BY <1>1, <1>2, <1>3, <1>4, TableStays DEF FilesInv

\* Steps of an export that read.
LEMMA ReadingKeeps ==
  ASSUME FilesInv, ExportStarts \/ (\E n \in FileNames : ReadStarts(n)) \/ ReadEnds \/ ReadsDone
  PROVE  FilesInv' /\ UsersKept
  <1>1. /\ UNCHANGED <<workspace, archive, rows, opened, downloads, nextId>>
        /\ keeper.at \in {"rest", "list", "copy"}
    BY DEF ExportStarts, ReadStarts, ReadEnds, ReadsDone, KeeperAt
  <1>2. opened = <<>>
    BY <1>1 DEF FilesInv, RowsFiled, KeeperAt
  <1>3. ASSUME ExportStarts PROVE FilesShape' /\ InHand'
    <2>1. keeper' = [at |-> "list", todo |-> {n \in FileNames : workspace[n] # Absence}, got |-> {}, name |-> 0,
                     touched |-> FALSE, copy |-> 0]
      BY <1>3 DEF ExportStarts, Resting
    <2>2. QED
      BY <1>1, <2>1 DEF FilesInv, FilesShape, FilesStages, InHand, KeeperAt, RestoredIsLatest
  <1>4. ASSUME NEW n \in FileNames, ReadStarts(n) PROVE FilesShape' /\ InHand'
    <2>1. /\ keeper' = [at |-> "copy", todo |-> keeper.todo, got |-> keeper.got, name |-> n, touched |-> FALSE,
                        copy |-> keeper.copy]
          /\ keeper.at = "list" /\ n \in keeper.todo
      BY <1>4 DEF ReadStarts, FilesInv, FilesShape, KeeperAt
    <2>2. QED
      BY <1>1, <2>1 DEF FilesInv, FilesShape, FilesStages, InHand, KeeperAt, RestoredIsLatest
  <1>5. ASSUME ReadEnds PROVE FilesShape' /\ InHand'
    <2>1. keeper.at = "copy" /\ keeper.name \in keeper.todo /\ keeper.name \in FileNames /\ workspace[keeper.name] \in Contents
      BY <1>5 DEF ReadEnds, FilesInv, InHand, KeeperAt
    <2>2. CASE ReadIsStable
      <3>1. keeper' = [at |-> "list", todo |-> keeper.todo \ {keeper.name},
                       got |-> keeper.got \cup {<<keeper.name, workspace[keeper.name]>>}, name |-> 0,
                       touched |-> keeper.touched, copy |-> keeper.copy]
        BY <1>5, <2>2 DEF ReadEnds, FilesInv, FilesShape, ReadIsStable, WhatIsRead
      <3>2. keeper'.got \subseteq FileNames \X Contents
        BY <2>1, <3>1 DEF FilesInv, InHand
      <3>3. QED
        BY <1>1, <2>1, <3>1, <3>2 DEF FilesInv, FilesShape, FilesStages, InHand, KeeperAt, RestoredIsLatest
    <2>3. CASE ~ReadIsStable
      <3>1. keeper' = [at |-> "rest", todo |-> {}, got |-> {}, name |-> 0, touched |-> FALSE, copy |-> 0]
        BY <1>5, <2>3 DEF ReadEnds, Resting
      <3>2. QED
        BY <1>1, <3>1 DEF FilesInv, FilesShape, FilesStages, InHand, KeeperAt, RestoredIsLatest
    <2>4. QED
      BY <2>2, <2>3
  <1>6. ASSUME ReadsDone PROVE FilesShape' /\ InHand'
    <2>1. /\ keeper' = [at |-> "write", todo |-> keeper.todo, got |-> keeper.got, name |-> keeper.name,
                        touched |-> keeper.touched, copy |-> keeper.copy]
          /\ keeper.at = "list"
      BY <1>6 DEF ReadsDone, FilesInv, FilesShape, KeeperAt
    <2>2. QED
      BY <1>1, <2>1 DEF FilesInv, FilesShape, FilesStages, InHand, KeeperAt, RestoredIsLatest
  <1>7. QED
    BY <1>1, <1>2, <1>3, <1>4, <1>5, <1>6, TableStays DEF FilesInv

\* The end of a delivery and of a row that has no name left.
LEMMA DeliveryKeeps ==
  ASSUME FilesInv, (\E id \in FileIds : NoNameLeft(id)) \/ DeliveryEnds
  PROVE  FilesInv' /\ UsersKept
  <1>1. UNCHANGED <<workspace, archive, rows, opened, downloads, nextId>> /\ keeper.at = "deliver"
    BY DEF NoNameLeft, DeliveryEnds, KeeperAt
  <1>2. opened = <<>>
    BY <1>1 DEF FilesInv, RowsFiled, KeeperAt
  <1>3. ASSUME NEW id \in FileIds, NoNameLeft(id) PROVE FilesShape' /\ InHand'
    <2>1. keeper' = [at |-> "deliver", todo |-> keeper.todo \ {id}, got |-> keeper.got, name |-> keeper.name,
                     touched |-> keeper.touched, copy |-> keeper.copy]
      BY <1>1, <1>3 DEF NoNameLeft, FilesInv, FilesShape
    <2>2. QED
      BY <1>1, <2>1 DEF FilesInv, FilesShape, FilesStages, InHand, KeeperAt, RestoredIsLatest
  <1>4. ASSUME DeliveryEnds PROVE FilesShape' /\ InHand'
    <2>1. keeper' = [at |-> "rest", todo |-> {}, got |-> {}, name |-> 0, touched |-> FALSE, copy |-> 0]
      BY <1>4 DEF DeliveryEnds, Resting
    <2>2. QED
      BY <1>1, <2>1 DEF FilesInv, FilesShape, FilesStages, InHand, KeeperAt, RestoredIsLatest
  <1>5. QED
    BY <1>1, <1>2, <1>3, <1>4, TableStays DEF FilesInv

\* The latest version of each name goes back, and no other.
LEMMA FileRestoredKeeps ==
  ASSUME FilesInv, NEW id \in FileIds, FileRestored(id)
  PROVE  FilesInv' /\ UsersKept
  <1>1. /\ UNCHANGED <<archive, rows, opened, downloads, nextId>> /\ keeper.at = "restore" /\ id \in keeper.todo
        /\ keeper' = [at |-> "restore", todo |-> keeper.todo \ {id}, got |-> keeper.got, name |-> keeper.name,
                      touched |-> keeper.touched, copy |-> keeper.copy]
        /\ workspace' = [workspace EXCEPT ![rows[RowOf(id)].name] = archive[id]]
    BY DEF FileRestored, KeeperAt, FilesInv, FilesShape
  <1>2. opened = <<>>
    BY <1>1 DEF FilesInv, RowsFiled, KeeperAt
  <1>3. keeper.todo \subseteq ToRestore
    BY <1>1 DEF FilesInv, InHand, KeeperAt
  <1>4. PICK r \in Row : /\ r = rows[RowOf(id)] /\ r.id = id /\ RowOf(id) \in DOMAIN rows
                         /\ r = Latest(rows, r.name) /\ HasRow(rows, r.name)
    BY <1>1, <1>3, RowIsOne, ToRestoreIs DEF FilesInv
  <1>5. archive[id] = r.content /\ r.content \in Contents /\ r.name \in FileNames
    BY <1>4 DEF FilesInv, RowsFiled, Filed, Row
  <1>6. FilesShape'
    BY <1>1, <1>4, <1>5 DEF FilesInv, FilesShape
  <1>7. ASSUME NEW n \in FileNames, HasRow(rows, n)
        PROVE  Latest(rows, n).id \in keeper'.todo \/ workspace'[n] = Latest(rows, n).content
    <2>1. Latest(rows, n).id \in keeper.todo \/ workspace[n] = Latest(rows, n).content
      BY <1>1, <1>7 DEF FilesInv, InHand, KeeperAt
    <2>2. CASE n = r.name
      BY <1>1, <1>4, <1>5, <2>2 DEF FilesInv, FilesShape
    <2>3. CASE n # r.name
      <3>1. rows \in Seq(Row)
        BY DEF FilesInv, FilesShape
      <3>2. PICK k \in DOMAIN rows : Latest(rows, n) = rows[k] /\ rows[k].name = n
        BY <1>7, <3>1, LatestIs
      <3>3. Latest(rows, n).id # id
        BY <1>4, <2>3, <3>2 DEF FilesInv, RowsDiffer
      <3>4. workspace'[n] = workspace[n]
        BY <1>1, <1>4, <2>3 DEF FilesInv, FilesShape
      <3>5. QED
        BY <1>1, <2>1, <3>3, <3>4
    <2>4. QED
      BY <2>2, <2>3
  <1>8. InHand'
    <2>1. ToRestore' = ToRestore
      BY <1>1, RowsStay
    <2>2. keeper'.todo \subseteq ToRestore'
      BY <1>1, <1>3, <2>1
    <2>3. \A n \in FileNames : HasRow(rows', n) => Latest(rows', n).id \in keeper'.todo \/ workspace'[n] = Latest(rows', n).content
      BY <1>1, <1>7
    <2>4. keeper'.at = "restore"
      BY <1>1
    <2>5. QED
      BY <2>2, <2>3, <2>4 DEF InHand, KeeperAt, RestoredIsLatest
  <1>9. QED
    BY <1>1, <1>2, <1>6, <1>8, TableStays DEF FilesInv

\* The other steps of a restore.
LEMMA RestoreKeeps ==
  ASSUME FilesInv, RestoreStarts \/ RestoreEnds \/ RestoreFails \/ WorkResumes
  PROVE  FilesInv' /\ UsersKept
  <1>1. UNCHANGED <<workspace, archive, rows, opened, downloads, nextId>> /\ keeper.at \in {"rest", "restore", "restored"}
    BY DEF RestoreStarts, RestoreEnds, RestoreFails, WorkResumes, KeeperAt
  <1>2. opened = <<>>
    BY <1>1 DEF FilesInv, RowsFiled, KeeperAt
  <1>3. ToRestore' = ToRestore
    BY <1>1, RowsStay
  <1>4. ASSUME RestoreStarts PROVE FilesShape' /\ InHand'
    <2>1. keeper' = [at |-> "restore", todo |-> ToRestore, got |-> {}, name |-> 0, touched |-> FALSE, copy |-> 0]
      BY <1>4 DEF RestoreStarts, Resting
    <2>2. \A n \in FileNames : HasRow(rows, n) => Latest(rows, n).id \in ToRestore
      BY ToRestoreIs DEF FilesInv
    <2>3. keeper'.todo \subseteq ToRestore'
      BY <1>3, <2>1
    <2>4. \A n \in FileNames : HasRow(rows', n) => Latest(rows', n).id \in keeper'.todo
      BY <1>1, <2>1, <2>2
    <2>5. FilesShape'
      BY <1>1, <2>1 DEF FilesInv, FilesShape, FilesStages
    <2>6. keeper'.at = "restore"
      BY <2>1
    <2>7. QED
      BY <2>3, <2>4, <2>5, <2>6 DEF InHand, KeeperAt, RestoredIsLatest
  <1>5. ASSUME RestoreEnds PROVE FilesShape' /\ InHand'
    <2>1. /\ keeper' = [at |-> "restored", todo |-> {}, got |-> {}, name |-> 0, touched |-> FALSE, copy |-> 0]
          /\ keeper.at = "restore" /\ keeper.todo = {}
      BY <1>5 DEF RestoreEnds, Resting, KeeperAt
    <2>2. \A n \in FileNames : HasRow(rows', n) => workspace'[n] = Latest(rows', n).content
      BY <1>1, <2>1 DEF FilesInv, InHand, KeeperAt
    <2>3. FilesShape'
      BY <1>1, <2>1 DEF FilesInv, FilesShape, FilesStages
    <2>4. keeper'.at = "restored"
      BY <2>1
    <2>5. QED
      BY <2>2, <2>3, <2>4 DEF InHand, KeeperAt, RestoredIsLatest
  <1>6. ASSUME RestoreFails \/ WorkResumes PROVE FilesShape' /\ InHand'
    <2>1. keeper' = [at |-> "rest", todo |-> {}, got |-> {}, name |-> 0, touched |-> FALSE, copy |-> 0]
      BY <1>6 DEF RestoreFails, WorkResumes, Resting
    <2>2. QED
      BY <1>1, <2>1 DEF FilesInv, FilesShape, FilesStages, InHand, KeeperAt, RestoredIsLatest
  <1>7. QED
    BY <1>1, <1>2, <1>4, <1>5, <1>6, TableStays DEF FilesInv

-----------------------------------------------------------------------------
LEMMA IdsAppend ==
  ASSUME NEW s \in Seq(Row), NEW x \in Row
  PROVE  IdsOf(Append(s, x)) = IdsOf(s) \cup {x.id}
  <1> DEFINE r == Append(s, x)
  <1> DEFINE n == Len(s)
  <1>1. n \in Nat /\ DOMAIN s = 1..n /\ DOMAIN r = 1..(n + 1) /\ r[n + 1] = x /\ \A i \in 1..n : r[i] = s[i]
    OBVIOUS
  <1> HIDE DEF r, n
  <1>2. 1..(n + 1) = (1..n) \cup {n + 1}
    BY <1>1
  <1>3. IdsOf(r) = IdsOf(s) \cup {x.id}
    BY <1>1, <1>2 DEF IdsOf
  <1>4. QED
    BY <1>3 DEF r

LEMMA OfNameAppend ==
  ASSUME NEW table \in Seq(Row), NEW x \in Row, NEW n
  PROVE  OfName(Append(table, x), n) = IF x.name = n THEN Append(OfName(table, n), x) ELSE OfName(table, n)
  <1>1. Append(table, x) \in Seq(Row)
    OBVIOUS
  <1>2. OfName(Append(table, x), n) = Among(Append(table, x), RowsNamed(n))
    BY <1>1, NamedRows
  <1>3. OfName(table, n) = Among(table, RowsNamed(n))
    BY NamedRows
  <1>4. Among(Append(table, x), RowsNamed(n)) =
          IF x \in RowsNamed(n) THEN Append(Among(table, RowsNamed(n)), x) ELSE Among(table, RowsNamed(n))
    BY AmongAppend
  <1>5. x \in RowsNamed(n) <=> x.name = n
    BY DEF RowsNamed
  <1>6. QED
    BY <1>2, <1>3, <1>4, <1>5

LEMMA OfNameConcat ==
  ASSUME NEW s \in Seq(Row), NEW r \in Seq(Row), NEW n
  PROVE  OfName(s \o r, n) = OfName(s, n) \o OfName(r, n)
  <1>1. s \o r \in Seq(Row)
    OBVIOUS
  <1>2. OfName(s \o r, n) = Among(s \o r, RowsNamed(n))
    BY <1>1, NamedRows
  <1>3. OfName(s, n) = Among(s, RowsNamed(n)) /\ OfName(r, n) = Among(r, RowsNamed(n))
    BY NamedRows
  <1>4. Among(s \o r, RowsNamed(n)) = Among(s, RowsNamed(n)) \o Among(r, RowsNamed(n))
    BY AmongConcat
  <1>5. QED
    BY <1>2, <1>3, <1>4

LEMMA VersionsAppend ==
  ASSUME NEW mine \in Seq(Row), NEW x \in Row, Versions(mine), x.version = Len(mine) + 1,
         mine # <<>> => mine[Len(mine)].content # x.content
  PROVE  Versions(Append(mine, x))
  <1> DEFINE r == Append(mine, x)
  <1> DEFINE n == Len(mine)
  <1>1. /\ n \in Nat /\ DOMAIN mine = 1..n /\ DOMAIN r = 1..(n + 1) /\ r[n + 1] = x /\ \A i \in 1..n : r[i] = mine[i]
        /\ n > 0 => mine # <<>>
    OBVIOUS
  <1> HIDE DEF r, n
  <1>2. ASSUME NEW i \in 1..(n + 1)
        PROVE  r[i].version = i /\ (i > 1 => r[i].content # r[i - 1].content)
    <2>1. CASE i = n + 1
      <3>1. r[i].version = i
        BY <1>1, <2>1 DEF n
      <3>2. ASSUME i > 1 PROVE r[i].content # r[i - 1].content
        <4>1. n \in 1..n /\ i - 1 = n /\ n > 0
          BY <1>1, <2>1, <3>2
        <4>2. mine[n].content # x.content
          BY <1>1, <4>1 DEF n
        <4>3. QED
          BY <1>1, <2>1, <4>1, <4>2
      <3>3. QED
        BY <3>1, <3>2
    <2>2. CASE i # n + 1
      <3>1. i \in 1..n /\ (i > 1 => i - 1 \in 1..n)
        BY <1>1, <2>2
      <3>2. mine[i].version = i /\ (i > 1 => mine[i].content # mine[i - 1].content)
        BY <1>1, <3>1 DEF Versions
      <3>3. QED
        BY <1>1, <3>1, <3>2
    <2>3. QED
      BY <2>1, <2>2
  <1>3. Versions(r)
    BY <1>1, <1>2 DEF Versions
  <1>4. QED
    BY <1>3 DEF r

LEMMA VersionWrittenKeeps ==
  ASSUME FilesInv, NEW n \in FileNames, NEW c \in Contents \cup {Torn}, VersionWritten(n, c)
  PROVE  FilesInv' /\ UsersKept
  <1> DEFINE mine == OfName(rows, n)
  <1>0. rows \in Seq(Row) /\ opened \in Seq(Row) /\ nextId \in Nat /\ archive \in [FileIds -> Contents \cup {Absence, Torn}] /\ MaxFiles \in Nat
    BY FilesAssumption DEF FilesInv, FilesShape
  <1>1. /\ UNCHANGED <<workspace, rows, downloads, keeper, faults>> /\ keeper.at = "write" /\ c \in Contents
        /\ nextId \in FileIds /\ nextId' = nextId + 1 /\ Len(rows) + Len(opened) < MaxFiles
        /\ archive' = [archive EXCEPT ![nextId] = c]
        /\ OfName(opened, n) = <<>> /\ (HasRow(rows, n) => Latest(rows, n).content # c)
    <2>1. c \in Contents /\ keeper.at = "write"
      BY DEF VersionWritten, FilesInv, InHand, KeeperAt
    <2>2. nextId \in FileIds
      BY <1>0 DEF VersionWritten, FilesInv, FilesShape, FileIds
    <2>3. ~HasRow(opened, n) /\ IsNew(n, c)
      BY DEF VersionWritten, Unwritten
    <2>4. QED
      BY <2>1, <2>2, <2>3 DEF VersionWritten, IsNew, HasRow
  <1>2. mine \in Seq(Row) /\ Len(mine) <= Len(rows) /\ Versions(mine)
    BY <1>0, NamedRows DEF FilesInv, VersionsSound
  <1>3. NextVersion(n) = Len(mine) + 1 /\ (mine # <<>> => mine[Len(mine)].content # c)
    <2>1. CASE mine = <<>>
      BY <2>1 DEF NextVersion, HasRow
    <2>2. CASE mine # <<>>
      <3>1. HasRow(rows, n)
        BY <2>2 DEF HasRow
      <3>2. Len(mine) \in DOMAIN mine /\ Latest(rows, n) = mine[Len(mine)]
        BY <1>0, <3>1, LatestIs
      <3>3. mine[Len(mine)].version = Len(mine)
        BY <1>2, <3>2 DEF Versions
      <3>4. QED
        BY <1>1, <3>1, <3>2, <3>3 DEF NextVersion
    <2>3. QED
      BY <2>1, <2>2
  <1>4. PICK x \in Row : /\ opened' = Append(opened, x) /\ x.id = nextId /\ x.name = n /\ x.version = Len(mine) + 1
                         /\ x.content = c /\ x.copy = 0
    <2> DEFINE y == [id |-> nextId, name |-> n, version |-> NextVersion(n), content |-> c, copy |-> 0]
    <2>1. Len(mine) + 1 \in FileIds
      <3>1. Len(mine) \in Nat /\ Len(rows) \in Nat /\ Len(opened) \in Nat
        BY <1>0, <1>2
      <3>2. QED
        BY <1>0, <1>1, <1>2, <3>1 DEF FileIds
    <2>2. y \in Row
      BY <1>1, <1>3, <2>1, FilesAssumption DEF Row
    <2>3. opened' = Append(opened, y)
      BY DEF VersionWritten
    <2>4. QED
      BY <1>3, <2>2, <2>3
  <1>5. FilesShape'
    <2>1. opened' \in Seq(Row) /\ Len(opened') = Len(opened) + 1
      BY <1>0, <1>4
    <2>2. Len(rows) \in Nat /\ Len(opened) \in Nat
      BY <1>0
    <2>3. nextId' \in 1..(MaxFiles + 1)
      BY <1>0, <1>1 DEF FileIds
    <2>4. archive' \in [FileIds -> Contents \cup {Absence, Torn}]
      BY <1>0, <1>1
    <2>5. QED
      BY <1>0, <1>1, <2>1, <2>2, <2>3, <2>4 DEF FilesInv, FilesShape
  <1>6. \A k \in IdsOf(rows) \cup IdsOf(opened) : k \in FileIds /\ k < nextId
    <2>1. IdsOf(rows) \cup IdsOf(opened) \subseteq FileIds
      <3>1. \A r \in Row : r.id \in FileIds
        BY DEF Row
      <3>2. (\A i \in DOMAIN rows : rows[i] \in Row) /\ (\A i \in DOMAIN opened : opened[i] \in Row)
        BY <1>0
      <3>3. QED
        BY <3>1, <3>2 DEF IdsOf
    <2>2. QED
      BY <2>1 DEF FilesInv, RowsDiffer
  <1>7. PICK k \in Nat : /\ k = Len(opened) /\ DOMAIN opened = 1..k /\ DOMAIN opened' = 1..(k + 1) /\ opened'[k + 1] = x
                         /\ \A i \in 1..k : opened'[i] = opened[i] /\ opened[i] \in Row
    <2>1. PICK s \in Seq(Row) : s = opened /\ opened' = Append(s, x)
      BY <1>0, <1>4
    <2>2. Len(s) \in Nat /\ DOMAIN s = 1..Len(s) /\ DOMAIN opened' = 1..(Len(s) + 1) /\ opened'[Len(s) + 1] = x
      BY <2>1
    <2>3. \A i \in 1..Len(s) : opened'[i] = s[i] /\ s[i] \in Row
      BY <2>1
    <2>4. QED
      BY <2>1, <2>2, <2>3
  <1>8. RowsDiffer'
    <2>1. IdsOf(opened') = IdsOf(opened) \cup {nextId}
      BY <1>0, <1>4, IdsAppend
    <2>2. \A j \in IdsOf(rows) \cup IdsOf(opened') : j < nextId'
      BY <1>0, <1>1, <1>6, <2>1 DEF FileIds
    <2>3. nextId \notin IdsOf(rows) \cup IdsOf(opened)
      BY <1>0, <1>6
    <2>4. \A i, j \in DOMAIN opened' : opened'[i].id = opened'[j].id => i = j
      <3>1. \A i \in 1..k : opened[i].id \in IdsOf(opened)
        BY <1>7 DEF IdsOf
      <3>2. \A i \in 1..k : opened'[i].id # nextId
        BY <1>7, <2>3, <3>1
      <3>3. \A i, j \in 1..k : opened[i].id = opened[j].id => i = j
        BY <1>7 DEF FilesInv, RowsDiffer
      <3>4. \A i \in 1..(k + 1) : i \in 1..k \/ i = k + 1
        OBVIOUS
      <3>5. QED
        BY <1>4, <1>7, <3>2, <3>3, <3>4
    <2>5. QED
      BY <1>1, <2>1, <2>2, <2>3, <2>4 DEF FilesInv, RowsDiffer
  <1>9. RowsFiled'
    <2>1. \A r \in Row : r.id \in IdsOf(rows) \cup IdsOf(opened) /\ Filed(r) => Filed(r)'
      BY <1>0, <1>1, <1>6 DEF Filed
    <2>2. \A i \in DOMAIN rows : rows[i] \in Row /\ rows[i].id \in IdsOf(rows) /\ Filed(rows[i]) /\ Delivered(rows[i])
      BY <1>0 DEF IdsOf, FilesInv, RowsFiled
    <2>3. \A i \in 1..k : opened[i] \in Row /\ opened[i].id \in IdsOf(opened) /\ Filed(opened[i]) /\ opened[i].copy = 0
      BY <1>7 DEF IdsOf, FilesInv, RowsFiled
    <2>4. Filed(x)'
      BY <1>0, <1>1, <1>4 DEF Filed
    <2>5. \A i \in DOMAIN rows' : Filed(rows[i])' /\ Delivered(rows[i])'
      BY <1>1, <2>1, <2>2 DEF Filed, Delivered
    <2>6. \A i \in 1..k : opened'[i].content \in Contents /\ archive'[opened'[i].id] = opened'[i].content /\ opened'[i].copy = 0
      <3>1. \A r \in Row : r.id \in IdsOf(rows) \cup IdsOf(opened) /\ Filed(r)
                             => r.content \in Contents /\ archive'[r.id] = r.content
        BY <2>1 DEF Filed
      <3>2. QED
        BY <1>7, <2>3, <3>1
    <2>7. \A i \in 1..(k + 1) : i \in 1..k \/ i = k + 1
      OBVIOUS
    <2>8. \A i \in DOMAIN opened' :
            opened'[i].content \in Contents /\ archive'[opened'[i].id] = opened'[i].content /\ opened'[i].copy = 0
      BY <1>4, <1>7, <2>4, <2>6, <2>7 DEF Filed
    <2>9. QED
      BY <1>1, <2>5, <2>8 DEF RowsFiled, KeeperAt, Filed, Delivered
  <1>10. VersionsSound'
    <2>1. PICK all \in Seq(Row) : all = rows \o opened
      <3>1. rows \o opened \in Seq(Row)
        BY <1>0
      <3>2. QED
        BY <3>1
    <2>2. rows' \o opened' = Append(all, x)
      <3>1. PICK a \in Seq(Row), b \in Seq(Row) : a = rows /\ b = opened
        BY <1>0
      <3>2. a \o Append(b, x) = Append(a \o b, x)
        BY SMTT(60)
      <3>3. QED
        BY <1>1, <1>4, <2>1, <3>1, <3>2
    <2>3. \A m \in FileNames : OfName(rows' \o opened', m) = IF n = m THEN Append(OfName(all, m), x) ELSE OfName(all, m)
      BY <1>4, <2>2, OfNameAppend
    <2>4. OfName(all, n) = mine
      <3>1. OfName(all, n) = OfName(rows, n) \o OfName(opened, n)
        BY <1>0, <2>1, OfNameConcat
      <3>2. mine \o <<>> = mine
        BY <1>2
      <3>3. QED
        BY <1>1, <3>1, <3>2
    <2>5. Versions(Append(mine, x))
      BY <1>2, <1>3, <1>4, VersionsAppend
    <2>6. \A m \in FileNames : Versions(OfName(rows, m)) /\ Versions(OfName(all, m))
      BY <2>1 DEF FilesInv, VersionsSound
    <2>7. \A m \in FileNames : Versions(OfName(rows' \o opened', m))
      BY <2>3, <2>4, <2>5, <2>6
    <2>8. QED
      BY <1>1, <2>6, <2>7 DEF VersionsSound
  <1>11. InHand'
    BY <1>1 DEF FilesInv, InHand, KeeperAt, RestoredIsLatest
  <1>12. QED
    BY <1>1, <1>5, <1>8, <1>9, <1>10, <1>11 DEF FilesInv, UsersKept

LEMMA CommittedKeeps ==
  ASSUME FilesInv, Committed
  PROVE  FilesInv' /\ UsersKept
  <1>1. /\ UNCHANGED <<workspace, archive, downloads, nextId>> /\ keeper.at = "write"
        /\ rows' = rows \o opened /\ opened' = <<>>
        /\ keeper' = [at |-> "deliver", todo |-> Chosen(rows') \cap NotCopied(rows'), got |-> {}, name |-> 0,
                      touched |-> FALSE, copy |-> 0]
    BY DEF Committed, Resting, KeeperAt
  <1>2. PICK a \in Seq(Row), b \in Seq(Row), m \in Nat, n \in Nat :
          /\ a = rows /\ b = opened /\ m = Len(a) /\ n = Len(b) /\ m + n <= MaxFiles
          /\ DOMAIN a = 1..m /\ DOMAIN b = 1..n
    BY SMTT(90) DEF FilesInv, FilesShape
  <1>3. PICK q \in Seq(Row) : /\ q = a \o b /\ DOMAIN q = 1..(m + n) /\ Len(q) = m + n
                              /\ \A i \in 1..(m + n) : q[i] = IF i <= m THEN a[i] ELSE b[i - m]
    <2>1. a \o b \in Seq(Row) /\ Len(a \o b) = m + n /\ DOMAIN (a \o b) = 1..(m + n)
      BY <1>2
    <2>2. \A i \in 1..(m + n) : (a \o b)[i] = IF i <= m THEN a[i] ELSE b[i - m]
      BY <1>2, ConcatProperties
    <2>3. QED
      BY <2>1, <2>2
  <1>4. \A i \in 1..(m + n) : (i <= m => i \in 1..m) /\ (~(i <= m) => i - m \in 1..n)
    BY <1>2
  <1>5. rows' = q /\ q \o <<>> = q /\ MaxFiles \in Nat
    BY <1>1, <1>2, <1>3, FilesAssumption
  <1>6. FilesShape'
    <2>1. opened' \in Seq(Row) /\ Len(opened') = 0
      BY <1>1
    <2>2. QED
      BY <1>1, <1>2, <1>3, <1>5, <2>1 DEF FilesInv, FilesShape, FilesStages
  <1>7. \A i \in 1..(m + n) : q[i].id \in IdsOf(rows) \cup IdsOf(opened)
    BY <1>2, <1>3, <1>4 DEF IdsOf
  <1>. /\ \A i \in 1..m, j \in 1..m : a[i].id = a[j].id => i = j
       /\ \A i \in 1..n, j \in 1..n : b[i].id = b[j].id => i = j
    <2>1. /\ \A i, j \in DOMAIN rows : rows[i].id = rows[j].id => i = j
          /\ \A i, j \in DOMAIN opened : opened[i].id = opened[j].id => i = j
      BY DEF FilesInv, RowsDiffer
    <2>2. /\ \A i, j \in DOMAIN a : a[i].id = a[j].id => i = j
          /\ \A i, j \in DOMAIN b : b[i].id = b[j].id => i = j
      BY <1>2, <2>1
    <2>3. DOMAIN a = 1..m /\ DOMAIN b = 1..n
      BY <1>2
    <2>4. QED
      BY <2>2, <2>3
  <1>8. RowsDiffer'
    <2>1. ASSUME NEW i \in 1..(m + n), NEW j \in 1..(m + n), q[i].id = q[j].id
          PROVE  i = j
      <3>1. CASE i <= m /\ j <= m
        <4>1. q[i] = a[i] /\ q[j] = a[j] /\ i \in 1..m /\ j \in 1..m
          BY <1>3, <1>4, <3>1
        <4>2. QED
          BY <2>1, <4>1
      <3>2. CASE ~(i <= m) /\ ~(j <= m)
        <4>1. q[i] = b[i - m] /\ q[j] = b[j - m] /\ i - m \in 1..n /\ j - m \in 1..n
          BY <1>3, <1>4, <3>2
        <4>2. i - m = j - m
          BY <2>1, <4>1
        <4>3. QED
          BY <1>2, <4>2
      <3>3. CASE i <= m /\ ~(j <= m)
        <4>1. q[i] = a[i] /\ q[j] = b[j - m] /\ i \in 1..m /\ j - m \in 1..n
          BY <1>3, <1>4, <3>3
        <4>2. q[i].id \in IdsOf(rows) /\ q[j].id \in IdsOf(opened)
          BY <1>2, <4>1 DEF IdsOf
        <4>3. QED
          BY <2>1, <4>2 DEF FilesInv, RowsDiffer
      <3>4. CASE ~(i <= m) /\ j <= m
        <4>1. q[j] = a[j] /\ q[i] = b[i - m] /\ j \in 1..m /\ i - m \in 1..n
          BY <1>3, <1>4, <3>4
        <4>2. q[j].id \in IdsOf(rows) /\ q[i].id \in IdsOf(opened)
          BY <1>2, <4>1 DEF IdsOf
        <4>3. QED
          BY <2>1, <4>2 DEF FilesInv, RowsDiffer
      <3>5. QED
        BY <3>1, <3>2, <3>3, <3>4
    <2>2. IdsOf(rows') \subseteq IdsOf(rows) \cup IdsOf(opened) /\ IdsOf(opened') = {} /\ DOMAIN opened' = {}
      <3>1. DOMAIN opened' = {}
        BY <1>1
      <3>2. IdsOf(opened') = {}
        BY <3>1 DEF IdsOf
      <3>3. IdsOf(rows') \subseteq IdsOf(rows) \cup IdsOf(opened)
        <4>1. IdsOf(rows') = {q[i].id : i \in 1..(m + n)}
          BY <1>3, <1>5 DEF IdsOf
        <4>2. QED
          BY <1>7, <4>1
      <3>4. QED
        BY <3>1, <3>2, <3>3
    <2>3. QED
      BY <1>1, <1>3, <1>5, <2>1, <2>2 DEF FilesInv, RowsDiffer
  <1>9. RowsFiled'
    <2>1. \A i \in 1..m : Filed(a[i]) /\ Delivered(a[i])
      BY <1>2 DEF FilesInv, RowsFiled
    <2>2. \A i \in 1..n : Filed(b[i]) /\ Delivered(b[i])
      BY <1>2 DEF FilesInv, RowsFiled, Delivered
    <2>3. \A i \in 1..(m + n) : Filed(q[i]) /\ Delivered(q[i])
      BY <1>3, <1>4, <2>1, <2>2
    <2>4. DOMAIN opened' = {}
      BY <1>1
    <2>5. QED
      BY <1>1, <1>3, <1>5, <2>3, <2>4 DEF RowsFiled, Filed, Delivered
  <1>10. VersionsSound'
    BY <1>1, <1>2, <1>3, <1>5 DEF FilesInv, VersionsSound
  <1>11. InHand'
    <2>1. keeper'.at = "deliver" /\ keeper'.todo \subseteq IdsOf(rows')
      BY <1>1 DEF NotCopied, IdsOf
    <2>2. QED
      BY <2>1 DEF InHand, KeeperAt, RestoredIsLatest
  <1>12. QED
    BY <1>1, <1>6, <1>8, <1>9, <1>10, <1>11 DEF FilesInv, UsersKept

LEMMA ExportFailsKeeps ==
  ASSUME FilesInv, ExportFails
  PROVE  FilesInv' /\ UsersKept
  <1>1. /\ UNCHANGED <<workspace, rows, downloads, nextId>> /\ archive' = WithoutOpened /\ opened' = <<>>
        /\ keeper' = [at |-> "rest", todo |-> {}, got |-> {}, name |-> 0, touched |-> FALSE, copy |-> 0]
    BY DEF ExportFails, RolledBack, Resting
  <1>2. \A i \in FileIds : archive'[i] = IF i \in IdsOf(opened) THEN Absence ELSE archive[i]
    BY <1>1 DEF WithoutOpened, IdsOf
  <1>3. archive' \in [FileIds -> Contents \cup {Absence, Torn}]
    BY <1>1 DEF WithoutOpened, FilesInv, FilesShape
  <1>4. opened' \in Seq(Row) /\ Len(opened') = 0 /\ DOMAIN opened' = {}
    BY <1>1
  <1>5. FilesShape'
    <2>1. Len(rows) \in Nat /\ Len(opened) \in Nat /\ MaxFiles \in Nat
      BY FilesAssumption DEF FilesInv, FilesShape
    <2>2. QED
      BY <1>1, <1>3, <1>4, <2>1 DEF FilesInv, FilesShape, FilesStages
  <1>6. RowsDiffer'
    BY <1>1, <1>4 DEF FilesInv, RowsDiffer, IdsOf
  <1>7. RowsFiled'
    <2>1. \A i \in DOMAIN rows : rows[i].id \in FileIds /\ rows[i].id \notin IdsOf(opened)
      <3>1. \A r \in Row : r.id \in FileIds
        BY DEF Row
      <3>2. \A i \in DOMAIN rows : rows[i] \in Row /\ rows[i].id \in IdsOf(rows)
        BY DEF FilesInv, FilesShape, IdsOf
      <3>3. QED
        BY <3>1, <3>2 DEF FilesInv, RowsDiffer
    <2>2. \A i \in DOMAIN rows : Filed(rows[i])' /\ Delivered(rows[i])'
      BY <1>1, <1>2, <2>1 DEF FilesInv, RowsFiled, Filed, Delivered
    <2>3. QED
      BY <1>1, <1>4, <2>2 DEF RowsFiled, Filed, Delivered
  <1>8. VersionsSound'
    <2>1. rows' \o opened' = rows
      BY <1>1 DEF FilesInv, FilesShape
    <2>2. QED
      BY <1>1, <2>1 DEF FilesInv, VersionsSound
  <1>9. InHand'
    BY <1>1 DEF InHand, KeeperAt, RestoredIsLatest
  <1>10. QED
    BY <1>1, <1>5, <1>6, <1>7, <1>8, <1>9 DEF FilesInv, UsersKept

\* Downloads changes at a name that no row has and that is not the user's.
LEMMA DownloadsKeep ==
  ASSUME FilesInv, UNCHANGED <<archive, rows, opened, nextId>>, opened = <<>>,
         NEW place \in FileNames \X (1..MaxCopies), NEW what \in Contents \cup {Absence, Torn, "users"},
         downloads[place] \in {Absence, Torn}, downloads' = [downloads EXCEPT ![place] = what]
  PROVE  RowsDiffer' /\ RowsFiled' /\ VersionsSound' /\ UsersKept
         /\ downloads' \in [FileNames \X (1..MaxCopies) -> Contents \cup {Absence, Torn, "users"}]
  <1>1. RowsDiffer' /\ VersionsSound'
    BY DEF FilesInv, RowsDiffer, VersionsSound, IdsOf
  <1>2. downloads \in [FileNames \X (1..MaxCopies) -> Contents \cup {Absence, Torn, "users"}]
    BY DEF FilesInv, FilesShape
  <1>3. UsersKept
    BY <1>2 DEF UsersKept
  <1>4. \A i \in DOMAIN rows : rows[i] \in Row /\ Filed(rows[i]) /\ Delivered(rows[i])
    BY DEF FilesInv, FilesShape, RowsFiled
  <1>5. ASSUME NEW i \in DOMAIN rows, rows[i].copy # 0
        PROVE  downloads'[<<rows[i].name, rows[i].copy>>] = rows[i].content
    <2>1. PICK r \in Row : r = rows[i] /\ r.content \in Contents /\ downloads[<<r.name, r.copy>>] = r.content
      BY <1>4, <1>5 DEF Filed, Delivered
    <2>2. r.name \in FileNames /\ r.copy \in 1..MaxCopies
      <3>1. r.name \in FileNames /\ r.copy \in 0..MaxCopies
        BY DEF Row
      <3>2. QED
        BY <1>5, <2>1, <3>1, FilesAssumption
    <2>3. downloads[<<r.name, r.copy>>] \notin {Absence, Torn}
      BY <2>1, FilesAssumption
    <2>4. QED
      BY <1>2, <2>1, <2>2, <2>3
  <1>6. RowsFiled'
    BY <1>4, <1>5 DEF RowsFiled, Filed, Delivered
  <1>7. QED
    BY <1>1, <1>2, <1>3, <1>6

LEMMA CopyBegunKeeps ==
  ASSUME FilesInv, NEW id \in FileIds, CopyBegun(id)
  PROVE  FilesInv' /\ UsersKept
  <1>1. /\ UNCHANGED <<workspace, archive, rows, opened, nextId>> /\ keeper.at = "deliver" /\ id \in keeper.todo
        /\ keeper' = [at |-> "copying", todo |-> keeper.todo, got |-> keeper.got, name |-> id,
                      touched |-> keeper.touched, copy |-> CopyName(rows[RowOf(id)].name)]
        /\ downloads' = [downloads EXCEPT ![<<rows[RowOf(id)].name, CopyName(rows[RowOf(id)].name)>>] = Torn]
        /\ FreeCopies(rows[RowOf(id)].name) # {}
    BY DEF CopyBegun, KeeperAt, FilesInv, FilesShape
  <1>2. opened = <<>> /\ keeper.todo \subseteq IdsOf(rows)
    BY <1>1 DEF FilesInv, RowsFiled, InHand, KeeperAt
  <1>3. PICK n \in FileNames : n = rows[RowOf(id)].name
    <2>1. rows[RowOf(id)] \in Row
      BY <1>1, <1>2, RowIsOne DEF FilesInv
    <2>2. QED
      BY <2>1 DEF Row
  <1>4. PICK k \in FreeCopies(n) : k = CopyName(n)
    <2>1. FreeCopies(n) \subseteq Nat
      BY DEF FreeCopies
    <2>2. \E x \in FreeCopies(n) : \A y \in FreeCopies(n) : x <= y
      BY <1>1, <1>3, <2>1, LeastNumber
    <2>3. QED
      BY <2>2 DEF CopyName, Min
  <1>5. k \in 1..MaxCopies /\ downloads[<<n, k>>] = Absence /\ <<n, k>> \in FileNames \X (1..MaxCopies)
    BY DEF FreeCopies
  <1>6. /\ downloads' = [downloads EXCEPT ![<<n, k>>] = Torn]
        /\ keeper'.at = "copying" /\ keeper'.todo = keeper.todo /\ keeper'.name = id /\ keeper'.copy = k
    BY <1>1, <1>3, <1>4
  <1>7. /\ RowsDiffer' /\ RowsFiled' /\ VersionsSound' /\ UsersKept
        /\ downloads' \in [FileNames \X (1..MaxCopies) -> Contents \cup {Absence, Torn, "users"}]
    BY <1>1, <1>2, <1>5, <1>6, DownloadsKeep
  <1>8. FilesShape'
    BY <1>1, <1>7 DEF FilesInv, FilesShape, FilesStages
  <1>9. InHand'
    <2>1. RowOf(id)' = RowOf(id) /\ IdsOf(rows') = IdsOf(rows)
      BY <1>1, RowsStay
    <2>2. CopyPlace' = <<n, k>>
      BY <1>1, <1>3, <1>6, <2>1 DEF CopyPlace, RowOf
    <2>3. downloads'[<<n, k>>] = Torn
      BY <1>5, <1>6 DEF FilesInv, FilesShape
    <2>4. QED
      BY <1>1, <1>2, <1>5, <1>6, <2>1, <2>2, <2>3 DEF InHand, KeeperAt, RestoredIsLatest
  <1>10. QED
    BY <1>7, <1>8, <1>9 DEF FilesInv

LEMMA CopyEndsKeeps ==
  ASSUME FilesInv, NEW ok \in BOOLEAN, CopyEnds(ok)
  PROVE  FilesInv' /\ UsersKept
  <1>1. UNCHANGED <<workspace, archive, rows, opened, nextId>> /\ keeper.at = "copying"
    BY DEF CopyEnds, KeeperAt
  <1>2. /\ opened = <<>> /\ keeper.todo \subseteq IdsOf(rows) /\ keeper.name \in IdsOf(rows) /\ keeper.copy \in 1..MaxCopies
        /\ downloads[CopyPlace] = Torn
    BY <1>1 DEF FilesInv, RowsFiled, InHand, KeeperAt
  <1>3. PICK r \in Row : /\ r = rows[RowOf(keeper.name)] /\ r.id = keeper.name /\ RowOf(keeper.name) \in DOMAIN rows
                         /\ r.name \in FileNames
    <2>1. \A x \in Row : x.name \in FileNames
      BY DEF Row
    <2>2. QED
      BY <1>2, <2>1, RowIsOne DEF FilesInv
  <1>4. archive[keeper.name] = r.content /\ r.content \in Contents
    BY <1>3 DEF FilesInv, RowsFiled, Filed
  <1>5. PICK place \in FileNames \X (1..MaxCopies) : place = CopyPlace /\ place = <<r.name, keeper.copy>>
    BY <1>2, <1>3 DEF CopyPlace
  <1>6. PICK what \in Contents \cup {Absence, Torn, "users"} :
          what = (IF ok THEN r.content ELSE Absence) /\ downloads' = [downloads EXCEPT ![place] = what]
    BY <1>3, <1>4, <1>5 DEF CopyEnds
  <1>7. /\ RowsDiffer' /\ RowsFiled' /\ VersionsSound' /\ UsersKept
        /\ downloads' \in [FileNames \X (1..MaxCopies) -> Contents \cup {Absence, Torn, "users"}]
    BY <1>1, <1>2, <1>5, <1>6, DownloadsKeep
  <1>8. IdsOf(rows') = IdsOf(rows)
    BY <1>1
  <1>9. CASE ok
    <2>1. keeper' = [at |-> "note", todo |-> keeper.todo, got |-> keeper.got, name |-> keeper.name,
                     touched |-> keeper.touched, copy |-> keeper.copy]
      BY <1>9 DEF CopyEnds, FilesInv, FilesShape
    <2>2. FilesShape'
      BY <1>1, <1>7, <2>1 DEF FilesInv, FilesShape, FilesStages
    <2>3. keeper'.at = "note" /\ keeper'.todo = keeper.todo /\ keeper'.name = keeper.name /\ keeper'.copy = keeper.copy
      BY <2>1
    <2>4. RowOf(keeper.name)' = RowOf(keeper.name)
      BY <1>1, <2>3 DEF RowOf
    <2>5. CopyPlace' = place /\ rows'[RowOf(keeper.name)'] = r
      BY <1>1, <1>3, <1>5, <2>3, <2>4 DEF CopyPlace
    <2>6. downloads'[place] = r.content
      BY <1>6, <1>9 DEF FilesInv, FilesShape
    <2>7. QED
      BY <1>2, <1>7, <1>8, <2>2, <2>3, <2>5, <2>6 DEF FilesInv, InHand, KeeperAt, RestoredIsLatest
  <1>10. CASE ~ok
    <2>1. keeper' = [at |-> "deliver", todo |-> keeper.todo \ {keeper.name}, got |-> keeper.got, name |-> 0,
                     touched |-> keeper.touched, copy |-> 0]
      BY <1>10 DEF CopyEnds, FilesInv, FilesShape
    <2>2. FilesShape'
      BY <1>1, <1>7, <2>1 DEF FilesInv, FilesShape, FilesStages
    <2>3. keeper'.at = "deliver" /\ keeper'.todo \subseteq IdsOf(rows')
      BY <1>2, <1>8, <2>1
    <2>4. QED
      BY <1>7, <2>2, <2>3 DEF FilesInv, InHand, KeeperAt, RestoredIsLatest
  <1>11. QED
    BY <1>9, <1>10

-----------------------------------------------------------------------------
\* What a note of the copy leaves of a row.
VersionPart == [r \in Row |-> [name |-> r.name, version |-> r.version, content |-> r.content]]
Parts == [name : FileNames, version : FileIds, content : Contents \cup {Torn}]
PartsNamed(n) == {y \in Parts : y.name = n}

LEMMA VersionParts ==
  /\ VersionPart \in [Row -> Parts]
  /\ \A r \in Row : VersionPart[r].version = r.version /\ VersionPart[r].content = r.content
  /\ \A n : \A r \in Row : r \in RowsNamed(n) <=> VersionPart[r] \in PartsNamed(n)
  BY DEF VersionPart, Parts, PartsNamed, RowsNamed, Row

LEMMA NamedThrough ==
  ASSUME NEW n, NEW t \in Seq(Row)
  PROVE  Among(Through(VersionPart, t), PartsNamed(n)) = Through(VersionPart, Among(t, RowsNamed(n)))
  <1>1. PICK F \in [Row -> Parts] : F = VersionPart
    BY VersionParts
  <1>2. PICK S, U : S = RowsNamed(n) /\ U = PartsNamed(n)
    OBVIOUS
  <1>3. \A r \in Row : r \in S <=> F[r] \in U
    BY <1>1, <1>2, VersionParts
  <1>4. Among(Through(F, t), U) = Through(F, Among(t, S))
    BY <1>3, AmongThrough
  <1>5. QED
    BY <1>1, <1>2, <1>4

LEMMA VersionsThrough ==
  ASSUME NEW a \in Seq(Row), NEW b \in Seq(Row), Through(VersionPart, a) = Through(VersionPart, b), Versions(a)
  PROVE  Versions(b)
  <1>1. DOMAIN a = DOMAIN b /\ \A i \in DOMAIN b : VersionPart[a[i]] = VersionPart[b[i]] /\ a[i] \in Row /\ b[i] \in Row
    <2>1. DOMAIN Through(VersionPart, a) = DOMAIN a /\ DOMAIN Through(VersionPart, b) = DOMAIN b
      BY DEF Through
    <2>2. DOMAIN a = DOMAIN b
      BY <2>1
    <2>3. ASSUME NEW i \in DOMAIN b PROVE VersionPart[a[i]] = VersionPart[b[i]]
      <3>1. Through(VersionPart, a)[i] = VersionPart[a[i]] /\ Through(VersionPart, b)[i] = VersionPart[b[i]]
        BY <2>2 DEF Through
      <3>2. QED
        BY <3>1
    <2>4. QED
      BY <2>2, <2>3
  <1>2. \A i \in DOMAIN b : a[i].version = b[i].version /\ a[i].content = b[i].content
    BY <1>1, VersionParts
  <1>3. \A i \in DOMAIN b : i > 1 => i - 1 \in DOMAIN b
    OBVIOUS
  <1>4. QED
    BY <1>1, <1>2, <1>3 DEF Versions

LEMMA CopyNotedKeeps ==
  ASSUME FilesInv, CopyNoted
  PROVE  FilesInv' /\ UsersKept
  <1>1. /\ UNCHANGED <<workspace, archive, opened, downloads, nextId>> /\ keeper.at = "note"
        /\ rows' = [rows EXCEPT ![RowOf(keeper.name)].copy = keeper.copy]
        /\ keeper' = [at |-> "deliver", todo |-> keeper.todo \ {keeper.name}, got |-> keeper.got, name |-> 0,
                      touched |-> keeper.touched, copy |-> 0]
    BY DEF CopyNoted, KeeperAt, FilesInv, FilesShape
  <1>2. /\ opened = <<>> /\ keeper.todo \subseteq IdsOf(rows) /\ keeper.name \in IdsOf(rows) /\ keeper.copy \in 1..MaxCopies
        /\ downloads[<<rows[RowOf(keeper.name)].name, keeper.copy>>] = rows[RowOf(keeper.name)].content
    BY <1>1 DEF FilesInv, RowsFiled, InHand, KeeperAt, CopyPlace
  <1>3. PICK k \in DOMAIN rows : k = RowOf(keeper.name) /\ rows[k] \in Row
    BY <1>2, RowIsOne DEF FilesInv
  <1>4. PICK s \in Seq(Row) : s = rows
    BY DEF FilesInv, FilesShape
  <1>5. PICK r \in Row : r = [s[k] EXCEPT !.copy = keeper.copy] /\ rows' = [s EXCEPT ![k] = r]
                         /\ r.id = s[k].id /\ r.name = s[k].name /\ r.version = s[k].version /\ r.content = s[k].content
                         /\ r.copy = keeper.copy
    <2>1. [s[k] EXCEPT !.copy = keeper.copy] \in Row
      <3>1. s[k] \in Row /\ keeper.copy \in 0..MaxCopies
        BY <1>2, <1>3, <1>4, FilesAssumption
      <3>2. \A x \in Row, c \in 0..MaxCopies : [x EXCEPT !.copy = c] \in Row
        BY DEF Row
      <3>3. QED
        BY <3>1, <3>2
    <2>2. rows' = [s EXCEPT ![k] = [s[k] EXCEPT !.copy = keeper.copy]]
      BY <1>1, <1>3, <1>4
    <2>3. s[k] \in Row
      BY <1>3, <1>4
    <2>4. QED
      BY <2>1, <2>2, <2>3 DEF Row
  <1>6. /\ rows' \in Seq(Row) /\ Len(rows') = Len(s) /\ DOMAIN rows' = DOMAIN s
        /\ \A i \in DOMAIN s : rows'[i] = IF i = k THEN r ELSE s[i]
    BY <1>3, <1>4, <1>5
  <1>7. \A i \in DOMAIN s : rows'[i].id = s[i].id
    BY <1>5, <1>6
  <1>8. IdsOf(rows') = IdsOf(rows)
    BY <1>4, <1>6, <1>7 DEF IdsOf
  <1>9. FilesShape'
    BY <1>1, <1>4, <1>6 DEF FilesInv, FilesShape, FilesStages
  <1>10. RowsDiffer'
    <2>1. \A i, j \in DOMAIN rows' : rows'[i].id = rows'[j].id => i = j
      <3>1. \A i, j \in DOMAIN s : s[i].id = s[j].id => i = j
        BY <1>4 DEF FilesInv, RowsDiffer
      <3>2. QED
        BY <1>6, <1>7, <3>1
    <2>2. IdsOf(opened') = IdsOf(opened) /\ IdsOf(rows)' = IdsOf(rows)
      BY <1>1, <1>8
    <2>3. QED
      BY <1>1, <1>8, <2>1, <2>2 DEF FilesInv, RowsDiffer
  <1>11. RowsFiled'
    <2>1. \A i \in DOMAIN s : Filed(s[i]) /\ Delivered(s[i])
      BY <1>4 DEF FilesInv, RowsFiled
    <2>2. Filed(r) /\ Delivered(r)
      BY <1>2, <1>3, <1>4, <1>5, <2>1 DEF Filed, Delivered
    <2>3. ASSUME NEW i \in DOMAIN rows'
          PROVE  /\ rows'[i].content \in Contents /\ archive[rows'[i].id] = rows'[i].content
                 /\ rows'[i].copy # 0 => downloads[<<rows'[i].name, rows'[i].copy>>] = rows'[i].content
      BY <1>6, <2>1, <2>2, <2>3 DEF Filed, Delivered
    <2>4. DOMAIN opened = {}
      BY <1>2
    <2>5. QED
      BY <1>1, <1>2, <2>3, <2>4 DEF RowsFiled, Filed, Delivered
  <1>12. VersionsSound'
    <2>1. Through(VersionPart, rows') = Through(VersionPart, s)
      <3>1. VersionPart[r] = VersionPart[s[k]]
        BY <1>3, <1>4, <1>5 DEF VersionPart
      <3>2. QED
        BY <1>6, <3>1 DEF Through
    <2>2. ASSUME NEW n \in FileNames PROVE Versions(OfName(rows', n))
      <3>1. PICK a \in Seq(Row), b \in Seq(Row) :
              /\ a = OfName(s, n) /\ a = Among(s, RowsNamed(n))
              /\ b = OfName(rows', n) /\ b = Among(rows', RowsNamed(n))
        BY <1>6, NamedRows
      <3>2. /\ Among(Through(VersionPart, s), PartsNamed(n)) = Through(VersionPart, Among(s, RowsNamed(n)))
            /\ Among(Through(VersionPart, rows'), PartsNamed(n)) = Through(VersionPart, Among(rows', RowsNamed(n)))
        BY <1>6, NamedThrough
      <3>3. Through(VersionPart, a) = Through(VersionPart, b)
        BY <2>1, <3>1, <3>2
      <3>4. Versions(a)
        BY <1>4, <3>1 DEF FilesInv, VersionsSound
      <3>5. QED
        BY <3>1, <3>3, <3>4, VersionsThrough
    <2>3. rows' \o opened' = rows'
      BY <1>1, <1>2, <1>6
    <2>4. QED
      BY <2>2, <2>3 DEF VersionsSound
  <1>13. InHand'
    <2>1. keeper'.at = "deliver" /\ keeper'.todo \subseteq IdsOf(rows')
      BY <1>1, <1>2, <1>8
    <2>2. QED
      BY <2>1 DEF InHand, KeeperAt, RestoredIsLatest
  <1>14. QED
    BY <1>1, <1>9, <1>10, <1>11, <1>12, <1>13 DEF FilesInv, UsersKept

-----------------------------------------------------------------------------
LEMMA NoRows ==
  /\ <<>> \in Seq(Row) /\ Len(<<>>) = 0 /\ DOMAIN <<>> = {} /\ <<>> \o <<>> = <<>> /\ IdsOf(<<>>) = {}
  /\ \A n : OfName(<<>>, n) = <<>> /\ ~HasRow(<<>>, n)
  <1>1. DOMAIN <<>> = {}
    OBVIOUS
  <1>2. \A n : OfName(<<>>, n) = <<>>
    BY AmongEmpty DEF OfName
  <1>3. QED
    BY <1>1, <1>2 DEF IdsOf, HasRow

\* Without rows and without an open transaction nothing is asked of the archive.
LEMMA NothingFiled == rows = <<>> /\ opened = <<>> => RowsDiffer /\ RowsFiled /\ VersionsSound
  <1>. SUFFICES ASSUME rows = <<>>, opened = <<>> PROVE RowsDiffer /\ RowsFiled /\ VersionsSound
    OBVIOUS
  <1>1. DOMAIN rows = {} /\ DOMAIN opened = {} /\ IdsOf(rows) = {} /\ IdsOf(opened) = {}
    BY NoRows
  <1>2. RowsDiffer /\ RowsFiled
    BY <1>1 DEF RowsDiffer, RowsFiled
  <1>3. Versions(<<>>)
    BY NoRows DEF Versions
  <1>4. VersionsSound
    BY <1>3, NoRows DEF VersionsSound
  <1>5. QED
    BY <1>2, <1>4

LEMMA FilesStart == FilesInit => FilesInv
  <1>. SUFFICES ASSUME FilesInit PROVE FilesInv
    OBVIOUS
  <1>1. /\ rows = <<>> /\ opened = <<>> /\ nextId = 1
        /\ keeper = [at |-> "rest", todo |-> {}, got |-> {}, name |-> 0, touched |-> FALSE, copy |-> 0]
    BY DEF FilesInit, Resting
  <1>2. MaxFiles \in Nat
    BY FilesAssumption
  <1>3. FilesShape
    BY <1>1, <1>2, NoRows DEF FilesInit, FilesShape, FilesStages
  <1>4. InHand
    BY <1>1 DEF InHand, KeeperAt, RestoredIsLatest
  <1>5. QED
    BY <1>1, <1>3, <1>4, NothingFiled DEF FilesInv

\* The task is deleted, its rows first.
LEMMA DeletionKeeps ==
  ASSUME FilesInv, Deleted \/ FilesUnlinked
  PROVE  FilesInv' /\ UsersKept
  <1>1. /\ UNCHANGED <<workspace, opened, downloads, nextId>> /\ rows' = <<>> /\ keeper.at \in {"rest", "unlink"}
        /\ archive' = archive \/ archive' = [i \in FileIds |-> Absence]
    BY DEF Deleted, FilesUnlinked, KeeperAt
  <1>2. opened' = <<>>
    BY <1>1 DEF FilesInv, RowsFiled, KeeperAt
  <1>3. PICK stage \in {"unlink", "gone"} :
          keeper' = [at |-> stage, todo |-> {}, got |-> {}, name |-> 0, touched |-> FALSE, copy |-> 0]
    BY DEF Deleted, FilesUnlinked, Resting
  <1>4. MaxFiles \in Nat
    BY FilesAssumption
  <1>5. archive' \in [FileIds -> Contents \cup {Absence, Torn}]
    BY <1>1 DEF FilesInv, FilesShape
  <1>6. FilesShape'
    BY <1>1, <1>2, <1>3, <1>4, <1>5, NoRows DEF FilesInv, FilesShape, FilesStages
  <1>7. InHand'
    BY <1>3 DEF InHand, KeeperAt, RestoredIsLatest
  <1>8. RowsDiffer' /\ RowsFiled' /\ VersionsSound'
    <2>1. rows' = <<>> /\ opened' = <<>>
      BY <1>1, <1>2
    <2>2. (rows = <<>> /\ opened = <<>> => RowsDiffer /\ RowsFiled /\ VersionsSound)'
      BY NothingFiled, PTL
    <2>3. QED
      BY <2>1, <2>2
  <1>9. QED
    BY <1>1, <1>6, <1>7, <1>8 DEF FilesInv, UsersKept

LEMMA ProcessDiesKeeps ==
  ASSUME FilesInv, ProcessDies
  PROVE  FilesInv' /\ UsersKept
  <1>1. UNCHANGED <<archive, rows, downloads, nextId>> /\ opened' = <<>> /\ workspace' = [n \in FileNames |-> Absence]
    BY DEF ProcessDies
  <1>2. PICK stage \in {"rest", "gone"} :
          keeper' = [at |-> stage, todo |-> {}, got |-> {}, name |-> 0, touched |-> FALSE, copy |-> 0]
    BY DEF ProcessDies, Resting
  <1>3. FilesShape'
    <2>1. Len(rows) \in Nat /\ Len(opened) \in Nat /\ MaxFiles \in Nat
      BY FilesAssumption DEF FilesInv, FilesShape
    <2>2. opened' \in Seq(Row) /\ Len(opened') = 0
      BY <1>1, NoRows
    <2>3. QED
      BY <1>1, <1>2, <2>1, <2>2 DEF FilesInv, FilesShape, FilesStages
  <1>4. InHand'
    BY <1>2 DEF InHand, KeeperAt, RestoredIsLatest
  <1>5. DOMAIN opened' = {} /\ IdsOf(opened') = {}
    BY <1>1, NoRows
  <1>6. RowsDiffer'
    BY <1>1, <1>5 DEF FilesInv, RowsDiffer, IdsOf
  <1>7. RowsFiled'
    BY <1>1, <1>5 DEF FilesInv, RowsFiled, Filed, Delivered
  <1>8. VersionsSound'
    <2>1. rows' \o opened' = rows
      BY <1>1 DEF FilesInv, FilesShape
    <2>2. QED
      BY <1>1, <2>1 DEF FilesInv, VersionsSound
  <1>9. QED
    BY <1>1, <1>3, <1>4, <1>6, <1>7, <1>8 DEF FilesInv, UsersKept

LEMMA FilesStep == FilesInv /\ [FilesNext]_filesVars => FilesInv' /\ UsersKept
  <1>. SUFFICES ASSUME FilesInv, [FilesNext]_filesVars PROVE FilesInv' /\ UsersKept
    OBVIOUS
  <1>1. CASE UNCHANGED filesVars
    <2>1. UNCHANGED <<workspace, archive, rows, opened, downloads, keeper, nextId>>
      BY <1>1 DEF filesVars
    <2>2. FilesShape' /\ InHand'
      BY <2>1 DEF FilesInv, FilesShape, InHand, KeeperAt, CopyPlace, RowOf, ToRestore, RestoredIsLatest
    <2>3. opened # <<>> => KeeperAt("write")'
      BY <2>1 DEF FilesInv, RowsFiled, KeeperAt
    <2>4. QED
      BY <2>1, <2>2, <2>3, TableStays DEF FilesInv
  <1>2. CASE StoreSteps
    BY <1>2, ReadingKeeps, VersionWrittenKeeps, CommittedKeeps, ExportFailsKeeps, CopyBegunKeeps, DeliveryKeeps,
       FileRestoredKeeps, CopyEndsKeeps, CopyNotedKeeps, RestoreKeeps, DeletionKeeps DEF StoreSteps
  <1>3. CASE ProcessDies
    BY <1>3, ProcessDiesKeeps
  <1>4. CASE \E n \in FileNames, c \in Contents : WorkerWrites(n, c)
    BY <1>4, WorkerWritesKeeps
  <1>5. QED
    BY <1>1, <1>2, <1>3, <1>4 DEF FilesNext

LEMMA FilesInvSays ==
  ASSUME FilesInv
  PROVE  /\ ArchiveIsSound /\ RestoredIsLatest
         /\ \A i \in DOMAIN rows : rows[i].copy # 0 => downloads[<<rows[i].name, rows[i].copy>>] = rows[i].content
  <1>1. \A i \in DOMAIN rows : Filed(rows[i]) /\ Delivered(rows[i])
    BY DEF FilesInv, RowsFiled
  <1>2. \A n \in FileNames : Versions(OfName(rows, n))
    BY DEF FilesInv, VersionsSound
  <1>3. ArchiveIsSound
    BY <1>1, <1>2 DEF ArchiveIsSound, Filed, Versions
  <1>4. QED
    BY <1>1, <1>3 DEF FilesInv, InHand, Delivered

(* Whatever fails and whenever the process dies, the archive holds what the table says, the user's
   files in Downloads stay, and a worker goes on from the newest version of every file. *)
THEOREM FilesStayKept == FilesSpec => [](ArchiveIsSound /\ RestoredIsLatest) /\ DesktopIsSafe
  <1>1. FilesInv /\ [FilesNext]_filesVars => UsersKept
    BY FilesStep
  <1>2. FilesInv => ArchiveIsSound /\ RestoredIsLatest
    BY FilesInvSays
  <1>3. FilesInv => (\A i \in DOMAIN rows : rows[i].copy # 0 => downloads[<<rows[i].name, rows[i].copy>>] = rows[i].content)
    BY FilesInvSays
  <1>4. FilesInv /\ [FilesNext]_filesVars => FilesInv'
    BY FilesStep
  <1>5. FilesInit => FilesInv
    BY FilesStart
  <1>6. [UsersKept]_filesVars <=>
        [\A p \in DOMAIN downloads : downloads[p] \notin {Absence, Torn} => downloads'[p] = downloads[p]]_filesVars
    BY DEF UsersKept
  <1>7. QED
    BY <1>1, <1>2, <1>3, <1>4, <1>5, <1>6, PTL DEF FilesSpec, DesktopIsSafe

-----------------------------------------------------------------------------
(* What a turn is reminded of (Retrieval).                                 *)
IsQuery(q) ==
  /\ q.turn \in [Episodes -> Episodes] /\ \A i, j \in Episodes : q.turn[i] = q.turn[j] => i = j
  /\ q.score \in [Episodes -> Scores] /\ q.size \in [Episodes -> Sizes]
  /\ q.window \in Nat /\ q.ceiling \in Nat
  /\ q.through \in Episodes \cup {NoTurn} /\ q.anchor \in Episodes \cup {NoTurn}

LEMMA QueriesAre == \A q \in Queries : IsQuery(q)
  BY RetrievalAssumption DEF Queries, IsQuery, IsInjective

Later(q, S, i) == {j \in S : Following(q, j, i)}

ByTurn(q, S) == {p \in S \X S : Following(q, p[2], p[1])}

LEMMA TurnsOrder ==
  ASSUME NEW q, IsQuery(q), NEW S \in SUBSET Episodes
  PROVE  /\ IsOrderOn(ByTurn(q, S), S) /\ IsFiniteSet(S)
         /\ \A x, y \in S : <<x, y>> \in ByTurn(q, S) <=> Following(q, y, x)
  <1>1. \A x \in S : x \in Nat /\ q.turn[x] \in Nat
    BY RetrievalAssumption DEF IsQuery
  <1>2. \A x, y \in S : <<x, y>> \in ByTurn(q, S) <=> Following(q, y, x)
    BY DEF ByTurn
  <1>3. IsFiniteSet(S)
    BY RetrievalAssumption, FS_Subset
  <1>4. ASSUME NEW x \in S PROVE ~Following(q, x, x)
    BY <1>1 DEF Following
  <1>5. ASSUME NEW x \in S, NEW y \in S, x # y
        PROVE  Following(q, x, y) \/ Following(q, y, x)
    BY <1>1, <1>5 DEF Following
  <1>6. ASSUME NEW x \in S, NEW y \in S, NEW z \in S, Following(q, y, x), Following(q, z, y)
        PROVE  Following(q, z, x)
    BY <1>1, <1>6 DEF Following
  <1>7. IsOrderOn(ByTurn(q, S), S)
    BY <1>2, <1>4, <1>5, <1>6 DEF IsOrderOn
  <1>8. QED
    BY <1>2, <1>3, <1>7

\* Of n in a row, as many follow the k-th as are left.
LEMMA LaterThan ==
  ASSUME NEW q, IsQuery(q), NEW S \in SUBSET Episodes, NEW i \in S
  PROVE  /\ Cardinality(Later(q, S, i)) = Cardinality(S) - 1 - Cardinality(BelowIn(ByTurn(q, S), S, i))
         /\ Cardinality(Later(q, S, i)) \in Nat /\ IsFiniteSet(Later(q, S, i))
  <1> DEFINE B == BelowIn(ByTurn(q, S), S, i)
             L == Later(q, S, i)
  <1>1. IsFiniteSet(S) /\ IsOrderOn(ByTurn(q, S), S) /\ \A x, y \in S : <<x, y>> \in ByTurn(q, S) <=> Following(q, y, x)
    BY TurnsOrder
  <1>2. L = (S \ {i}) \ B /\ B \in SUBSET (S \ {i}) /\ L \in SUBSET S
    BY <1>1 DEF Later, BelowIn, IsOrderOn
  <1> HIDE DEF B, L
  <1>3. IsFiniteSet(S \ {i}) /\ Cardinality(S \ {i}) = Cardinality(S) - 1
    BY <1>1, FS_RemoveElement
  <1>4. IsFiniteSet(L) /\ IsFiniteSet(B) /\ L \cup B = S \ {i} /\ L \cap B = {}
    BY <1>1, <1>2, <1>3, FS_Subset
  <1>5. Cardinality(S \ {i}) = Cardinality(L) + Cardinality(B) - 0
    BY <1>4, FS_Union, FS_EmptySet
  <1>6. Cardinality(L) \in Nat /\ Cardinality(B) \in Nat /\ Cardinality(S) \in Nat
    BY <1>1, <1>4, FS_CardinalityType
  <1>7. QED
    BY <1>3, <1>4, <1>5, <1>6 DEF B, L

\* The tail of what is eligible is what fewer than the window come after.
LEMMA RecentIs ==
  ASSUME NEW q, IsQuery(q), NEW shown \in SUBSET Episodes
  PROVE  /\ Eligible(q, shown) \in SUBSET Episodes
         /\ Recent(q, shown) = {i \in Eligible(q, shown) : Cardinality(Later(q, Eligible(q, shown), i)) < q.window}
  <1> DEFINE S == Eligible(q, shown)
             R == ByTurn(q, S)
             s == Ranked(S, R)
  <1>1. S \in SUBSET Episodes
    BY DEF Eligible
  <1>2. Recent(q, shown) = Range(SubSeq(s, Max({0, Len(s) - q.window}) + 1, Len(s)))
    BY DEF Recent, InOrder, ByTurn
  <1> HIDE DEF S, s, R
  <1>3. Lists(s, S, R) /\ IsFiniteSet(S)
    BY <1>1, TurnsOrder, RankedLists DEF R, s
  <1>4. q.window \in Nat
    BY DEF IsQuery
  <1>5. Recent(q, shown) = {i \in S : Cardinality(S) - 1 - Cardinality(BelowIn(R, S, i)) < q.window}
    BY <1>2, <1>3, <1>4, LastPart
  <1>6. \A i \in S : Cardinality(Later(q, S, i)) = Cardinality(S) - 1 - Cardinality(BelowIn(R, S, i))
    BY <1>1, LaterThan DEF R
  <1>7. Recent(q, shown) = {i \in S : Cardinality(Later(q, S, i)) < q.window}
    BY <1>5, <1>6
  <1>8. QED
    BY <1>1, <1>7 DEF S

\* Who comes later of two is followed by fewer.
LEMMA LaterGrows ==
  ASSUME NEW q, IsQuery(q), NEW S \in SUBSET Episodes, NEW i \in S, NEW j \in S
  PROVE  Following(q, j, i) <=> Cardinality(Later(q, S, j)) < Cardinality(Later(q, S, i))
  <1> DEFINE B(x) == Cardinality(BelowIn(ByTurn(q, S), S, x))
  <1>1. /\ IsFiniteSet(S) /\ IsOrderOn(ByTurn(q, S), S)
        /\ <<i, j>> \in ByTurn(q, S) <=> Following(q, j, i)
    BY TurnsOrder
  <1>2. PICK n \in Nat : n = Cardinality(S)
    BY <1>1, FS_CardinalityType
  <1>3. B(i) \in 0 .. (n - 1) /\ B(j) \in 0 .. (n - 1) /\ (<<i, j>> \in ByTurn(q, S) <=> B(i) < B(j))
    BY <1>1, <1>2, BelowGrows
  <1>4. Cardinality(Later(q, S, i)) = n - 1 - B(i) /\ Cardinality(Later(q, S, j)) = n - 1 - B(j)
    BY <1>2, LaterThan
  <1> HIDE DEF B
  <1>5. QED
    BY <1>1, <1>3, <1>4

\* What is taken away of the others leaves the tail as it is.
LEMMA RecentStays ==
  ASSUME NEW q, IsQuery(q), NEW W \in SUBSET Episodes, W \cap Recent(q, Episodes) = {}
  PROVE  Recent(q, Episodes \ W) = Recent(q, Episodes)
  <1> DEFINE S == Eligible(q, Episodes)
             T == Eligible(q, Episodes \ W)
             R == Recent(q, Episodes)
             C(i) == Cardinality(Later(q, S, i))
             D(i) == Cardinality(Later(q, T, i))
  <1>1. S \in SUBSET Episodes /\ T \in SUBSET Episodes /\ T = S \ W
    BY DEF Eligible
  <1>2. R = {i \in S : C(i) < q.window} /\ Recent(q, Episodes \ W) = {i \in T : D(i) < q.window}
    BY RecentIs
  <1>3. \A i \in S : C(i) \in Nat /\ IsFiniteSet(Later(q, S, i))
    BY <1>1, LaterThan
  <1>4. \A i \in T : D(i) \in Nat /\ IsFiniteSet(Later(q, T, i)) /\ Later(q, T, i) \in SUBSET Later(q, S, i)
    BY <1>1, LaterThan DEF Later
  <1>5. q.window \in Nat
    BY DEF IsQuery
  <1>6. \A i, j \in S : Following(q, j, i) <=> C(j) < C(i)
    BY <1>1, LaterGrows
  <1> HIDE DEF S, T, R, C
  <1>7. ASSUME NEW i \in R
        PROVE  i \in Recent(q, Episodes \ W)
    <2>1. i \in T /\ i \in S
      BY <1>1, <1>2, <1>7 DEF R
    <2>2. D(i) <= C(i)
      BY <1>3, <1>4, <2>1, FS_Subset DEF C
    <2> HIDE DEF D
    <2>3. D(i) \in Nat /\ C(i) \in Nat /\ C(i) < q.window
      BY <1>2, <1>3, <1>4, <1>7, <2>1 DEF D
    <2>4. D(i) < q.window
      BY <1>5, <2>2, <2>3
    <2>5. QED
      BY <1>2, <2>1, <2>4 DEF D
  <1>8. ASSUME NEW i \in T, i \notin R
        PROVE  ~(D(i) < q.window)
    <2>1. i \in S /\ C(i) >= q.window
      BY <1>1, <1>2, <1>3, <1>5, <1>8
    <2> DEFINE L == {C(j) : j \in {x \in S : C(x) >= q.window}}
    <2>2. L \subseteq Nat /\ L # {}
      BY <1>3, <2>1
    <2>3. PICK m \in S : C(m) >= q.window /\ \A j \in S : C(j) >= q.window => C(m) <= C(j)
      <3>1. PICK c \in L : \A d \in L : c <= d
        BY <2>2, LeastNumber
      <3>2. \A j \in S : C(j) >= q.window => C(j) \in L
        OBVIOUS
      <3>3. PICK m \in S : C(m) >= q.window /\ C(m) = c
        BY <3>1
      <3>4. QED
        BY <3>1, <3>2, <3>3
    <2>4. Later(q, S, m) \subseteq R
      <3>1. ASSUME NEW j \in Later(q, S, m) PROVE j \in R
        <4>1. j \in S /\ Following(q, j, m)
          BY DEF Later
        <4>2. C(j) < C(m) /\ C(j) \in Nat /\ C(m) \in Nat
          BY <1>3, <1>6, <4>1
        <4>3. C(j) < q.window
          BY <1>5, <2>3, <4>1, <4>2
        <4>4. QED
          BY <1>2, <4>1, <4>3
      <3>2. QED
        BY <3>1
    <2>5. R \subseteq Later(q, T, i)
      <3>1. ASSUME NEW j \in R PROVE j \in Later(q, T, i)
        <4>1. j \in S /\ C(j) < q.window /\ j \notin W
          BY <1>2 DEF R
        <4>2. C(j) < C(i)
          BY <1>3, <1>5, <2>1, <4>1
        <4>3. j \in T /\ Following(q, j, i)
          BY <1>1, <1>6, <2>1, <4>1, <4>2
        <4>4. QED
          BY <4>3 DEF Later
      <3>2. QED
        BY <3>1
    <2>6. Cardinality(Later(q, S, m)) <= Cardinality(Later(q, T, i))
      BY <1>4, <2>4, <2>5, FS_Subset
    <2>7. C(m) <= D(i)
      BY <2>6 DEF C
    <2>8. D(i) \in Nat /\ C(m) \in Nat
      BY <1>3, <1>4
    <2> HIDE DEF D
    <2>9. QED
      BY <1>5, <2>3, <2>7, <2>8
  <1>9. QED
    BY <1>1, <1>2, <1>7, <1>8 DEF R

\* The turns are those of all the episodes, so an anchor is one of them.
LEMMA AnchorIs ==
  ASSUME NEW q, IsQuery(q), IsAnchored(q)
  PROVE  \E a \in Episodes : /\ \A i \in Episodes : q.turn[i] = q.anchor <=> i = a
                             /\ \A shown \in SUBSET Episodes : a \in shown => Anchor(q, shown) = a
  <1>1. q.turn \in Injection(Episodes, Episodes) /\ IsFiniteSet(Episodes)
    BY RetrievalAssumption DEF IsQuery, Injection, IsInjective
  <1>2. q.turn \in Surjection(Episodes, Episodes)
    BY <1>1, FS_Injection
  <1>3. q.anchor \in Episodes
    BY DEF IsQuery, IsAnchored
  <1>4. PICK a \in Episodes : q.turn[a] = q.anchor
    BY <1>2, <1>3 DEF Surjection
  <1>5. \A i \in Episodes : q.turn[i] = q.anchor <=> i = a
    BY <1>4 DEF IsQuery
  <1>6. ASSUME NEW shown \in SUBSET Episodes, a \in shown
        PROVE  Anchor(q, shown) = a
    <2>1. {i \in shown : q.turn[i] = q.anchor} = {a}
      BY <1>5, <1>6
    <2>2. Min({a}) = a
      <3>1. a <= a
        BY RetrievalAssumption
      <3>2. QED
        BY <3>1 DEF Min
    <2>3. QED
      BY <2>1, <2>2 DEF Anchor
  <1>7. QED
    BY <1>5, <1>6

Weak(q) == Picked(q, Episodes) \ Protected(q)

ByWeight(q, S) == {p \in S \X S : ShedsBefore(q, p[1], p[2])}

LEMMA WeightsOrder ==
  ASSUME NEW q, IsQuery(q), NEW S \in SUBSET Episodes
  PROVE  /\ IsOrderOn(ByWeight(q, S), S) /\ IsFiniteSet(S)
         /\ \A x, y \in S : <<x, y>> \in ByWeight(q, S) <=> ShedsBefore(q, x, y)
  <1>1. \A x \in S : x \in Nat /\ q.score[x] \in Int
    BY RetrievalAssumption DEF IsQuery
  <1>2. \A x, y \in S : <<x, y>> \in ByWeight(q, S) <=> ShedsBefore(q, x, y)
    BY DEF ByWeight
  <1>3. IsFiniteSet(S)
    BY RetrievalAssumption, FS_Subset
  <1>4. ASSUME NEW x \in S PROVE ~ShedsBefore(q, x, x)
    BY <1>1 DEF ShedsBefore
  <1>5. ASSUME NEW x \in S, NEW y \in S, x # y
        PROVE  ShedsBefore(q, x, y) \/ ShedsBefore(q, y, x)
    BY <1>1, <1>5 DEF ShedsBefore
  <1>6. ASSUME NEW x \in S, NEW y \in S, NEW z \in S, ShedsBefore(q, x, y), ShedsBefore(q, y, z)
        PROVE  ShedsBefore(q, x, z)
    BY <1>1, <1>6 DEF ShedsBefore
  <1>7. IsOrderOn(ByWeight(q, S), S)
    BY <1>2, <1>4, <1>5, <1>6 DEF IsOrderOn
  <1>8. QED
    BY <1>2, <1>3, <1>7

\* What a set of episodes costs is a number.
LEMMA RenderedIsANumber ==
  ASSUME NEW q, IsQuery(q), NEW S \in SUBSET Episodes
  PROVE  Rendered(q, S) \in Nat
  <1>1. IsFiniteSet(S) /\ \A i \in S : q.size[i] \in Nat
    BY RetrievalAssumption, FS_Subset DEF IsQuery
  <1>2. Total(q.size, S) \in Nat
    BY <1>1, SumOfNumbers
  <1>3. MapThenSumSet(LAMBDA i : q.size[i], S) = Total(q.size, S)
    BY DEF MapThenSumSet, MapThenFoldSet, Total, Sums
  <1>4. QED
    BY <1>2, <1>3 DEF Rendered

(* What is withheld is weak, the weakest comes first, and without the last *)
(* of it the rest was too long.                                            *)
LEMMA WithheldIs ==
  ASSUME NEW q, IsQuery(q)
  PROVE  /\ Withheld(q) \subseteq Weak(q)
         /\ \A i \in Withheld(q), j \in Weak(q) \ Withheld(q) : ShedsBefore(q, i, j)
         /\ Withheld(q) # {} =>
              \E i \in Withheld(q) : Rendered(q, (Picked(q, Episodes) \ Withheld(q)) \cup {i}) > q.ceiling
  <1> DEFINE all == Picked(q, Episodes)
             weak == Weak(q)
             R == ByWeight(q, weak)
             order == Ranked(weak, R)
             Shed(n) == Range(SubSeq(order, 1, n))
             Fit(n) == Rendered(q, all \ Shed(n)) <= q.ceiling
             enough == {n \in 0 .. Len(order) : Fit(n) \/ n = Len(order)}
  <1>1. Withheld(q) = IF q.ceiling = 0 THEN {} ELSE Shed(Min(enough))
    BY DEF Withheld, Weak, ByWeight
  <1>2. all \in SUBSET Episodes /\ weak \in SUBSET Episodes /\ weak \subseteq all
    BY DEF Picked, Eligible, Weak
  <1>3. IsFiniteSet(weak) /\ IsOrderOn(R, weak) /\ \A x, y \in weak : <<x, y>> \in R <=> ShedsBefore(q, x, y)
    BY <1>2, WeightsOrder
  <1> HIDE DEF all, weak, R
  <1>4. Lists(order, weak, R)
    BY <1>3, RankedLists
  <1>5. PICK n \in Nat : n = Cardinality(weak)
    BY <1>3, FS_CardinalityType
  <1>6. Len(order) = n
    BY <1>4, <1>5 DEF Lists
  <1> HIDE DEF order
  <1>7. ASSUME NEW m \in 0 .. n
        PROVE  Shed(m) = {x \in weak : Cardinality(BelowIn(R, weak, x)) < m}
    BY <1>3, <1>4, <1>5, FirstPart
  <1> HIDE DEF Shed
  <1>8. enough \subseteq Nat /\ n \in enough
    BY <1>6
  <1>9. PICK m \in 0 .. n : m = Min(enough) /\ m \in enough /\ \A k \in enough : m <= k
    BY <1>6, <1>8, MinOf
  <1>10. CASE q.ceiling = 0
    BY <1>1, <1>10
  <1>11. CASE q.ceiling # 0
    <2>1. Withheld(q) = {x \in weak : Cardinality(BelowIn(R, weak, x)) < m}
      BY <1>1, <1>7, <1>9, <1>11
    <2>2. ASSUME NEW i \in Withheld(q), NEW j \in weak \ Withheld(q)
          PROVE  ShedsBefore(q, i, j)
      <3>1. i \in weak /\ j \in weak /\ Cardinality(BelowIn(R, weak, i)) < m /\ ~(Cardinality(BelowIn(R, weak, j)) < m)
        BY <2>1
      <3>2. Cardinality(BelowIn(R, weak, i)) \in 0 .. (n - 1) /\ Cardinality(BelowIn(R, weak, j)) \in 0 .. (n - 1)
        BY <1>3, <1>5, <3>1, BelowGrows
      <3>3. Cardinality(BelowIn(R, weak, i)) < Cardinality(BelowIn(R, weak, j))
        BY <3>1, <3>2
      <3>4. <<i, j>> \in R
        BY <1>3, <3>1, <3>3, BelowGrows
      <3>5. QED
        BY <1>3, <3>1, <3>4
    <2>3. ASSUME Withheld(q) # {}
          PROVE  \E i \in Withheld(q) : Rendered(q, (all \ Withheld(q)) \cup {i}) > q.ceiling
      <3>1. PICK x \in weak : Cardinality(BelowIn(R, weak, x)) < m
        BY <2>1, <2>3
      <3>2. m # 0 /\ m \in 1 .. n /\ m - 1 \in 0 .. n /\ ~(m <= m - 1)
        <4>1. Cardinality(BelowIn(R, weak, x)) \in 0 .. (n - 1)
          BY <1>3, <1>5, BelowGrows
        <4>2. QED
          BY <3>1, <4>1
      <3>3. m - 1 \notin enough
        BY <1>9, <3>2
      <3>4. ~(Rendered(q, all \ Shed(m - 1)) <= q.ceiling)
        BY <1>6, <3>2, <3>3
      <3>5. PICK i \in weak : i = order[m] /\ Cardinality(BelowIn(R, weak, i)) = m - 1
        BY <1>4, <1>5, <3>2 DEF Lists
      <3>6. \A y \in weak : Cardinality(BelowIn(R, weak, y)) = m - 1 => y = i
        <4>1. ASSUME NEW y \in weak, Cardinality(BelowIn(R, weak, y)) = m - 1
              PROVE  y = i
          <5>1. order[Cardinality(BelowIn(R, weak, y)) + 1] = y
            BY <1>4 DEF Lists
          <5>2. order[m] = y
            BY <3>2, <4>1, <5>1
          <5>3. QED
            BY <3>5, <5>2
        <4>2. QED
          BY <4>1
      <3>7. \A y \in weak : Cardinality(BelowIn(R, weak, y)) \in 0 .. (n - 1)
        BY <1>3, <1>5, BelowGrows
      <3>8. \A y \in weak : Cardinality(BelowIn(R, weak, y)) < m <=> (Cardinality(BelowIn(R, weak, y)) < m - 1 \/ y = i)
        BY <3>2, <3>5, <3>6, <3>7
      <3>9. Shed(m - 1) = {y \in weak : Cardinality(BelowIn(R, weak, y)) < m - 1}
        BY <1>7, <3>2
      <3>10. i \in Withheld(q) /\ i \notin Shed(m - 1)
        BY <2>1, <3>2, <3>5, <3>8, <3>9
      <3>11. all \ Shed(m - 1) = (all \ Withheld(q)) \cup {i}
        BY <1>2, <2>1, <3>8, <3>9, <3>10 DEF all, weak
      <3>12. Rendered(q, all \ Shed(m - 1)) \in Nat /\ q.ceiling \in Nat
        BY <1>2, RenderedIsANumber DEF IsQuery, all
      <3>13. Rendered(q, all \ Shed(m - 1)) > q.ceiling
        BY <3>4, <3>12
      <3>14. QED
        BY <3>10, <3>11, <3>13
    <2>4. QED
      BY <2>1, <2>2, <2>3 DEF all, weak
  <1>12. QED
    BY <1>10, <1>11

AnchorOf(q) == {i \in Episodes : IsAnchored(q) /\ q.turn[i] = q.anchor}

LEMMA AnchorsAre ==
  ASSUME NEW q, IsQuery(q)
  PROVE  /\ Protected(q) = Recent(q, Episodes) \cup AnchorOf(q)
         /\ \A shown \in SUBSET Episodes : AnchorOf(q) \subseteq shown =>
              Picked(q, shown) = Recent(q, shown) \cup Relevant(q, shown) \cup (AnchorOf(q) \cap Eligible(q, shown))
  <1>1. ASSUME NEW shown \in SUBSET Episodes
        PROVE  Recent(q, shown) \subseteq Eligible(q, shown) /\ Relevant(q, shown) \subseteq Eligible(q, shown)
    BY RecentIs DEF Relevant
  <1>2. CASE ~IsAnchored(q)
    <2>1. AnchorOf(q) = {}
      BY <1>2 DEF AnchorOf
    <2>2. QED
      BY <1>1, <1>2, <2>1 DEF Protected, Picked
  <1>3. CASE IsAnchored(q)
    <2>1. PICK a \in Episodes : /\ \A i \in Episodes : q.turn[i] = q.anchor <=> i = a
                                /\ \A shown \in SUBSET Episodes : a \in shown => Anchor(q, shown) = a
      BY <1>3, AnchorIs
    <2>2. AnchorOf(q) = {a}
      BY <1>3, <2>1 DEF AnchorOf
    <2>3. Protected(q) = Recent(q, Episodes) \cup {a}
      BY <1>3, <2>1 DEF Protected
    <2>4. ASSUME NEW shown \in SUBSET Episodes, a \in shown
          PROVE  Picked(q, shown) = Recent(q, shown) \cup Relevant(q, shown) \cup ({a} \cap Eligible(q, shown))
      <3>1. Anchor(q, shown) = a
        BY <2>1, <2>4
      <3>2. QED
        BY <1>1, <1>3, <3>1 DEF Picked
    <2>5. QED
      BY <2>2, <2>3, <2>4
  <1>4. QED
    BY <1>2, <1>3

\* The library is shown the rest and selects of it what was selected of the whole.
LEMMA ShadowAgrees ==
  ASSUME NEW q, IsQuery(q), NEW shown, shown = Episodes \ Withheld(q)
  PROVE  /\ Verified(q, shown)
         /\ Library(q, shown).recent = Recent(q, Episodes)
         /\ Library(q, shown).delivered = Picked(q, Episodes) \ Withheld(q)
  <1> DEFINE W == Withheld(q)
  <1>1. W \subseteq Picked(q, Episodes) \ Protected(q)
    BY WithheldIs DEF Weak
  <1>2. /\ Protected(q) = Recent(q, Episodes) \cup AnchorOf(q) /\ AnchorOf(q) \subseteq Episodes
        /\ Picked(q, Episodes) \subseteq Episodes
    BY AnchorsAre DEF AnchorOf, Picked, Eligible
  <1> HIDE DEF W
  <1>3. W \in SUBSET Episodes /\ W \cap Recent(q, Episodes) = {} /\ W \cap AnchorOf(q) = {} /\ shown = Episodes \ W
    BY <1>1, <1>2 DEF W
  <1>4. shown \in SUBSET Episodes /\ AnchorOf(q) \subseteq shown
    BY <1>2, <1>3
  <1>5. Recent(q, shown) = Recent(q, Episodes)
    BY <1>3, RecentStays
  <1>6. /\ Eligible(q, shown) = Eligible(q, Episodes) \ W
        /\ Relevant(q, shown) = Relevant(q, Episodes) \ W
    BY <1>3 DEF Eligible, Relevant
  <1>7. /\ Picked(q, Episodes) = Recent(q, Episodes) \cup Relevant(q, Episodes) \cup (AnchorOf(q) \cap Eligible(q, Episodes))
        /\ Picked(q, shown) = Recent(q, shown) \cup Relevant(q, shown) \cup (AnchorOf(q) \cap Eligible(q, shown))
    BY <1>2, <1>4, AnchorsAre
  <1>8. Picked(q, shown) = Picked(q, Episodes) \ W
    BY <1>3, <1>5, <1>6, <1>7
  <1>9. Library(q, shown).recent = Recent(q, shown)
    <2>1. Recent(q, shown) = {i \in Eligible(q, shown) : Cardinality(Later(q, Eligible(q, shown), i)) < q.window}
      BY <1>4, RecentIs
    <2>2. QED
      BY <2>1 DEF Library, Later
  <1>10. /\ Library(q, shown).delivered = Library(q, shown).recent \cup Relevant(q, shown)
              \cup {i \in Eligible(q, shown) : q.turn[i] = q.anchor /\ IsAnchored(q)}
         /\ Library(q, shown).semantic = Cardinality(Relevant(q, shown) \ Library(q, shown).recent)
    BY DEF Library
  <1>11. {i \in Eligible(q, shown) : q.turn[i] = q.anchor /\ IsAnchored(q)} = AnchorOf(q) \cap Eligible(q, shown)
    BY <1>4 DEF AnchorOf, Eligible
  <1>12. Library(q, shown).delivered = Picked(q, shown)
    BY <1>7, <1>9, <1>10, <1>11
  <1>13. Verified(q, shown)
    BY <1>9, <1>10, <1>12 DEF Verified
  <1>14. QED
    BY <1>5, <1>8, <1>9, <1>12, <1>13 DEF W

LEMMA RetrievedIs ==
  ASSUME NEW q, IsQuery(q)
  PROVE  Retrieved(q) = [delivered |-> Picked(q, Episodes) \ Withheld(q), withheld |-> Withheld(q),
                         recent |-> Recent(q, Episodes), rows |-> Rows(q, Picked(q, Episodes) \ Withheld(q), Withheld(q))]
  <1>1. PICK shown : shown = Episodes \ Withheld(q)
    OBVIOUS
  <1>2. /\ Verified(q, shown) /\ Library(q, shown).recent = Recent(q, Episodes)
        /\ Library(q, shown).delivered = Picked(q, Episodes) \ Withheld(q)
    BY <1>1, ShadowAgrees
  <1>3. QED
    BY <1>1, <1>2 DEF Retrieved

\* Where an answer is there, it is the one to the query.
Reminded == answered = NoAnswer \/ (asked \in Queries /\ answered = Retrieved(asked))

LEMMA AnswersAreFair == Reminded => CeilingIsFair /\ RowsTellTheTruth
  <1> SUFFICES ASSUME answered # NoAnswer, asked \in Queries, answered = Retrieved(asked)
               PROVE  CeilingIsFair /\ RowsTellTheTruth
    BY DEF Reminded, CeilingIsFair, RowsTellTheTruth
  <1>1. PICK q : q = asked /\ IsQuery(q)
    BY QueriesAre
  <1> DEFINE W == Withheld(q)
             all == Picked(q, Episodes)
             recent == Recent(q, Episodes)
             chosen == all \ W
  <1>2. /\ answered.delivered = chosen /\ answered.withheld = W /\ answered.recent = recent
        /\ answered.rows = Rows(q, chosen, W)
    BY <1>1, RetrievedIs
  <1>3. /\ W \subseteq all \ Protected(q)
        /\ \A i \in W, j \in (all \ Protected(q)) \ W : ShedsBefore(q, i, j)
        /\ W # {} => \E i \in W : Rendered(q, chosen \cup {i}) > q.ceiling
    BY <1>1, WithheldIs DEF Weak
  <1>4. /\ Protected(q) = recent \cup AnchorOf(q)
        /\ all = recent \cup Relevant(q, Episodes) \cup (AnchorOf(q) \cap Eligible(q, Episodes))
    BY <1>1, AnchorsAre DEF AnchorOf
  <1>5. all \subseteq Episodes
    BY DEF Picked, Eligible
  <1> DEFINE relevant == Relevant(q, Episodes)
             row(i) == [relevant |-> i \in relevant, recent |-> i \in recent, withheld |-> i \in W,
                        delivered |-> i \in chosen, via |-> IF i \in chosen THEN Via(q, i) ELSE "none"]
  <1>6. Rows(q, chosen, W) = [i \in Episodes |-> row(i)]
    BY DEF Rows
  <1>7. ASSUME NEW i \in Episodes
        PROVE  Via(q, i) = IF i \in relevant THEN IF i \in recent THEN "both" ELSE "relevance"
                           ELSE IF i \in recent THEN "continuity" ELSE "anchor"
    BY DEF Via
  <1> HIDE DEF W, all, recent, relevant
  <1>8. CeilingIsFair
    <2>1. \A i \in W : ~(IsAnchored(q) /\ q.turn[i] = q.anchor)
      BY <1>3, <1>4, <1>5 DEF AnchorOf
    <2>2. ASSUME NEW i \in W, NEW j \in chosen \ recent, ~(IsAnchored(q) /\ q.turn[j] = q.anchor)
          PROVE  q.score[i] <= q.score[j]
      <3>1. j \in (all \ Protected(q)) \ W /\ i \in Episodes /\ j \in Episodes
        BY <1>3, <1>4, <1>5, <2>2 DEF AnchorOf
      <3>2. ShedsBefore(q, i, j) /\ q.score[i] \in Int /\ q.score[j] \in Int
        BY <1>1, <1>3, <3>1, RetrievalAssumption DEF IsQuery
      <3>3. QED
        BY <3>2 DEF ShedsBefore
    <2>3. W \cap recent = {}
      BY <1>3, <1>4
    <2>4. QED
      BY <1>1, <1>2, <1>3, <2>1, <2>2, <2>3 DEF CeilingIsFair, recent
  <1>9. answered # Diverged
    <2>1. DOMAIN answered.rows = Episodes
      BY <1>2, <1>6
    <2>2. Diverged.rows = [i \in {NoTurn} |-> "diverged"]
      BY DEF Diverged, NoAnswer
    <2>3. NoTurn \notin Episodes
      BY RetrievalAssumption DEF NoTurn
    <2>4. QED
      BY <2>1, <2>2, <2>3
  <1>10. ASSUME NEW i \in Episodes
         PROVE  /\ row(i).withheld => row(i).relevant /\ ~row(i).delivered
                /\ row(i).delivered <=> row(i).via # "none"
                /\ row(i).via = "anchor" => q.turn[i] = q.anchor
                /\ row(i).recent => row(i).delivered /\ row(i).via \in {"both", "continuity"}
    <2>1. i \in W => i \in relevant /\ i \notin chosen
      BY <1>3, <1>4 DEF relevant
    <2>2. i \in chosen => Via(q, i) # "none"
      BY <1>7
    <2>3. i \in chosen /\ Via(q, i) = "anchor" => q.turn[i] = q.anchor
      BY <1>4, <1>7 DEF AnchorOf, relevant
    <2>4. i \in recent => i \in chosen /\ Via(q, i) \in {"both", "continuity"}
      BY <1>3, <1>4, <1>7
    <2>5. /\ row(i).withheld = (i \in W) /\ row(i).relevant = (i \in relevant) /\ row(i).recent = (i \in recent)
          /\ row(i).delivered = (i \in chosen) /\ row(i).via = IF i \in chosen THEN Via(q, i) ELSE "none"
      OBVIOUS
    <2> HIDE DEF row
    <2>6. QED
      BY <2>1, <2>2, <2>3, <2>4, <2>5
  <1>11. RowsTellTheTruth
    <2>1. \A i \in Episodes : answered.rows[i] = row(i)
      BY <1>2, <1>6
    <2> HIDE DEF row
    <2>2. QED
      BY <1>1, <1>2, <1>9, <1>10, <2>1 DEF RowsTellTheTruth, recent, all, W
  <1>12. QED
    BY <1>8, <1>11

(* Whatever was asked of whatever store, the answer that is given has what *)
(* the ceiling may not take and its trace is true.                         *)
THEOREM RemindersAreFair == RetrievalSpec => [](CeilingIsFair /\ RowsTellTheTruth)
  <1>1. RetrievalInit => Reminded /\ asked \in Queries
    BY DEF RetrievalInit, Reminded
  <1>2. Reminded /\ asked \in Queries /\ [RetrievalNext]_retrievalVars => (Reminded /\ asked \in Queries)'
    BY DEF Reminded, RetrievalNext, Retrieve, retrievalVars
  <1>3. QED
    BY <1>1, <1>2, AnswersAreFair, PTL DEF RetrievalSpec

-----------------------------------------------------------------------------
(* The merging of search results (SearchMerge).                            *)
FirstsOf(s) == {i \in DOMAIN s : s[i] # NoUrl /\ \A j \in 1 .. (i - 1) : s[j] # s[i]}

\* Where an address is, there or before it is the first place of it.
LEMMA FirstOccurs ==
  ASSUME NEW X, NEW s \in Seq(X), NEW i \in DOMAIN s, s[i] # NoUrl
  PROVE  \E x \in FirstsOf(s) : x <= i /\ s[x] = s[i]
  <1> DEFINE W == {x \in 1 .. Len(s) : s[x] = s[i]}
  <1>1. DOMAIN s = 1 .. Len(s) /\ Len(s) \in Nat
    BY LenProperties
  <1>2. W \subseteq Nat /\ i \in W
    BY <1>1
  <1>3. PICK x \in W : \A y \in W : x <= y
    BY <1>2, LeastNumber
  <1>4. \A j \in 1 .. (x - 1) : j \in 1 .. Len(s) /\ ~(x <= j)
    BY <1>1, <1>3
  <1>5. \A j \in 1 .. (x - 1) : s[j] # s[x]
    BY <1>3, <1>4
  <1>6. QED
    BY <1>1, <1>2, <1>3, <1>5 DEF FirstsOf

\* s has u before any v.
Precedes(s, u, v) == \E i \in DOMAIN s : s[i] = u /\ \A j \in 1 .. i : s[j] # v

\* The places from which the list without repetitions takes its members.
LEMMA DeduplicatedBy ==
  ASSUME NEW X, NEW s \in Seq(X)
  PROVE  \E order : /\ Deduplicated(s) = [k \in DOMAIN order |-> s[order[k]]]
                    /\ \E n \in Nat : /\ DOMAIN order = 1 .. n /\ order \in [1 .. n -> FirstsOf(s)]
                                      /\ \A x \in FirstsOf(s) : \E k \in 1 .. n : order[k] = x /\ k <= x
                                      /\ \A i, j \in 1 .. n : i < j <=> order[i] < order[j]
  <1> DEFINE S == FirstsOf(s)
             order == Ranked(S, Ascends(S))
  <1>1. Deduplicated(s) = [k \in DOMAIN order |-> s[order[k]]]
    BY DEF Deduplicated, FirstsOf, Ascends
  <1>2. DOMAIN s = 1 .. Len(s) /\ Len(s) \in Nat
    BY LenProperties
  <1>3. IsFiniteSet(S) /\ S \in SUBSET (1 .. Len(s))
    <2>1. S \in SUBSET (1 .. Len(s))
      BY <1>2 DEF FirstsOf
    <2>2. IsFiniteSet(1 .. Len(s))
      BY <1>2, FS_Interval
    <2>3. QED
      BY <2>1, <2>2, FS_Subset
  <1>4. Lists(order, S, Ascends(S))
    BY <1>3, AscendsOrder
  <1>5. PICK n \in Nat : n = Cardinality(S)
    BY <1>3, FS_CardinalityType
  <1> HIDE DEF order, S
  <1>6. DOMAIN order = 1 .. n /\ order \in [1 .. n -> S]
    BY <1>4, <1>5 DEF Lists
  <1>7. ASSUME NEW i \in 1 .. n, NEW j \in 1 .. n
        PROVE  i < j <=> order[i] < order[j]
    <2>1. i < j <=> <<order[i], order[j]>> \in Ascends(S)
      BY <1>4, <1>5 DEF Lists
    <2>2. order[i] \in S /\ order[j] \in S
      BY <1>6
    <2>3. QED
      BY <2>1, <2>2 DEF Ascends
  <1>8. ASSUME NEW x \in S
        PROVE  \E k \in 1 .. n : order[k] = x /\ k <= x
    <2>1. PICK k \in 1 .. n : k = Cardinality(BelowIn(Ascends(S), S, x)) + 1 /\ order[k] = x
      BY <1>4, <1>5 DEF Lists
    <2>2. BelowIn(Ascends(S), S, x) \subseteq 1 .. (x - 1) /\ x \in Nat /\ x >= 1
      <3>1. \A y \in S : y \in Nat /\ y >= 1
        BY <1>2, <1>3
      <3>2. ASSUME NEW y \in BelowIn(Ascends(S), S, x) PROVE y \in S /\ y < x
        BY <3>2 DEF BelowIn, Ascends
      <3>3. QED
        BY <3>1, <3>2
    <2>3. IsFiniteSet(1 .. (x - 1)) /\ Cardinality(1 .. (x - 1)) = x - 1
      BY <2>2, FS_Interval
    <2>4. Cardinality(BelowIn(Ascends(S), S, x)) <= x - 1 /\ Cardinality(BelowIn(Ascends(S), S, x)) \in Nat
      BY <2>2, <2>3, FS_Subset, FS_CardinalityType
    <2>5. k <= x
      BY <2>1, <2>2, <2>4
    <2>6. QED
      BY <2>1, <2>5
  <1>9. QED
    BY <1>1, <1>6, <1>7, <1>8 DEF S

\* What s has is in d at its first place in s or before it, and before what
\* is in d is all that precedes it in s.
FirstsFirst(s, d) ==
  /\ \A i \in DOMAIN s : s[i] # NoUrl => \E k \in DOMAIN d : k <= i /\ d[k] = s[i]
  /\ \A u : \A k \in DOMAIN d : u # NoUrl /\ Precedes(s, u, d[k]) => \E j \in DOMAIN d : j < k /\ d[j] = u

LEMMA DeduplicatedIs ==
  ASSUME NEW X, NEW s \in Seq(X), NEW d, d = Deduplicated(s)
  PROVE  /\ d \in Seq(X \ {NoUrl}) /\ ToSet(d) = ToSet(s) \ {NoUrl}
         /\ \A i, j \in DOMAIN d : d[i] = d[j] => i = j
         /\ FirstsFirst(s, d)
         /\ \A u, v : v # NoUrl /\ Precedes(d, u, v) => Precedes(s, u, v)
  <1>1. PICK order :
          /\ Deduplicated(s) = [k \in DOMAIN order |-> s[order[k]]]
          /\ \E n \in Nat : /\ DOMAIN order = 1 .. n /\ order \in [1 .. n -> FirstsOf(s)]
                            /\ \A x \in FirstsOf(s) : \E k \in 1 .. n : order[k] = x /\ k <= x
                            /\ \A i, j \in 1 .. n : i < j <=> order[i] < order[j]
    BY DeduplicatedBy
  <1>2. PICK n \in Nat : /\ DOMAIN order = 1 .. n /\ order \in [1 .. n -> FirstsOf(s)]
                         /\ \A x \in FirstsOf(s) : \E k \in 1 .. n : order[k] = x /\ k <= x
                         /\ \A i, j \in 1 .. n : i < j <=> order[i] < order[j]
    BY <1>1
  <1>3. d = [k \in 1 .. n |-> s[order[k]]]
    BY <1>1, <1>2
  <1>4. DOMAIN s = 1 .. Len(s) /\ Len(s) \in Nat /\ \A i \in 1 .. Len(s) : s[i] \in X
    BY LenProperties, ElementOfSeq
  <1>5. \A k \in 1 .. n : /\ order[k] \in 1 .. Len(s) /\ order[k] \in FirstsOf(s) /\ s[order[k]] # NoUrl
                          /\ \A j \in 1 .. (order[k] - 1) : s[j] # s[order[k]]
    BY <1>2, <1>4 DEF FirstsOf
  <1>6. DOMAIN d = 1 .. n /\ (\A k \in 1 .. n : d[k] = s[order[k]]) /\ d \in [1 .. n -> X \ {NoUrl}]
    BY <1>3, <1>4, <1>5
  <1>7. d \in Seq(X \ {NoUrl})
    BY <1>6, SeqDef
  <1>8. ASSUME NEW i \in DOMAIN s, s[i] # NoUrl
        PROVE  \E k \in 1 .. n : k <= i /\ d[k] = s[i]
    <2>1. PICK x \in FirstsOf(s) : x <= i /\ s[x] = s[i]
      BY <1>8, FirstOccurs
    <2>2. PICK k \in 1 .. n : order[k] = x /\ k <= x
      BY <1>2
    <2>3. x \in Nat /\ i \in Nat
      BY <1>4 DEF FirstsOf
    <2>4. k <= i
      BY <2>1, <2>2, <2>3
    <2>5. QED
      BY <1>6, <2>1, <2>2, <2>4
  <1>9. ToSet(d) = ToSet(s) \ {NoUrl}
    <2>1. ToSet(d) = {d[k] : k \in 1 .. n} /\ ToSet(s) = {s[i] : i \in DOMAIN s}
      BY <1>6 DEF ToSet
    <2>2. QED
      BY <1>4, <1>5, <1>6, <1>8, <2>1
  <1>10. ASSUME NEW i \in 1 .. n, NEW j \in 1 .. n, i < j
         PROVE  d[i] # d[j]
    <2>1. order[i] \in 1 .. (order[j] - 1)
      BY <1>2, <1>5, <1>10
    <2>2. QED
      BY <1>5, <1>6, <2>1
  <1>11. \A i, j \in 1 .. n : d[i] = d[j] => i = j
    <2> SUFFICES ASSUME NEW i \in 1 .. n, NEW j \in 1 .. n, d[i] = d[j], i # j
                 PROVE  FALSE
      OBVIOUS
    <2>1. i < j \/ j < i
      OBVIOUS
    <2>2. QED
      BY <1>10, <2>1
  <1>12. ASSUME NEW u, NEW v, v # NoUrl, Precedes(d, u, v)
         PROVE  Precedes(s, u, v)
    <2>1. PICK k \in 1 .. n : d[k] = u /\ \A j \in 1 .. k : d[j] # v
      BY <1>6, <1>12 DEF Precedes
    <2>2. ASSUME NEW j \in 1 .. order[k], s[j] = v PROVE FALSE
      <3>1. order[k] \in 1 .. Len(s) /\ j \in DOMAIN s
        BY <1>4, <1>5
      <3>2. PICK x \in FirstsOf(s) : x <= j /\ s[x] = v
        BY <1>12, <2>2, <3>1, FirstOccurs
      <3>3. PICK m \in 1 .. n : order[m] = x
        BY <1>2
      <3>4. order[m] <= order[k] /\ order[m] \in Nat /\ order[k] \in Nat
        BY <1>5, <3>1, <3>2, <3>3
      <3>5. ~(k < m)
        BY <1>2, <3>4
      <3>6. m \in 1 .. k /\ d[m] = v
        BY <1>6, <3>2, <3>3, <3>5
      <3>7. QED
        BY <2>1, <3>6
    <2>3. order[k] \in DOMAIN s /\ s[order[k]] = u
      BY <1>4, <1>5, <1>6, <2>1
    <2>4. QED
      BY <2>2, <2>3 DEF Precedes
  <1>13. ASSUME NEW u, NEW k \in 1 .. n, u # NoUrl, Precedes(s, u, d[k])
         PROVE  \E j \in 1 .. n : j < k /\ d[j] = u
    <2>1. PICK i \in DOMAIN s : s[i] = u /\ \A j \in 1 .. i : s[j] # d[k]
      BY <1>13 DEF Precedes
    <2>2. PICK x \in FirstsOf(s) : x <= i /\ s[x] = u
      BY <1>13, <2>1, FirstOccurs
    <2>3. PICK m \in 1 .. n : order[m] = x
      BY <1>2
    <2>4. order[k] \notin 1 .. i /\ order[k] \in 1 .. Len(s) /\ x \in Nat /\ i \in Nat
      BY <1>4, <1>5, <1>6, <2>1 DEF FirstsOf
    <2>5. order[m] < order[k]
      BY <2>2, <2>3, <2>4
    <2>6. m < k
      BY <1>2, <2>5
    <2>7. QED
      BY <1>6, <2>2, <2>3, <2>6
  <1>14. FirstsFirst(s, d)
    BY <1>6, <1>8, <1>13 DEF FirstsFirst
  <1>15. QED
    BY <1>6, <1>7, <1>9, <1>11, <1>12, <1>14

\* One of the lists has x there or before.
HasBy(lists, n, i, x) == \E m \in 1 .. n : \E h \in DOMAIN lists[m] : h <= i /\ lists[m][h] = x

\* All that r has is from the lists; before what stands at a place of one of
\* them it has only such of the others as stand there or before.
TakenFrom(r, lists, n) == \A k \in DOMAIN r : \E l \in 1 .. n : \E i \in DOMAIN lists[l] : lists[l][i] = r[k]

TakenInTurn(r, lists, n, l, i) ==
  \E k \in DOMAIN r : r[k] = lists[l][i] /\ \A j \in 1 .. k : HasBy(lists, n, i, r[j])

LEMMA RoundRobinIs ==
  ASSUME NEW X, NEW n \in Nat, NEW lists \in [1 .. n -> Seq(X)], NEW r, r = RoundRobin(lists)
  PROVE  /\ r \in Seq(X) /\ TakenFrom(r, lists, n)
         /\ \A l \in 1 .. n : \A i \in DOMAIN lists[l] : TakenInTurn(r, lists, n, l, i)
  <1> DEFINE S == UNION {(1 .. Len(lists[l])) \X {l} : l \in DOMAIN lists}
             R == {p \in S \X S : p[1][1] < p[2][1] \/ (p[1][1] = p[2][1] /\ p[1][2] < p[2][2])}
             order == Ranked(S, R)
  <1>1. r = [k \in DOMAIN order |-> lists[order[k][2]][order[k][1]]]
    BY DEF RoundRobin
  <1>2. \A l \in 1 .. n : DOMAIN lists[l] = 1 .. Len(lists[l]) /\ Len(lists[l]) \in Nat
    BY LenProperties
  <1>3. IsFiniteSet(S)
    <2> DEFINE f == [l \in 1 .. n |-> (1 .. Len(lists[l])) \X {l}]
               T == {f[l] : l \in 1 .. n}
    <2>1. f \in Surjection(1 .. n, T)
      BY DEF Surjection
    <2>2. IsFiniteSet(T)
      BY <2>1, FS_Interval, FS_Surjection
    <2>3. ASSUME NEW l \in 1 .. n PROVE IsFiniteSet(f[l])
      <3> PICK z \in Nat : z = Len(lists[l])
        BY <1>2
      <3>1. IsFiniteSet(1 .. z)
        BY FS_Interval
      <3>2. IsFiniteSet({l})
        BY FS_Singleton
      <3>3. IsFiniteSet((1 .. z) \X {l})
        BY <3>1, <3>2, FS_Product
      <3>4. QED
        BY <3>3
    <2>4. IsFiniteSet(UNION T)
      BY <2>2, <2>3, FS_UNION
    <2>5. UNION T = S
      OBVIOUS
    <2>6. QED
      BY <2>4, <2>5
  <1>4. \A p \in S : /\ p = <<p[1], p[2]>> /\ p[2] \in 1 .. n /\ p[1] \in 1 .. Len(lists[p[2]])
                     /\ p[1] \in Nat /\ p[2] \in Nat
    BY <1>2
  <1>5. ASSUME NEW l \in 1 .. n, NEW i \in DOMAIN lists[l]
        PROVE  <<i, l>> \in S
    BY <1>2
  <1>6. \A p, s \in S : <<p, s>> \in R <=> p[1] < s[1] \/ (p[1] = s[1] /\ p[2] < s[2])
    OBVIOUS
  <1> HIDE DEF S, R, order
  <1>7. IsOrderOn(R, S)
    <2>1. \A p \in S : <<p, p>> \notin R
      BY <1>4, <1>6
    <2>2. ASSUME NEW p \in S, NEW s \in S, p # s PROVE <<p, s>> \in R \/ <<s, p>> \in R
      <3>1. PICK a \in Nat, b \in Nat : p[1] = a /\ p[2] = b
        BY <1>4
      <3>2. PICK e \in Nat, g \in Nat : s[1] = e /\ s[2] = g
        BY <1>4
      <3>3. p = <<a, b>> /\ s = <<e, g>>
        BY <1>4, <3>1, <3>2
      <3>4. a # e \/ b # g
        BY <2>2, <3>3
      <3>5. a < e \/ (a = e /\ b < g) \/ e < a \/ (e = a /\ g < b)
        BY <3>4
      <3>6. /\ <<p, s>> \in R <=> a < e \/ (a = e /\ b < g)
            /\ <<s, p>> \in R <=> e < a \/ (e = a /\ g < b)
        BY <1>6, <3>1, <3>2
      <3>7. QED
        BY <3>5, <3>6
    <2>3. ASSUME NEW p \in S, NEW s \in S, NEW t \in S, <<p, s>> \in R, <<s, t>> \in R PROVE <<p, t>> \in R
      <3>1. PICK a \in Nat, b \in Nat : p[1] = a /\ p[2] = b
        BY <1>4
      <3>2. PICK e \in Nat, g \in Nat : s[1] = e /\ s[2] = g
        BY <1>4
      <3>3. PICK x \in Nat, y \in Nat : t[1] = x /\ t[2] = y
        BY <1>4
      <3>4. a < e \/ (a = e /\ b < g)
        BY <1>6, <2>3, <3>1, <3>2
      <3>5. e < x \/ (e = x /\ g < y)
        BY <1>6, <2>3, <3>2, <3>3
      <3>6. a < x \/ (a = x /\ b < y)
        BY <3>4, <3>5
      <3>7. QED
        BY <1>6, <3>1, <3>3, <3>6
    <2>4. QED
      BY <2>1, <2>2, <2>3 DEF IsOrderOn
  <1>8. Lists(order, S, R)
    BY <1>3, <1>7, RankedLists DEF order
  <1>9. PICK c \in Nat : c = Cardinality(S)
    BY <1>3, FS_CardinalityType
  <1>10. DOMAIN order = 1 .. c /\ \A k \in 1 .. c : order[k] \in S
    BY <1>8, <1>9 DEF Lists
  <1>11. DOMAIN r = 1 .. c /\ \A k \in 1 .. c : r[k] = lists[order[k][2]][order[k][1]]
    BY <1>1, <1>10
  <1>12. ASSUME NEW k \in 1 .. c
         PROVE  /\ order[k][2] \in 1 .. n /\ order[k][1] \in DOMAIN lists[order[k][2]] /\ order[k][1] \in Nat
                /\ r[k] \in X
    <2>1. order[k][2] \in 1 .. n /\ order[k][1] \in 1 .. Len(lists[order[k][2]]) /\ order[k][1] \in Nat
      BY <1>4, <1>10
    <2>2. lists[order[k][2]][order[k][1]] \in X
      BY <2>1, ElementOfSeq
    <2>3. QED
      BY <1>2, <1>11, <2>1, <2>2
  <1>13. r \in Seq(X)
    <2>1. r \in [1 .. c -> X]
      BY <1>1, <1>10, <1>11, <1>12
    <2>2. QED
      BY <2>1, SeqDef
  <1>14. ASSUME NEW l \in 1 .. n, NEW i \in DOMAIN lists[l]
         PROVE  \E k \in 1 .. c : r[k] = lists[l][i] /\ \A j \in 1 .. k : HasBy(lists, n, i, r[j])
    <2>1. PICK k \in 1 .. c : order[k] = <<i, l>>
      BY <1>5, <1>8, <1>9 DEF Lists
    <2>2. ASSUME NEW j \in 1 .. k
          PROVE  order[j][1] <= i
      <3>1. j \in 1 .. c /\ i \in Nat
        BY <1>2
      <3>2. CASE j = k
        BY <2>1, <3>1, <3>2
      <3>3. CASE j # k
        <4>1. j < k
          BY <3>3
        <4>2. <<order[j], order[k]>> \in R
          BY <1>8, <1>9, <3>1, <4>1 DEF Lists
        <4>3. order[j] \in S /\ order[k] \in S /\ order[k][1] = i
          <5>1. order[j] \in S /\ order[k] \in S
            BY <1>10, <3>1
          <5>2. QED
            BY <2>1, <5>1
        <4>4. order[j][1] < i \/ order[j][1] = i
          BY <1>6, <4>2, <4>3
        <4>5. QED
          BY <1>12, <3>1, <4>4
      <3>4. QED
        BY <3>2, <3>3
    <2>3. ASSUME NEW j \in 1 .. k
          PROVE  HasBy(lists, n, i, r[j])
      <3>1. j \in 1 .. c
        OBVIOUS
      <3>2. QED
        BY <1>11, <1>12, <2>2, <3>1 DEF HasBy
    <2>4. r[k] = lists[l][i]
      BY <1>11, <2>1
    <2>5. QED
      BY <2>3, <2>4
  <1>15. TakenFrom(r, lists, n)
    <2>1. ASSUME NEW k \in 1 .. c
          PROVE  \E l \in 1 .. n : \E i \in DOMAIN lists[l] : lists[l][i] = r[k]
      <3>1. PICK l \in 1 .. n : l = order[k][2]
        BY <1>12
      <3>2. PICK i \in DOMAIN lists[l] : i = order[k][1]
        BY <1>12, <3>1
      <3>3. lists[l][i] = r[k]
        BY <1>11, <3>1, <3>2
      <3>4. QED
        BY <3>3
    <2>2. QED
      BY <1>11, <2>1 DEF TakenFrom
  <1>16. DOMAIN r = 1 .. c
    BY <1>11
  <1>17. ASSUME NEW l \in 1 .. n, NEW i \in DOMAIN lists[l]
         PROVE  TakenInTurn(r, lists, n, l, i)
    BY <1>14, <1>16 DEF TakenInTurn
  <1>18. QED
    BY <1>13, <1>15, <1>17

\* The first n of a list and the rest of it.
LEMMA HalvesAre ==
  ASSUME NEW X, NEW s \in Seq(X), NEW n \in Nat
  PROVE  /\ Leading(s, n) \in Seq(X) /\ Len(Leading(s, n)) = Least(n, Len(s))
         /\ \A k \in 1 .. Least(n, Len(s)) : Leading(s, n)[k] = s[k]
         /\ After(s, n) \in Seq(X) /\ Len(After(s, n)) = Len(s) - Least(n, Len(s))
         /\ \A k \in 1 .. Len(s) - Least(n, Len(s)) : After(s, n)[k] = s[n + k]
         /\ Least(n, Len(s)) \in Nat /\ Len(s) \in Nat
  <1>1. PICK z \in Nat : z = Len(s)
    BY LenProperties
  <1>2. PICK m \in Nat : m = Least(n, z) /\ m <= z /\ m <= n /\ (m = n \/ m = z)
    BY DEF Least
  <1>3. /\ SubSeq(s, 1, m) \in Seq(X) /\ Len(SubSeq(s, 1, m)) = m /\ \A k \in 1 .. m : SubSeq(s, 1, m)[k] = s[k]
    BY <1>1, <1>2, PartOf
  <1>4. /\ SubSeq(s, n + 1, z) \in Seq(X) /\ Len(SubSeq(s, n + 1, z)) = IF n + 1 <= z THEN z - (n + 1) + 1 ELSE 0
        /\ \A k \in 1 .. (z - (n + 1) + 1) : SubSeq(s, n + 1, z)[k] = s[(n + 1) + k - 1]
    BY <1>1, PartOf
  <1>5. Len(SubSeq(s, n + 1, z)) = z - m
    BY <1>2, <1>4
  <1>6. \A k \in 1 .. (z - m) : k \in 1 .. (z - (n + 1) + 1) /\ (n + 1) + k - 1 = n + k
    BY <1>2
  <1>7. \A k \in 1 .. (z - m) : SubSeq(s, n + 1, z)[k] = s[n + k]
    BY <1>4, <1>6
  <1>8. Leading(s, n) = SubSeq(s, 1, m) /\ After(s, n) = SubSeq(s, n + 1, z)
    BY <1>1, <1>2 DEF Leading, After
  <1>9. QED
    BY <1>1, <1>2, <1>3, <1>4, <1>5, <1>7, <1>8

LEMMA HalvesTogether ==
  ASSUME NEW X, NEW s \in Seq(X), NEW n \in Nat
  PROVE  ToSet(Leading(s, n)) \cup ToSet(After(s, n)) = ToSet(s)
  <1>0. /\ Leading(s, n) \in Seq(X) /\ Len(Leading(s, n)) = Least(n, Len(s))
        /\ \A k \in 1 .. Least(n, Len(s)) : Leading(s, n)[k] = s[k]
        /\ After(s, n) \in Seq(X) /\ Len(After(s, n)) = Len(s) - Least(n, Len(s))
        /\ \A k \in 1 .. Len(s) - Least(n, Len(s)) : After(s, n)[k] = s[n + k]
        /\ Least(n, Len(s)) \in Nat /\ Len(s) \in Nat
    BY HalvesAre
  <1>1. PICK m \in Nat, z \in Nat : m = Least(n, Len(s)) /\ z = Len(s)
    BY <1>0
  <1>2. /\ Leading(s, n) \in Seq(X) /\ Len(Leading(s, n)) = m /\ \A k \in 1 .. m : Leading(s, n)[k] = s[k]
        /\ After(s, n) \in Seq(X) /\ Len(After(s, n)) = z - m /\ \A k \in 1 .. (z - m) : After(s, n)[k] = s[n + k]
    BY <1>0, <1>1
  <1>3. m <= z /\ m <= n /\ (m = n \/ m = z)
    BY <1>1 DEF Least
  <1>4. DOMAIN s = 1 .. z /\ DOMAIN Leading(s, n) = 1 .. m /\ DOMAIN After(s, n) = 1 .. (z - m)
    BY <1>1, <1>2, LenProperties
  <1>5. /\ ToSet(s) = {s[k] : k \in 1 .. z} /\ ToSet(Leading(s, n)) = {Leading(s, n)[k] : k \in 1 .. m}
        /\ ToSet(After(s, n)) = {After(s, n)[k] : k \in 1 .. (z - m)}
    BY <1>4 DEF ToSet
  <1>6. \A k \in 1 .. m : k \in 1 .. z
    BY <1>3
  <1>7. \A k \in 1 .. (z - m) : n + k \in 1 .. z
    BY <1>3
  <1>8. ASSUME NEW k \in 1 .. z
        PROVE  s[k] \in ToSet(Leading(s, n)) \cup ToSet(After(s, n))
    <2>1. CASE k <= m
      BY <1>2, <1>5, <2>1
    <2>2. CASE ~(k <= m)
      <3>1. PICK j \in 1 .. (z - m) : n + j = k
        <4>1. m = n /\ k - n \in 1 .. (z - m) /\ n + (k - n) = k
          BY <1>3, <2>2
        <4>2. QED
          BY <4>1
      <3>2. After(s, n)[j] = s[k]
        BY <1>2, <3>1
      <3>3. QED
        BY <1>5, <3>2
    <2>3. QED
      BY <2>1, <2>2
  <1>9. ToSet(s) \subseteq ToSet(Leading(s, n)) \cup ToSet(After(s, n))
    BY <1>5, <1>8
  <1>10. \A k \in 1 .. m : Leading(s, n)[k] \in ToSet(s)
    BY <1>2, <1>5, <1>6
  <1>11. \A k \in 1 .. (z - m) : After(s, n)[k] \in ToSet(s)
    BY <1>2, <1>5, <1>7
  <1>12. ToSet(Leading(s, n)) \subseteq ToSet(s) /\ ToSet(After(s, n)) \subseteq ToSet(s)
    BY <1>5, <1>10, <1>11
  <1>13. QED
    BY <1>9, <1>12

\* What precedes another among the scholarly results, and is not one of the
\* web's, precedes it when those of the web are put between.
LEMMA StaysAhead ==
  ASSUME NEW X, NEW s \in Seq(X), \A i, j \in DOMAIN s : s[i] = s[j] => i = j,
         NEW web \in Seq(X), NEW cap \in Nat, NEW reserve \in Nat,
         NEW z, z = Leading(s, cap) \o Leading(web, reserve) \o After(s, cap) \o After(web, reserve),
         NEW pu \in DOMAIN s, NEW pv \in DOMAIN s, pu < pv, s[pv] \notin ToSet(web)
  PROVE  Precedes(z, s[pu], s[pv])
  <1> DEFINE A == Leading(s, cap)
             B == Leading(web, reserve)
             C == After(s, cap)
             E == After(web, reserve)
  <1>1. PICK n \in Nat, a \in Nat : n = Len(s) /\ a = Least(cap, Len(s))
    BY HalvesAre
  <1>2. /\ A \in Seq(X) /\ Len(A) = a /\ \A k \in 1 .. a : A[k] = s[k]
        /\ C \in Seq(X) /\ Len(C) = n - a /\ \A k \in 1 .. (n - a) : C[k] = s[cap + k]
    <2> HIDE DEF A, C
    <2>1. /\ A \in Seq(X) /\ Len(A) = Least(cap, Len(s)) /\ \A k \in 1 .. Least(cap, Len(s)) : A[k] = s[k]
      BY HalvesAre DEF A
    <2>2. /\ C \in Seq(X) /\ Len(C) = Len(s) - Least(cap, Len(s))
          /\ \A k \in 1 .. Len(s) - Least(cap, Len(s)) : C[k] = s[cap + k]
      BY HalvesAre DEF C
    <2>3. QED
      BY <1>1, <2>1, <2>2
  <1>3. a <= n /\ a <= cap /\ (a = cap \/ a = n)
    BY <1>1 DEF Least
  <1>4. B \in Seq(X) /\ E \in Seq(X) /\ ToSet(B) \cup ToSet(E) = ToSet(web)
    BY HalvesAre, HalvesTogether
  <1>5. PICK b \in Nat, e \in Nat, c \in Nat : b = Len(B) /\ e = Len(E) /\ c = n - a /\ c = Len(C)
    BY <1>2, <1>3, <1>4, LenProperties
  <1>6. DOMAIN s = 1 .. n /\ DOMAIN B = 1 .. b /\ z = A \o B \o C \o E
    BY <1>1, <1>4, <1>5, LenProperties
  <1> HIDE DEF A, B, C, E
  <1>7. /\ z \in Seq(X) /\ DOMAIN z = 1 .. (a + b + c + e)
        /\ \A i \in 1 .. a : z[i] = A[i]
        /\ \A i \in 1 .. b : z[a + i] = B[i]
        /\ \A i \in 1 .. c : z[a + b + i] = C[i]
    <2>1. A \in Seq(X) /\ B \in Seq(X) /\ C \in Seq(X) /\ E \in Seq(X) /\ z = A \o B \o C \o E
      BY <1>2, <1>4, <1>6
    <2>2. a = Len(A) /\ b = Len(B) /\ c = Len(C) /\ e = Len(E)
      BY <1>2, <1>5
    <2>3. z \in Seq(X) /\ Joined(z, A, B, C, E, a, b, c, e)
      BY <2>1, <2>2, JoinedIs
    <2>4. QED
      BY <2>3 DEF Joined
  <1>8. \A i \in 1 .. b : B[i] # s[pv]
    BY <1>4, <1>6 DEF ToSet
  <1>9. PICK x \in Nat : x = IF pu <= cap THEN pu ELSE a + b + (pu - cap)
    BY <1>6
  <1>10. x \in DOMAIN z /\ z[x] = s[pu]
    <2>1. CASE pu <= cap
      <3>1. x = pu /\ pu \in 1 .. a
        BY <1>3, <1>6, <1>9, <2>1
      <3>2. x \in 1 .. (a + b + c + e)
        BY <3>1
      <3>3. QED
        BY <1>2, <1>7, <3>1, <3>2
    <2>2. CASE ~(pu <= cap)
      <3>1. PICK k \in 1 .. c : pu = cap + k /\ x = a + b + k
        <4>1. pu - cap \in 1 .. c /\ pu = cap + (pu - cap)
          BY <1>3, <1>5, <1>6, <2>2
        <4>2. QED
          BY <1>9, <2>2, <4>1
      <3>2. x \in 1 .. (a + b + c + e)
        BY <3>1
      <3>3. z[x] = C[k]
        BY <1>7, <3>1
      <3>4. C[k] = s[cap + k]
        BY <1>2, <1>5
      <3>5. QED
        BY <1>7, <3>1, <3>2, <3>3, <3>4
    <2>3. QED
      BY <2>1, <2>2
  <1>11. ASSUME NEW j \in 1 .. x, z[j] = s[pv]
         PROVE  FALSE
    <2>1. CASE j <= a
      <3>1. j \in 1 .. a /\ j \in 1 .. n /\ j <= cap
        BY <1>3, <2>1
      <3>2. s[j] = s[pv]
        BY <1>2, <1>7, <1>11, <3>1
      <3>3. j = pv
        BY <1>6, <3>1, <3>2
      <3>4. pu <= cap /\ x = pu
        BY <1>6, <1>9, <3>1, <3>3
      <3>5. QED
        BY <1>6, <3>3, <3>4
    <2>2. CASE a < j /\ j <= a + b
      <3>1. PICK k \in 1 .. b : j = a + k
        <4>1. j - a \in 1 .. b /\ j = a + (j - a)
          BY <2>2
        <4>2. QED
          BY <4>1
      <3>2. z[j] = B[k]
        BY <1>7, <3>1
      <3>3. QED
        BY <1>8, <1>11, <3>2
    <2>3. CASE a + b < j
      <3>1. ~(pu <= cap) /\ x = a + b + (pu - cap) /\ a = cap
        BY <1>3, <1>6, <1>9, <2>3
      <3>2. PICK k \in 1 .. c : j = a + b + k /\ cap + k <= pu /\ cap + k \in 1 .. n
        <4>1. j - (a + b) \in 1 .. c /\ j = a + b + (j - (a + b)) /\ cap + (j - (a + b)) <= pu /\ cap + (j - (a + b)) \in 1 .. n
          BY <1>3, <1>5, <1>6, <2>3, <3>1
        <4>2. QED
          BY <4>1
      <3>3. z[j] = C[k]
        BY <1>7, <3>2
      <3>4. C[k] = s[cap + k]
        BY <1>2, <1>5
      <3>5. cap + k = pv
        BY <1>6, <1>11, <3>2, <3>3, <3>4
      <3>6. QED
        BY <1>6, <3>2, <3>5
    <2>4. QED
      BY <2>1, <2>2, <2>3
  <1>12. QED
    BY <1>10, <1>11 DEF Precedes

LEMMA IndexIs ==
  ASSUME NEW X, NEW l, Heard(l) \in Seq(X), NEW u \in ToSet(Heard(l))
  PROVE  /\ IndexIn(l, u) \in DOMAIN Heard(l) /\ IndexIn(l, u) \in Nat /\ Heard(l)[IndexIn(l, u)] = u
         /\ \A i \in DOMAIN Heard(l) : Heard(l)[i] = u => IndexIn(l, u) <= i
  <1> DEFINE s == Heard(l)
             P == {i \in DOMAIN s : s[i] = u}
  <1>1. PICK n \in Nat : n = Len(s) /\ DOMAIN s = 1 .. n
    BY LenProperties
  <1>2. PICK i \in 1 .. n : s[i] = u
    BY <1>1 DEF ToSet
  <1>3. IndexIn(l, u) = Min({n + 1} \cup P)
    BY <1>1 DEF IndexIn
  <1> HIDE DEF s
  <1>4. {n + 1} \cup P \subseteq Nat /\ i \in P
    BY <1>1, <1>2
  <1>5. Min({n + 1} \cup P) \in {n + 1} \cup P /\ \A y \in {n + 1} \cup P : Min({n + 1} \cup P) <= y
    BY <1>4, MinOf
  <1>6. PICK m \in {n + 1} \cup P : m = IndexIn(l, u) /\ m <= i /\ \A y \in P : m <= y
    BY <1>3, <1>4, <1>5
  <1>7. m # n + 1
    BY <1>2, <1>6
  <1>8. m \in P /\ m \in Nat
    BY <1>4, <1>6, <1>7
  <1>9. QED
    BY <1>6, <1>8 DEF s

LEMMA BestIs ==
  ASSUME NEW X, \A l \in 1 .. Scholars : Heard(l) \in Seq(X), NEW m \in 1 .. Scholars, NEW u \in ToSet(Heard(m))
  PROVE  /\ \E l \in 1 .. Scholars : \E i \in DOMAIN Heard(l) : Heard(l)[i] = u /\ i = Best(u) /\ i \in Nat
         /\ \A l \in 1 .. Scholars : \A i \in DOMAIN Heard(l) : Heard(l)[i] = u => Best(u) <= i
  <1> DEFINE L == {l \in 1 .. Scholars : u \in ToSet(Heard(l))}
             I == {IndexIn(l, u) : l \in L}
  <1>1. ASSUME NEW l \in L
        PROVE  /\ IndexIn(l, u) \in DOMAIN Heard(l) /\ IndexIn(l, u) \in Nat /\ Heard(l)[IndexIn(l, u)] = u
               /\ \A i \in DOMAIN Heard(l) : Heard(l)[i] = u => IndexIn(l, u) <= i
    BY IndexIs
  <1>2. I \subseteq Nat /\ I # {}
    BY <1>1
  <1>3. Best(u) = Min(I)
    BY DEF Best
  <1>4. Min(I) \in I /\ \A y \in I : Min(I) <= y
    BY <1>2, MinOf
  <1>5. ASSUME NEW l \in 1 .. Scholars, NEW i \in DOMAIN Heard(l), Heard(l)[i] = u
        PROVE  Best(u) <= i
    <2>1. l \in L
      BY <1>5 DEF ToSet
    <2>2. Best(u) <= IndexIn(l, u) /\ IndexIn(l, u) <= i
      BY <1>1, <1>3, <1>4, <1>5, <2>1
    <2>3. Best(u) \in Nat /\ IndexIn(l, u) \in Nat /\ i \in Nat
      BY <1>1, <1>2, <1>3, <1>4, <2>1, LenProperties
    <2>4. QED
      BY <2>2, <2>3
  <1>6. QED
    BY <1>1, <1>3, <1>4, <1>5

\* Of two that the scholarly providers name in turn, the first is no worse.
LEMMA TurnsAreFair ==
  ASSUME NEW X, Scholars \in Nat, \A l \in 1 .. Scholars : Heard(l) \in Seq(X),
         NEW r, r = RoundRobin([l \in 1 .. Scholars |-> Heard(l)]),
         NEW u \in ToSet(r), NEW v, Precedes(r, v, u)
  PROVE  Best(v) <= Best(u)
  <1> DEFINE lists == [l \in 1 .. Scholars |-> Heard(l)]
  <1>1. lists \in [1 .. Scholars -> Seq(X)] /\ \A l \in 1 .. Scholars : lists[l] = Heard(l)
    OBVIOUS
  <1>2. /\ r \in Seq(X) /\ TakenFrom(r, lists, Scholars)
        /\ \A l \in 1 .. Scholars : \A i \in DOMAIN lists[l] : TakenInTurn(r, lists, Scholars, l, i)
    <2>1. r = RoundRobin(lists)
      OBVIOUS
    <2> HIDE DEF lists
    <2>2. QED
      BY <1>1, <2>1, RoundRobinIs
  <1> HIDE DEF lists
  <1>3. PICK m \in 1 .. Scholars : u \in ToSet(Heard(m))
    BY <1>1, <1>2 DEF ToSet, TakenFrom
  <1>4. PICK l \in 1 .. Scholars : \E i \in DOMAIN Heard(l) : Heard(l)[i] = u /\ i = Best(u) /\ i \in Nat
    BY <1>3, BestIs
  <1>5. Best(u) \in DOMAIN lists[l] /\ lists[l][Best(u)] = u /\ Best(u) \in Nat
    BY <1>1, <1>4
  <1>6. PICK k \in DOMAIN r : r[k] = u /\ \A j \in 1 .. k : HasBy(lists, Scholars, Best(u), r[j])
    <2>1. TakenInTurn(r, lists, Scholars, l, Best(u))
      BY <1>2, <1>5
    <2>2. QED
      BY <1>5, <2>1 DEF TakenInTurn
  <1>7. PICK p \in DOMAIN r : r[p] = v /\ \A j \in 1 .. p : r[j] # u
    BY DEF Precedes
  <1>8. p \in 1 .. k
    <2>1. k \notin 1 .. p
      BY <1>6, <1>7
    <2>2. k \in Nat /\ k >= 1 /\ p \in Nat /\ p >= 1
      BY <1>2, LenProperties
    <2>3. QED
      BY <2>1, <2>2
  <1>9. HasBy(lists, Scholars, Best(u), v)
    BY <1>6, <1>7, <1>8
  <1>10. PICK g \in 1 .. Scholars : \E h \in DOMAIN Heard(g) : h <= Best(u) /\ Heard(g)[h] = v
    BY <1>1, <1>9 DEF HasBy
  <1>11. PICK h \in DOMAIN Heard(g) : h <= Best(u) /\ Heard(g)[h] = v
    BY <1>10
  <1>12. v \in ToSet(Heard(g))
    BY <1>11 DEF ToSet
  <1>13. Best(v) <= h
    BY <1>11, <1>12, BestIs
  <1>14. Best(v) \in Nat
    BY <1>12, BestIs
  <1>15. h \in Nat
    <2>1. Heard(g) \in Seq(X)
      OBVIOUS
    <2>2. QED
      BY <2>1, LenProperties
  <1>16. QED
    BY <1>5, <1>11, <1>13, <1>14, <1>15

\* The names of the lists and of what is made of them.
InTurnOfAll == RoundRobin([l \in 1 .. Scholars |-> Heard(l)])

OfScholars == Deduplicated(InTurnOfAll)

Lined == LET cap == wanted - WebReserve
         IN Leading(OfScholars, cap) \o Leading(Heard(Web), WebReserve) \o After(OfScholars, cap) \o After(Heard(Web), WebReserve)

ListsAreIn == wanted \in Nat /\ \A l \in 1 .. Web : Heard(l) \in Seq(Urls \cup {NoUrl})

LEMMA ScholarsAre ==
  ASSUME ListsAreIn
  PROVE  /\ Scholars \in Nat /\ Web \in 1 .. Web /\ \A l \in 1 .. Scholars : Heard(l) \in Seq(Urls \cup {NoUrl})
         /\ InTurnOfAll \in Seq(Urls \cup {NoUrl}) /\ OfScholars \in Seq(Urls \cup {NoUrl})
         /\ ToSet(InTurnOfAll) \ {NoUrl} = Scholarly /\ ToSet(OfScholars) = Scholarly
         /\ \A i, j \in DOMAIN OfScholars : OfScholars[i] = OfScholars[j] => i = j
         /\ \A u, v : v # NoUrl /\ Precedes(OfScholars, u, v) => Precedes(InTurnOfAll, u, v)
  <1> DEFINE X == Urls \cup {NoUrl}
             lists == [l \in 1 .. Scholars |-> Heard(l)]
             r == InTurnOfAll
             s == OfScholars
  <1>1. Scholars \in Nat /\ Web = Scholars + 1
    BY MergeAssumption DEF Web
  <1>2. Web \in 1 .. Web /\ \A l \in 1 .. Scholars : l \in 1 .. Web
    BY <1>1
  <1>3. \A l \in 1 .. Scholars : Heard(l) \in Seq(X)
    BY <1>2 DEF ListsAreIn
  <1>4. lists \in [1 .. Scholars -> Seq(X)] /\ (\A l \in 1 .. Scholars : lists[l] = Heard(l)) /\ r = RoundRobin(lists)
    BY <1>3 DEF InTurnOfAll
  <1> HIDE DEF lists, X, r
  <1>5. /\ r \in Seq(X) /\ TakenFrom(r, lists, Scholars)
        /\ \A l \in 1 .. Scholars : \A i \in DOMAIN lists[l] : TakenInTurn(r, lists, Scholars, l, i)
    BY <1>1, <1>4, RoundRobinIs
  <1>6. ToSet(r) = UNION {ToSet(Heard(l)) : l \in 1 .. Scholars}
    <2>1. ASSUME NEW u \in ToSet(r) PROVE \E l \in 1 .. Scholars : u \in ToSet(Heard(l))
      <3>1. PICK k \in DOMAIN r : r[k] = u
        BY DEF ToSet
      <3>2. PICK l \in 1 .. Scholars : \E i \in DOMAIN lists[l] : lists[l][i] = u
        BY <1>5, <3>1 DEF TakenFrom
      <3>3. QED
        BY <1>4, <3>2 DEF ToSet
    <2>2. ASSUME NEW l \in 1 .. Scholars, NEW u \in ToSet(Heard(l)) PROVE u \in ToSet(r)
      <3>1. PICK i \in DOMAIN lists[l] : lists[l][i] = u
        BY <1>4 DEF ToSet
      <3>2. TakenInTurn(r, lists, Scholars, l, i)
        BY <1>5
      <3>3. QED
        BY <3>1, <3>2 DEF TakenInTurn, ToSet
    <2>3. QED
      BY <2>1, <2>2
  <1>7. s = Deduplicated(r)
    BY DEF OfScholars, r
  <1>8. /\ s \in Seq(X \ {NoUrl}) /\ ToSet(s) = ToSet(r) \ {NoUrl}
        /\ \A i, j \in DOMAIN s : s[i] = s[j] => i = j
        /\ \A u, v : v # NoUrl /\ Precedes(s, u, v) => Precedes(r, u, v)
    BY <1>5, <1>7, DeduplicatedIs
  <1> HIDE DEF s
  <1>9. s \in Seq(X)
    BY <1>8 DEF X
  <1>10. ToSet(r) \ {NoUrl} = Scholarly
    BY <1>6 DEF Scholarly
  <1>11. QED
    BY <1>1, <1>2, <1>3, <1>5, <1>8, <1>9, <1>10 DEF X, r, s

LEMMA LinedIs ==
  ASSUME ListsAreIn
  PROVE  /\ Lined \in Seq(Urls \cup {NoUrl}) /\ ToSet(Lined) \ {NoUrl} = Found
         /\ \A u \in ToSet(Leading(Heard(Web), WebReserve)) : \E i \in DOMAIN Lined : i <= wanted /\ Lined[i] = u
         /\ \A i, j \in DOMAIN OfScholars :
              i < j /\ OfScholars[j] \notin ToSet(Heard(Web)) => Precedes(Lined, OfScholars[i], OfScholars[j])
  <1>1. PICK X : X = Urls \cup {NoUrl}
    OBVIOUS
  <1>2. PICK s \in Seq(X) : s = OfScholars /\ ToSet(s) = Scholarly /\ \A i, j \in DOMAIN s : s[i] = s[j] => i = j
    BY <1>1, ScholarsAre
  <1>3. PICK web \in Seq(X) : web = Heard(Web)
    BY <1>1, ScholarsAre DEF ListsAreIn
  <1>4. PICK reserve \in Nat : reserve = WebReserve /\ reserve <= wanted
    <2>1. PICK w \in Nat : w = wanted
      BY DEF ListsAreIn
    <2>2. PICK third \in Nat : third = w \div 3 /\ third <= w
      OBVIOUS
    <2>3. Least(2, third) \in Nat /\ Least(2, third) <= third
      BY DEF Least
    <2>4. QED
      BY <2>1, <2>2, <2>3 DEF WebReserve
  <1>5. PICK cap \in Nat : cap = wanted - reserve
    BY <1>4 DEF ListsAreIn
  <1>6. PICK A, B, C, E : /\ A = Leading(s, cap) /\ B = Leading(web, reserve)
                          /\ C = After(s, cap) /\ E = After(web, reserve)
    OBVIOUS
  <1>7. Lined = A \o B \o C \o E
    BY <1>2, <1>3, <1>4, <1>5, <1>6 DEF Lined
  <1>8. A \in Seq(X) /\ B \in Seq(X) /\ C \in Seq(X) /\ E \in Seq(X)
    BY <1>6, HalvesAre
  <1>9. Len(A) = Least(cap, Len(s)) /\ Len(B) = Least(reserve, Len(web)) /\ Len(s) \in Nat /\ Len(web) \in Nat
    BY <1>6, HalvesAre
  <1>10. PICK z : z = A \o B \o C \o E
    OBVIOUS
  <1>11. PICK a \in Nat, b \in Nat, c \in Nat, e \in Nat : a = Len(A) /\ b = Len(B) /\ c = Len(C) /\ e = Len(E)
    BY <1>8, LenProperties
  <1>12. z \in Seq(X) /\ Joined(z, A, B, C, E, a, b, c, e)
    BY <1>8, <1>10, <1>11, JoinedIs
  <1>13. ToSet(z) = ToSet(A) \cup ToSet(B) \cup ToSet(C) \cup ToSet(E)
    BY <1>8, <1>10, MembersOfJoined
  <1>14. ToSet(A) \cup ToSet(C) = ToSet(s) /\ ToSet(B) \cup ToSet(E) = ToSet(web)
    BY <1>6, HalvesTogether
  <1>15. ToSet(z) \ {NoUrl} = Found
    <2>1. Scholarly \ {NoUrl} = Scholarly
      BY DEF Scholarly
    <2>2. ToSet(z) = Scholarly \cup ToSet(web)
      BY <1>2, <1>13, <1>14
    <2>3. QED
      BY <1>3, <2>1, <2>2 DEF Found
  <1>16. a <= cap /\ b <= reserve
    BY <1>9, <1>11 DEF Least
  <1>17. ASSUME NEW u \in ToSet(B)
         PROVE  \E i \in DOMAIN z : i <= wanted /\ z[i] = u
    <2>1. PICK k \in 1 .. b : B[k] = u
      BY <1>8, <1>11, LenProperties DEF ToSet
    <2>2. PICK i \in Nat : i = a + k
      OBVIOUS
    <2>3. i \in 1 .. (a + b + c + e)
      BY <2>2
    <2>4. i \in DOMAIN z /\ z[i] = u
      BY <1>12, <2>1, <2>2, <2>3 DEF Joined
    <2>5. i <= wanted
      BY <1>4, <1>5, <1>16, <2>2 DEF ListsAreIn
    <2>6. QED
      BY <2>4, <2>5
  <1>18. ASSUME NEW i \in DOMAIN s, NEW j \in DOMAIN s, i < j, s[j] \notin ToSet(web)
         PROVE  Precedes(z, s[i], s[j])
    <2>1. z = Leading(s, cap) \o Leading(web, reserve) \o After(s, cap) \o After(web, reserve)
      BY <1>6, <1>10
    <2>2. QED
      BY <1>2, <1>18, <2>1, StaysAhead
  <1>19. z = Lined
    BY <1>7, <1>10
  <1>20. Lined \in Seq(Urls \cup {NoUrl}) /\ ToSet(Lined) \ {NoUrl} = Found
    BY <1>1, <1>12, <1>15, <1>19
  <1>21. \A u \in ToSet(Leading(Heard(Web), WebReserve)) : \E i \in DOMAIN Lined : i <= wanted /\ Lined[i] = u
    BY <1>3, <1>4, <1>6, <1>17, <1>19
  <1>22. \A i, j \in DOMAIN OfScholars :
           i < j /\ OfScholars[j] \notin ToSet(Heard(Web)) => Precedes(Lined, OfScholars[i], OfScholars[j])
    BY <1>2, <1>3, <1>18, <1>19
  <1>23. QED
    BY <1>20, <1>21, <1>22

LEMMA MergedFairly ==
  ASSUME ListsAreIn, merged = [results |-> MergedResults, errors |-> {l \in 1 .. Web : legs[l] = LegFailed}]
  PROVE  MergeIsFair
  <1>1. PICK w \in Nat : w = wanted
    BY DEF ListsAreIn
  <1>2. PICK X : X = Urls \cup {NoUrl}
    OBVIOUS
  <1>3. PICK z \in Seq(X) : z = Lined /\ ToSet(z) \ {NoUrl} = Found
    BY <1>2, LinedIs
  <1>4. PICK d : d = Deduplicated(z)
    OBVIOUS
  <1>5. d \in Seq(X \ {NoUrl}) /\ ToSet(d) = Found /\ \A i, j \in DOMAIN d : d[i] = d[j] => i = j
    BY <1>3, <1>4, DeduplicatedIs
  <1>d. /\ \A i \in DOMAIN z : z[i] # NoUrl => \E k \in DOMAIN d : k <= i /\ d[k] = z[i]
        /\ \A u : \A k \in DOMAIN d : u # NoUrl /\ Precedes(z, u, d[k]) => \E j \in DOMAIN d : j < k /\ d[j] = u
    <2>1. FirstsFirst(z, d)
      BY <1>4, DeduplicatedIs
    <2>2. QED
      BY <2>1 DEF FirstsFirst
  <1>6. PICK res : res = Leading(d, w)
    OBVIOUS
  <1>7. MergedResults = res
    BY <1>1, <1>3, <1>4, <1>6 DEF MergedResults, Lined, OfScholars, InTurnOfAll
  <1>n. PICK n \in Nat : n = Len(d)
    BY <1>5, LenProperties
  <1>8. PICK m \in Nat : m = Least(w, n) /\ m <= w /\ m <= n /\ (m = w \/ m = n)
    BY DEF Least
  <1>9. res \in Seq(X \ {NoUrl}) /\ Len(res) = m /\ \A k \in 1 .. m : res[k] = d[k]
    BY <1>5, <1>6, <1>n, <1>8, HalvesAre
  <1>10. DOMAIN d = 1 .. n /\ DOMAIN res = 1 .. m
    BY <1>5, <1>n, <1>8, <1>9, LenProperties
  <1>11. PICK K : K = ToSet(res)
    OBVIOUS
  <1>12. K = {d[k] : k \in 1 .. m} /\ \A k \in 1 .. m : k \in 1 .. n
    <2>1. \A k \in 1 .. m : k \in 1 .. n
      BY <1>8
    <2>2. K = {res[k] : k \in 1 .. m}
      BY <1>10, <1>11 DEF ToSet
    <2>3. K = {d[k] : k \in 1 .. m}
      BY <1>9, <2>2
    <2>4. QED
      BY <2>1, <2>3
  <1>13. Cardinality(K) = m
    <2>1. res \in [1 .. m -> K] /\ \A k \in K : \E i \in 1 .. m : res[i] = k
      BY <1>9, <1>10, <1>12, SeqDef, ElementOfSeq
    <2>2. \A i, j \in 1 .. m : res[i] = res[j] => i = j
      BY <1>5, <1>9, <1>10, <1>12
    <2>3. res \in Bijection(1 .. m, K)
      BY <2>1, <2>2 DEF Bijection, Injection, Surjection, IsInjective
    <2>4. QED
      BY <2>3, FS_CountingElements DEF ExistsBijection
  <1>14. K \subseteq Found
    BY <1>5, <1>10, <1>12 DEF ToSet
  <1>15. K # Found => m = w
    BY <1>5, <1>8, <1>10, <1>12 DEF ToSet
  <1>16. ASSUME NEW u \in ToSet(Leading(Heard(Web), WebReserve)), u # NoUrl
         PROVE  u \in K
    <2>1. PICK i \in DOMAIN z : i <= w /\ z[i] = u
      BY <1>1, <1>3, LinedIs
    <2>2. PICK k \in DOMAIN d : k <= i /\ d[k] = u
      BY <1>d, <1>16, <2>1
    <2>3. k \in Nat /\ i \in Nat /\ k \in 1 .. n
      BY <1>3, <1>10, <2>1, <2>2, LenProperties
    <2>4. k \in 1 .. m
      BY <1>8, <2>1, <2>2, <2>3
    <2>5. QED
      BY <1>12, <2>2, <2>4
  <1>17. ASSUME NEW u \in Scholarly \ K, NEW v \in K, v \in Scholarly, v \notin ToSet(Heard(Web))
         PROVE  Best(v) <= Best(u)
    <2>1. PICK s \in Seq(X) : s = OfScholars /\ ToSet(s) = Scholarly
      BY <1>2, ScholarsAre
    <2>2. PICK i \in DOMAIN s, j \in DOMAIN s : s[i] = u /\ s[j] = v
      BY <1>17, <2>1 DEF ToSet
    <2>3. i \in Nat /\ j \in Nat /\ i # j /\ DOMAIN s = 1 .. Len(s) /\ Len(s) \in Nat
      BY <1>17, <2>2, LenProperties
    <2>4. u # NoUrl /\ v # NoUrl
      BY <1>17 DEF Scholarly
    <2>5. ~(i < j)
      <3> SUFFICES ASSUME i < j PROVE FALSE
        OBVIOUS
      <3>1. Precedes(z, u, v)
        BY <1>3, <1>17, <2>1, <2>2, LinedIs
      <3>2. PICK k \in 1 .. m : d[k] = v
        BY <1>12
      <3>3. PICK h \in DOMAIN d : h < k /\ d[h] = u
        BY <1>d, <1>10, <1>12, <2>4, <3>1, <3>2
      <3>4. h \in 1 .. m
        BY <1>10, <3>3
      <3>5. QED
        BY <1>12, <1>17, <3>3, <3>4
    <2>6. Precedes(s, v, u)
      <3>1. \A k \in 1 .. j : k \in DOMAIN s /\ k # i
        BY <2>3, <2>5
      <3>2. \A k \in 1 .. j : s[k] # u
        BY <2>1, <2>2, <3>1, ScholarsAre
      <3>3. QED
        BY <2>2, <3>2 DEF Precedes
    <2>7. Precedes(InTurnOfAll, v, u)
      BY <2>1, <2>4, <2>6, ScholarsAre
    <2>8. u \in ToSet(InTurnOfAll)
      BY <1>17, ScholarsAre
    <2>9. QED
      BY <2>7, <2>8, ScholarsAre, TurnsAreFair DEF InTurnOfAll
  <1>18. merged.results = res /\ \A l \in 1 .. Web : legs[l] = LegFailed <=> l \in merged.errors
    BY <1>7
  <1>19. /\ Cardinality(K) = Len(res) /\ Len(res) <= wanted /\ (K # Found => Len(res) = wanted)
         /\ ToSet(Leading(Heard(Web), WebReserve)) \ {NoUrl} \subseteq K
    BY <1>1, <1>8, <1>9, <1>13, <1>15, <1>16
  <1>20. \A u \in Scholarly \ K, v \in K \cap (Scholarly \ ToSet(Heard(Web))) : Best(v) <= Best(u)
    BY <1>17
  <1>21. QED
    BY <1>11, <1>14, <1>18, <1>19, <1>20 DEF MergeIsFair

\* Each provider's answer is a list, and the merging has all of them.
MergeKept ==
  /\ wanted \in Nat /\ \A l \in 1 .. Web : legs[l] = Unheard \/ Heard(l) \in Seq(Urls \cup {NoUrl})
  /\ merged # Unmerged =>
       /\ \A l \in 1 .. Web : legs[l] # Unheard
       /\ merged = [results |-> MergedResults, errors |-> {l \in 1 .. Web : legs[l] = LegFailed}]

LEMMA MergeStarts == MergeInit => MergeKept
  <1> SUFFICES ASSUME MergeInit PROVE MergeKept
    OBVIOUS
  <1>1. wanted \in Nat /\ merged = Unmerged
    <2>1. MostAsked \in Nat
      BY MergeAssumption, Zenon
    <2>2. QED
      BY <2>1 DEF MergeInit
  <1>2. \A l \in 1 .. Web : legs[l] = Unheard
    BY DEF MergeInit
  <1>3. QED
    BY <1>1, <1>2 DEF MergeKept

LEMMA MergeStep == MergeKept /\ [MergeNext]_mergeVars => MergeKept'
  <1> SUFFICES ASSUME MergeKept, [MergeNext]_mergeVars PROVE MergeKept'
    OBVIOUS
  <1>1. CASE UNCHANGED mergeVars
    <2>1. wanted' = wanted /\ legs' = legs /\ merged' = merged
      BY <1>1 DEF mergeVars
    <2>2. MergedResults' = MergedResults /\ \A l : Heard(l)' = Heard(l)
      BY <2>1 DEF MergedResults, Heard, WebReserve
    <2>3. QED
      BY <2>1, <2>2 DEF MergeKept
  <1>2. CASE LegsMerged
    <2>1. wanted' = wanted /\ legs' = legs /\ \A l \in 1 .. Web : legs[l] # Unheard
      BY <1>2 DEF LegsMerged
    <2>2. merged' = [results |-> MergedResults, errors |-> {l \in 1 .. Web : legs[l] = LegFailed}]
      BY <1>2 DEF LegsMerged
    <2>3. MergedResults' = MergedResults /\ \A l : Heard(l)' = Heard(l)
      BY <2>1 DEF MergedResults, Heard, WebReserve
    <2>4. QED
      BY <2>1, <2>2, <2>3 DEF MergeKept
  <1>3. ASSUME NEW l \in 1 .. Web, NEW results, LegHeard(l, results),
               results = LegFailed \/ results \in Seq(Urls \cup {NoUrl})
        PROVE  MergeKept'
    <2>1. legs[l] = Unheard /\ legs' = [legs EXCEPT ![l] = results] /\ wanted' = wanted /\ merged' = merged
      BY <1>3 DEF LegHeard
    <2>2. merged = Unmerged
      BY <2>1 DEF MergeKept
    <2>3. ASSUME NEW h \in 1 .. Web
          PROVE  legs'[h] = Unheard \/ Heard(h)' \in Seq(Urls \cup {NoUrl})
      <3>1. CASE h # l
        <4>1. legs'[h] = legs[h]
          BY <2>1, <3>1
        <4>2. Heard(h)' = Heard(h)
          BY <4>1 DEF Heard
        <4>3. QED
          BY <4>1, <4>2 DEF MergeKept
      <3>2. CASE h = l
        <4>1. legs'[h] = results \/ legs'[h] = Unheard
          BY <2>1, <3>2
        <4>2. <<>> \in Seq(Urls \cup {NoUrl})
          BY EmptySeq
        <4>3. QED
          BY <1>3, <4>1, <4>2 DEF Heard
      <3>3. QED
        BY <3>1, <3>2
    <2>4. QED
      BY <2>1, <2>2, <2>3 DEF MergeKept
  <1>4. CASE \E l \in 1 .. Web : LegHeard(l, LegFailed)
    BY <1>3, <1>4
  <1>5. CASE \E l \in 1 .. Web : \E results \in BoundedSeq(Urls \cup {NoUrl}, LimitOf(l)) : LegHeard(l, results)
    <2>1. PICK l \in 1 .. Web : \E results \in BoundedSeq(Urls \cup {NoUrl}, LimitOf(l)) : LegHeard(l, results)
      BY <1>5
    <2>2. PICK results \in BoundedSeq(Urls \cup {NoUrl}, LimitOf(l)) : LegHeard(l, results)
      BY <2>1
    <2>3. results \in Seq(Urls \cup {NoUrl})
      BY BoundedIsSeq
    <2>4. QED
      BY <1>3, <2>2, <2>3
  <1>6. QED
    BY <1>1, <1>2, <1>4, <1>5 DEF MergeNext

LEMMA MergesAreFair == MergeKept => MergeIsFair
  <1> SUFFICES ASSUME MergeKept, merged # Unmerged PROVE MergeIsFair
    BY DEF MergeIsFair
  <1>1. ListsAreIn
    BY DEF MergeKept, ListsAreIn
  <1>2. merged = [results |-> MergedResults, errors |-> {l \in 1 .. Web : legs[l] = LegFailed}]
    BY DEF MergeKept
  <1>3. QED
    BY <1>1, <1>2, MergedFairly

(* Whatever the providers answer and in whatever order, the merged list    *)
(* keeps what each of them put first and the places of the web.            *)
THEOREM MergesStayFair == MergeSpec => []MergeIsFair
  BY MergeStarts, MergeStep, MergesAreFair, PTL DEF MergeSpec

-----------------------------------------------------------------------------
(* What the main model is told of the tasks (TaskContext).                 *)
LEMMA ContextNumbers ==
  /\ MaxShown \in Nat \ {0} /\ LastBlocked \in Nat \ {0} /\ LastEnded \in Nat \ {0}
  /\ LastUpdates \in Nat \ {0} /\ LastOrders \in Nat \ {0} /\ Budgets \subseteq Nat
  BY ContextAssumption

\* The newest of some are in order the last, and the newest of all is one.
LEMMA NewestAre ==
  ASSUME NEW n \in Nat, NEW S, S \subseteq 1 .. n, NEW z \in Nat \ {0}
  PROVE  /\ Newest(S, z) \subseteq S /\ IsFiniteSet(S)
         /\ \A x \in S : \E y \in Newest(S, z) : y >= x
         /\ \A i \in Newest(S, z), j \in S \ Newest(S, z) : i > j
  <1>1. Newest(S, z) \subseteq S
    BY DEF Newest
  <1>2. IsFiniteSet(S)
    <2>1. IsFiniteSet(1 .. n)
      BY FS_Interval
    <2>2. QED
      BY <2>1, FS_Subset
  <1>3. ASSUME NEW x \in S PROVE \E y \in Newest(S, z) : y >= x
    <2>1. PICK y \in S : \A v \in S : v <= y
      BY <1>3, GreatestNumber
    <2>2. {j \in S : j > y} = {}
      <3>1. SUFFICES ASSUME NEW j \in S, j > y PROVE FALSE
        OBVIOUS
      <3>2. j \in 1 .. n /\ y \in 1 .. n /\ j <= y
        BY <2>1
      <3>3. QED
        BY <3>1, <3>2
    <2>3. Cardinality({}) = 0
      BY FS_EmptySet
    <2>4. y \in Newest(S, z)
      BY <2>2, <2>3 DEF Newest
    <2>5. y >= x
      <3>1. x \in 1 .. n /\ y \in 1 .. n /\ x <= y
        BY <1>3, <2>1
      <3>2. QED
        BY <3>1
    <2>6. QED
      BY <2>4, <2>5
  <1>4. ASSUME NEW i \in Newest(S, z), NEW j \in S \ Newest(S, z), ~(i > j) PROVE FALSE
    <2>0. i \in S /\ j \in S /\ i # j
      BY <1>1
    <2>1. i \in Nat /\ j \in Nat
      <3>1. i \in 1 .. n /\ j \in 1 .. n
        BY <2>0
      <3>2. QED
        BY <3>1
    <2>2. i < j
      BY <1>4, <2>0, <2>1
    <2>3. {k \in S : k > j} \in SUBSET {k \in S : k > i}
      <3>1. ASSUME NEW k \in S, k > j PROVE k > i
        <4>1. k \in 1 .. n
          OBVIOUS
        <4>2. QED
          BY <2>1, <2>2, <3>1, <4>1
      <3>2. QED
        BY <3>1
    <2>4. IsFiniteSet({k \in S : k > i})
      BY <1>2, FS_Subset
    <2>5. /\ Cardinality({k \in S : k > j}) <= Cardinality({k \in S : k > i})
          /\ Cardinality({k \in S : k > j}) \in Nat /\ Cardinality({k \in S : k > i}) \in Nat
      BY <2>3, <2>4, FS_Subset, FS_CardinalityType
    <2>6. Cardinality({k \in S : k > i}) < z /\ ~(Cardinality({k \in S : k > j}) < z)
      BY <2>0 DEF Newest
    <2>7. QED
      BY <2>5, <2>6
  <1>5. QED
    BY <1>1, <1>2, <1>3, <1>4

\* Where there are more, the newest are as many as are asked for.
LEMMA NewestFill ==
  ASSUME NEW n \in Nat, NEW S, S \subseteq 1 .. n, NEW z \in Nat \ {0}, NEW j \in S \ Newest(S, z)
  PROVE  Cardinality(Newest(S, z)) = z
  <1> DEFINE R == Descends(S)
             s == Ranked(S, R)
  <1>1. IsFiniteSet(S) /\ S \subseteq Nat
    <2>1. IsFiniteSet(S)
      BY NewestAre
    <2>2. 1 .. n \subseteq Nat
      OBVIOUS
    <2>3. QED
      BY <2>1, <2>2
  <1>2. Lists(s, S, R) /\ IsOrderOn(R, S)
    BY <1>1, DescendsOrder
  <1>3. ASSUME NEW i \in S PROVE BelowIn(R, S, i) = {k \in S : k > i}
    BY <1>1 DEF BelowIn, Descends
  <1> HIDE DEF s, R
  <1>4. Newest(S, z) = {i \in S : Cardinality(BelowIn(R, S, i)) < z}
    BY <1>3 DEF Newest
  <1>5. PICK c \in Nat : c = Cardinality(S)
    BY <1>1, FS_CardinalityType
  <1>6. Cardinality(BelowIn(R, S, j)) \in 0 .. (c - 1) /\ ~(Cardinality(BelowIn(R, S, j)) < z)
    BY <1>1, <1>2, <1>4, <1>5, BelowGrows
  <1>7. z <= c
    BY <1>6
  <1>8. \A k \in 1 .. z : k \in 1 .. c /\ k - 1 < z
    BY <1>7
  <1>9. \A k \in 1 .. z : s[k] \in Newest(S, z)
    BY <1>2, <1>4, <1>5, <1>8 DEF Lists
  <1>10. ASSUME NEW i \in Newest(S, z) PROVE \E k \in 1 .. z : s[k] = i
    <2>1. PICK k \in 1 .. c : k = Cardinality(BelowIn(R, S, i)) + 1 /\ s[k] = i
      BY <1>2, <1>4, <1>5 DEF Lists
    <2>2. Cardinality(BelowIn(R, S, i)) = k - 1
      BY <1>2, <1>5, <2>1 DEF Lists
    <2>3. k - 1 < z
      BY <1>4, <2>2
    <2>4. k \in 1 .. z
      BY <2>3
    <2>5. QED
      BY <2>1, <2>4
  <1>11. ASSUME NEW i \in 1 .. z, NEW k \in 1 .. z, s[i] = s[k] PROVE i = k
    <2>1. Cardinality(BelowIn(R, S, s[i])) = i - 1 /\ Cardinality(BelowIn(R, S, s[k])) = k - 1
      BY <1>2, <1>5, <1>8 DEF Lists
    <2>2. QED
      BY <1>11, <2>1
  <1> DEFINE f == [k \in 1 .. z |-> s[k]]
  <1>12. f \in Bijection(1 .. z, Newest(S, z))
    BY <1>9, <1>10, <1>11 DEF Bijection, Injection, Surjection, IsInjective
  <1>13. QED
    BY <1>12, FS_CountingElements DEF ExistsBijection

LEMMA RankIs ==
  ASSUME NEW i \in DOMAIN saved, saved \in Seq(SavedTasks)
  PROVE  /\ Rank(i) \in 1 .. 4
         /\ Rank(i) = 1 <=> i \in Owned
         /\ Rank(i) = 2 <=> i \in Of({"queued"})
         /\ Rank(i) = 3 <=> i \in Of({"blocked"})
         /\ Rank(i) = 4 <=> i \in Of({"ended"})
         /\ i \in Owned \cup Of({"queued"}) \cup Of({"blocked"}) \cup Of({"ended"})
  <1>1. saved[i] \in {"running", "queued", "blocked", "asking", "ended"}
    <2>1. saved[i] \in SavedTasks
      BY ElementOfSeq, LenProperties
    <2>2. QED
      BY <2>1 DEF SavedTasks
  <1>2. /\ i \in Owned <=> saved[i] \in {"running", "asking"}
        /\ i \in Of({"queued"}) <=> saved[i] = "queued"
        /\ i \in Of({"blocked"}) <=> saved[i] = "blocked"
        /\ i \in Of({"ended"}) <=> saved[i] = "ended"
    BY DEF Owned, Of
  <1>3. saved[i] \in {"running", "asking"} => Rank(i) = 1
    BY <1>2 DEF Rank
  <1>4. saved[i] = "queued" => Rank(i) = 2
    BY <1>2 DEF Rank
  <1>5. saved[i] = "blocked" => Rank(i) = 3
    BY <1>2 DEF Rank
  <1>6. saved[i] = "ended" => Rank(i) = 4
    BY <1>2 DEF Rank
  <1>7. QED
    BY <1>1, <1>2, <1>3, <1>4, <1>5, <1>6

\* A list of tasks of one rank, in its order.
LEMMA SameRankInOrder ==
  ASSUME saved \in Seq(SavedTasks), NEW S, S \subseteq DOMAIN saved, NEW q, \A i \in S : Rank(i) = q
  PROVE  /\ q <= 2 => LET s == Ascending(S) IN
              s \in Seq(DOMAIN saved) /\ ToSet(s) = S /\ InOrderOf(s, {p \in (DOMAIN saved) \X (DOMAIN saved) : ToldBefore(p[1], p[2])})
         /\ ~(q <= 2) => LET s == Descending(S) IN
              s \in Seq(DOMAIN saved) /\ ToSet(s) = S /\ InOrderOf(s, {p \in (DOMAIN saved) \X (DOMAIN saved) : ToldBefore(p[1], p[2])})
  <1> DEFINE D == DOMAIN saved
             R == {p \in D \X D : ToldBefore(p[1], p[2])}
  <1>1. D = 1 .. Len(saved) /\ Len(saved) \in Nat
    BY LenProperties
  <1>2. IsFiniteSet(S) /\ S \subseteq Nat
    <2>1. S \in SUBSET (1 .. Len(saved))
      BY <1>1
    <2>2. IsFiniteSet(1 .. Len(saved))
      BY <1>1, FS_Interval
    <2>3. 1 .. Len(saved) \subseteq Nat
      BY <1>1
    <2>4. QED
      BY <2>1, <2>2, <2>3, FS_Subset
  <1>3. ASSUME NEW O, O = Ascends(S) \/ O = Descends(S), Lists(Ranked(S, O), S, O),
               \A x, y \in S : <<x, y>> \in O => ToldBefore(x, y)
        PROVE  Ranked(S, O) \in Seq(D) /\ ToSet(Ranked(S, O)) = S /\ InOrderOf(Ranked(S, O), R)
    <2>1. PICK s : s = Ranked(S, O)
      OBVIOUS
    <2>2. PICK n \in Nat : n = Cardinality(S)
      BY <1>2, FS_CardinalityType
    <2>3. /\ s \in Seq(S) /\ DOMAIN s = 1 .. n /\ \A k \in 1 .. n : s[k] \in S
          /\ \A x \in S : Cardinality(BelowIn(O, S, x)) + 1 \in 1 .. n /\ s[Cardinality(BelowIn(O, S, x)) + 1] = x
          /\ \A i, j \in 1 .. n : i < j <=> <<s[i], s[j]>> \in O
      BY <1>3, <2>1, <2>2 DEF Lists
    <2>4. s \in [1 .. n -> D]
      <3>1. \A k \in 1 .. n : s[k] \in D
        BY <2>3
      <3>2. s = [k \in DOMAIN s |-> s[k]]
        BY <2>3, SeqDef
      <3>3. QED
        BY <2>3, <3>1, <3>2
    <2>5. s \in Seq(D)
      BY <2>4, SeqDef
    <2>6. ToSet(s) = S
      <3>1. ToSet(s) = {s[k] : k \in 1 .. n}
        BY <2>3 DEF ToSet
      <3>2. \A x \in S : \E k \in 1 .. n : s[k] = x
        BY <2>3
      <3>3. QED
        BY <2>3, <3>1, <3>2
    <2>7. ASSUME NEW i \in 1 .. n, NEW j \in 1 .. n, i < j PROVE <<s[i], s[j]>> \in R
      <3>1. s[i] \in S /\ s[j] \in S /\ <<s[i], s[j]>> \in O
        BY <2>3, <2>7
      <3>2. ToldBefore(s[i], s[j])
        BY <1>3, <3>1
      <3>3. QED
        BY <3>1, <3>2
    <2> HIDE DEF R
    <2>8. InOrderOf(s, R)
      BY <2>3, <2>7 DEF InOrderOf
    <2>9. QED
      BY <2>1, <2>5, <2>6, <2>8
  <1>4. CASE q <= 2
    <2>1. Lists(Ranked(S, Ascends(S)), S, Ascends(S))
      BY <1>2, AscendsOrder
    <2>2. ASSUME NEW x \in S, NEW y \in S, <<x, y>> \in Ascends(S) PROVE ToldBefore(x, y)
      <3>1. x < y /\ Rank(x) = q /\ Rank(y) = q
        BY <2>2 DEF Ascends
      <3>2. QED
        BY <1>4, <3>1 DEF ToldBefore
    <2>3. Ascending(S) = Ranked(S, Ascends(S))
      BY DEF Ascending, Ascends
    <2> HIDE DEF R
    <2>4. Ascending(S) \in Seq(D) /\ ToSet(Ascending(S)) = S /\ InOrderOf(Ascending(S), R)
      BY <1>3, <2>1, <2>2, <2>3
    <2>5. QED
      BY <1>4, <2>4 DEF R
  <1>5. CASE ~(q <= 2)
    <2>1. Lists(Ranked(S, Descends(S)), S, Descends(S))
      BY <1>2, DescendsOrder
    <2>2. ASSUME NEW x \in S, NEW y \in S, <<x, y>> \in Descends(S) PROVE ToldBefore(x, y)
      <3>1. x > y /\ Rank(x) = q /\ Rank(y) = q
        BY <2>2 DEF Descends
      <3>2. QED
        BY <1>5, <3>1 DEF ToldBefore
    <2>3. Descending(S) = Ranked(S, Descends(S))
      BY DEF Descending, Descends
    <2> HIDE DEF R
    <2>4. Descending(S) \in Seq(D) /\ ToSet(Descending(S)) = S /\ InOrderOf(Descending(S), R)
      BY <1>3, <2>1, <2>2, <2>3
    <2>5. QED
      BY <1>5, <2>4 DEF R
  <1>6. QED
    BY <1>4, <1>5

NewBlocked == Newest(Of({"blocked"}), LastBlocked)

NewEnded == Newest(Of({"ended"}), LastEnded)

InTheirOrder == {p \in (DOMAIN saved) \X (DOMAIN saved) : ToldBefore(p[1], p[2])}

\* The relevant tasks are in order and have all of the work in progress, of
\* the queue, and the newest of the others.
LEMMA RelevantIs ==
  ASSUME saved \in Seq(SavedTasks)
  PROVE  /\ RelevantTasks \in Seq(DOMAIN saved)
         /\ ToSet(RelevantTasks) = Owned \cup Of({"queued"}) \cup NewBlocked \cup NewEnded
         /\ InOrderOf(RelevantTasks, InTheirOrder)
  <1> DEFINE D == DOMAIN saved
             A == Ascending(Owned)
             B == Ascending(Of({"queued"}))
             C == Descending(NewBlocked)
             E == Descending(NewEnded)
  <1>1. /\ NewBlocked \subseteq Of({"blocked"}) /\ NewEnded \subseteq Of({"ended"})
        /\ Owned \subseteq D /\ Of({"queued"}) \subseteq D /\ Of({"blocked"}) \subseteq D /\ Of({"ended"}) \subseteq D
    BY DEF NewBlocked, NewEnded, Newest, Owned, Of
  <1>2. /\ \A i \in Owned : Rank(i) = 1
        /\ \A i \in Of({"queued"}) : Rank(i) = 2
        /\ \A i \in NewBlocked : Rank(i) = 3
        /\ \A i \in NewEnded : Rank(i) = 4
    BY <1>1, RankIs
  <1>3. A \in Seq(D) /\ ToSet(A) = Owned /\ InOrderOf(A, InTheirOrder)
    BY <1>1, <1>2, SameRankInOrder, 1 <= 2 DEF InTheirOrder
  <1>4. B \in Seq(D) /\ ToSet(B) = Of({"queued"}) /\ InOrderOf(B, InTheirOrder)
    BY <1>1, <1>2, SameRankInOrder, 2 <= 2 DEF InTheirOrder
  <1>5. C \in Seq(D) /\ ToSet(C) = NewBlocked /\ InOrderOf(C, InTheirOrder)
    <2>1. NewBlocked \subseteq D /\ ~(3 <= 2)
      BY <1>1
    <2>2. QED
      BY <1>2, <2>1, SameRankInOrder DEF InTheirOrder
  <1>6. E \in Seq(D) /\ ToSet(E) = NewEnded /\ InOrderOf(E, InTheirOrder)
    <2>1. NewEnded \subseteq D /\ ~(4 <= 2)
      BY <1>1
    <2>2. QED
      BY <1>2, <2>1, SameRankInOrder DEF InTheirOrder
  <1>7. ASSUME NEW i \in D, NEW j \in D, Rank(i) < Rank(j) PROVE <<i, j>> \in InTheirOrder
    BY <1>7 DEF ToldBefore, InTheirOrder
  <1> HIDE DEF A, B, C, E
  <1>8. /\ \A i \in ToSet(A), j \in ToSet(B) : <<i, j>> \in InTheirOrder
        /\ \A i \in ToSet(A) \cup ToSet(B), j \in ToSet(C) : <<i, j>> \in InTheirOrder
        /\ \A i \in ToSet(A) \cup ToSet(B) \cup ToSet(C), j \in ToSet(E) : <<i, j>> \in InTheirOrder
    <2>1. \A i \in ToSet(A) : i \in D /\ Rank(i) = 1
      BY <1>1, <1>2, <1>3
    <2>2. \A i \in ToSet(B) : i \in D /\ Rank(i) = 2
      BY <1>1, <1>2, <1>4
    <2>3. \A i \in ToSet(C) : i \in D /\ Rank(i) = 3
      BY <1>1, <1>2, <1>5
    <2>4. \A i \in ToSet(E) : i \in D /\ Rank(i) = 4
      BY <1>1, <1>2, <1>6
    <2>5. QED
      BY <1>7, <2>1, <2>2, <2>3, <2>4
  <1>9. PICK P : P = A \o B
    OBVIOUS
  <1>10. P \in Seq(D) /\ ToSet(P) = ToSet(A) \cup ToSet(B) /\ InOrderOf(P, InTheirOrder)
    BY <1>3, <1>4, <1>8, <1>9, JoinedInOrder
  <1>11. PICK Q : Q = P \o C
    OBVIOUS
  <1>12. Q \in Seq(D) /\ ToSet(Q) = ToSet(P) \cup ToSet(C) /\ InOrderOf(Q, InTheirOrder)
    BY <1>5, <1>8, <1>10, <1>11, JoinedInOrder
  <1>13. PICK z : z = Q \o E
    OBVIOUS
  <1>14. z \in Seq(D) /\ ToSet(z) = ToSet(Q) \cup ToSet(E) /\ InOrderOf(z, InTheirOrder)
    <2>1. \A i \in ToSet(Q), j \in ToSet(E) : <<i, j>> \in InTheirOrder
      <3>1. ToSet(Q) = ToSet(A) \cup ToSet(B) \cup ToSet(C)
        BY <1>10, <1>12
      <3>2. QED
        BY <1>8, <3>1
    <2>2. Q \in Seq(D) /\ E \in Seq(D) /\ InOrderOf(Q, InTheirOrder) /\ InOrderOf(E, InTheirOrder)
      BY <1>6, <1>12
    <2> HIDE DEF D
    <2>3. Q \o E \in Seq(D) /\ ToSet(Q \o E) = ToSet(Q) \cup ToSet(E) /\ InOrderOf(Q \o E, InTheirOrder)
      BY <2>1, <2>2, JoinedInOrder
    <2>4. QED
      BY <1>13, <2>3
  <1>15. RelevantTasks = z
    BY <1>9, <1>11, <1>13 DEF RelevantTasks, A, B, C, E, NewBlocked, NewEnded
  <1>16. QED
    BY <1>3, <1>4, <1>5, <1>6, <1>10, <1>12, <1>14, <1>15

\* What is not among them comes after them all, or is blocked and older than
\* the blocked ones that are.
LEMMA NotRelevant ==
  ASSUME saved \in Seq(SavedTasks), NEW i \in ToSet(RelevantTasks), NEW j \in DOMAIN saved \ ToSet(RelevantTasks)
  PROVE  ToldBefore(i, j) \/ (Rank(i) = 4 /\ Rank(j) = 3 /\ j \in Of({"blocked"}) \ NewBlocked)
  <1>1. PICK n \in Nat : n = Len(saved) /\ DOMAIN saved = 1 .. n
    BY LenProperties
  <1>2. i \in Owned \cup Of({"queued"}) \cup NewBlocked \cup NewEnded /\ j \notin Owned \cup Of({"queued"}) \cup NewBlocked \cup NewEnded
    BY RelevantIs
  <1>3. /\ Of({"blocked"}) \subseteq 1 .. n /\ Of({"ended"}) \subseteq 1 .. n
        /\ Owned \subseteq DOMAIN saved /\ Of({"queued"}) \subseteq DOMAIN saved
    BY <1>1 DEF Of, Owned
  <1>4. /\ NewBlocked \subseteq Of({"blocked"}) /\ NewEnded \subseteq Of({"ended"})
        /\ \A x \in NewBlocked, y \in Of({"blocked"}) \ NewBlocked : x > y
        /\ \A x \in NewEnded, y \in Of({"ended"}) \ NewEnded : x > y
    BY <1>3, NewestAre, ContextNumbers DEF NewBlocked, NewEnded
  <1>5. i \in DOMAIN saved
    BY <1>1, <1>2, <1>3, <1>4
  <1>6. /\ Rank(i) \in 1 .. 4 /\ (Rank(i) = 1 <=> i \in Owned) /\ (Rank(i) = 2 <=> i \in Of({"queued"}))
        /\ (Rank(i) = 3 <=> i \in Of({"blocked"})) /\ (Rank(i) = 4 <=> i \in Of({"ended"}))
    BY <1>5, RankIs
  <1>7. \/ j \in Of({"blocked"}) /\ Rank(j) = 3
        \/ j \in Of({"ended"}) /\ Rank(j) = 4
    BY <1>2, RankIs
  <1>8. CASE i \in Owned \cup Of({"queued"})
    <2>1. Rank(i) < Rank(j)
      BY <1>6, <1>7, <1>8
    <2>2. QED
      BY <2>1 DEF ToldBefore
  <1>9. CASE i \in NewBlocked
    <2>1. Rank(i) = 3
      BY <1>4, <1>6, <1>9
    <2>2. CASE Rank(j) = 4
      BY <2>1, <2>2 DEF ToldBefore
    <2>3. CASE j \in Of({"blocked"}) /\ Rank(j) = 3
      <3>1. i > j
        BY <1>2, <1>4, <1>9, <2>3
      <3>2. QED
        BY <2>1, <2>3, <3>1 DEF ToldBefore
    <2>4. QED
      BY <1>7, <2>2, <2>3
  <1>10. CASE i \in NewEnded
    <2>1. Rank(i) = 4
      BY <1>4, <1>6, <1>10
    <2>2. CASE j \in Of({"ended"}) /\ Rank(j) = 4
      <3>1. i > j
        BY <1>2, <1>4, <1>10, <2>2
      <3>2. QED
        BY <2>1, <2>2, <3>1 DEF ToldBefore
    <2>3. CASE j \in Of({"blocked"}) /\ Rank(j) = 3
      BY <1>2, <2>1, <2>3
    <2>4. QED
      BY <1>7, <2>2, <2>3
  <1>11. QED
    BY <1>2, <1>8, <1>9, <1>10

\* The records are of the first of the relevant tasks.
RecordsAreFirst ==
  /\ Len(context.records) <= Len(RelevantTasks) /\ DOMAIN context.records = 1 .. Len(context.records)
  /\ Len(context.records) \in Nat /\ \E X : context.records \in Seq(X)
  /\ \A k \in 1 .. Len(context.records) : context.records[k].task = RelevantTasks[k]
  /\ saved # <<>> => Len(context.records) >= 1

LEMMA FirstsAreTold ==
  ASSUME saved \in Seq(SavedTasks), RecordsAreFirst
  PROVE  /\ \A i \in ToldTasks, j \in DOMAIN saved \ ToldTasks :
              \/ ToldBefore(i, j)
              \/ Rank(j) = 3 /\ Cardinality(ToldBlocked) = LastBlocked /\ \A k \in ToldBlocked : k > j
         /\ saved # <<>> => ToldTasks # {}
  <1> DEFINE z == RelevantTasks
  <1>1. PICK m \in Nat, n \in Nat : m = Len(context.records) /\ n = Len(z)
    BY RelevantIs, LenProperties DEF RecordsAreFirst
  <1>2. /\ z \in Seq(DOMAIN saved) /\ DOMAIN z = 1 .. n /\ m <= n
        /\ ToSet(z) = Owned \cup Of({"queued"}) \cup NewBlocked \cup NewEnded /\ InOrderOf(z, InTheirOrder)
    BY <1>1, RelevantIs, LenProperties DEF RecordsAreFirst
  <1> HIDE DEF z
  <1>3. ToldTasks = {z[k] : k \in 1 .. m}
    BY <1>1 DEF ToldTasks, RecordsAreFirst, z
  <1>4. saved # <<>> => ToldTasks # {}
    BY <1>1, <1>3 DEF RecordsAreFirst
  <1>5. \A x, y \in 1 .. n : x < y => ToldBefore(z[x], z[y])
    <2>1. \A x, y \in 1 .. n : x < y => <<z[x], z[y]>> \in InTheirOrder
      BY <1>2 DEF InOrderOf
    <2>2. QED
      BY <2>1 DEF InTheirOrder
  <1>6. \A k \in 1 .. m : k \in 1 .. n
    BY <1>2
  <1>7. ASSUME NEW i \in ToldTasks, NEW j \in DOMAIN saved \ ToldTasks, ~ToldBefore(i, j)
        PROVE  Rank(j) = 3 /\ Cardinality(ToldBlocked) = LastBlocked /\ \A k \in ToldBlocked : k > j
    <2>1. PICK k \in 1 .. m : i = z[k]
      BY <1>3
    <2>2. k \in 1 .. n /\ i \in ToSet(z) /\ ToSet(z) = {z[x] : x \in 1 .. n}
      BY <1>2, <1>6, <2>1 DEF ToSet
    <2>3. j \notin ToSet(z)
      <3> SUFFICES ASSUME NEW y \in 1 .. n, j = z[y] PROVE FALSE
        BY <2>2
      <3>1. y \notin 1 .. m
        BY <1>3
      <3>2. k < y
        BY <2>1, <3>1
      <3>3. QED
        BY <1>5, <1>7, <2>1, <2>2, <3>2
    <2>4. Rank(i) = 4 /\ Rank(j) = 3 /\ j \in Of({"blocked"}) \ NewBlocked
      BY <1>7, <2>2, <2>3, NotRelevant DEF z
    <2>5. PICK s \in Nat : DOMAIN saved = 1 .. s
      BY LenProperties
    <2>6. Of({"blocked"}) \subseteq 1 .. s
      BY <2>5 DEF Of
    <2>7. Cardinality(NewBlocked) = LastBlocked
      BY <2>4, <2>6, NewestFill, ContextNumbers DEF NewBlocked
    <2>8. NewBlocked \subseteq Of({"blocked"}) /\ \A b \in NewBlocked : b > j
      BY <2>4, <2>6, NewestAre, ContextNumbers DEF NewBlocked
    <2>9. ASSUME NEW b \in NewBlocked PROVE b \in ToldBlocked
      <3>1. PICK y \in 1 .. n : b = z[y]
        BY <1>2, <2>2
      <3>2. Rank(b) = 3
        BY <2>6, <2>5, <2>8, RankIs
      <3>3. ~(k < y)
        <4> SUFFICES ASSUME k < y PROVE FALSE
          OBVIOUS
        <4>1. ToldBefore(i, b)
          BY <1>5, <2>1, <2>2, <3>1
        <4>2. QED
          BY <2>4, <3>2, <4>1 DEF ToldBefore
      <3>4. y \in 1 .. m
        BY <3>3
      <3>5. QED
        BY <1>3, <3>1, <3>2, <3>4 DEF ToldBlocked
    <2>10. ASSUME NEW b \in ToldBlocked PROVE b \in NewBlocked
      <3>1. PICK y \in 1 .. m : b = z[y]
        BY <1>3 DEF ToldBlocked
      <3>2. Rank(b) = 3 /\ b \in ToSet(z)
        BY <1>6, <2>2, <3>1 DEF ToldBlocked
      <3>3. b \in DOMAIN saved
        <4>1. z[y] \in DOMAIN saved
          BY <1>1, <1>2, <1>6, ElementOfSeq DEF z
        <4>2. QED
          BY <3>1, <4>1
      <3>4. b \notin Owned /\ b \notin Of({"queued"}) /\ b \notin Of({"ended"})
        BY <3>2, <3>3, RankIs
      <3>5. NewEnded \subseteq Of({"ended"})
        BY DEF NewEnded, Newest
      <3>6. QED
        BY <1>2, <3>2, <3>4, <3>5
    <2>11. ToldBlocked = NewBlocked
      BY <2>9, <2>10
    <2>12. QED
      BY <2>4, <2>7, <2>8, <2>11
  <1>8. QED
    BY <1>4, <1>7

OfContext == {"records", "updates", "orders"}

OfTask == {"task", "findings", "details"}

OfComposing == {"at", "budget", "began", "ordered", "horizon"}

NotBeats == {i \in 1 .. composing.began : said[i] # "heartbeat"}

RecordsAreWhole == \A k \in 1 .. Len(context.records) : DOMAIN context.records[k] = OfTask

\* Nothing is left to give up, and it is too long.
Spent ==
  /\ Len(context.records) <= 1
  /\ context.records # <<>> => ~context.records[1].findings /\ ~context.records[1].details
  /\ ~(Cardinality(context.updates) > 1) /\ ~(Cardinality(context.orders) > 1)
  /\ ~(LengthOf(context) <= composing.budget)

ContextKept ==
  /\ saved \in Seq(SavedTasks) /\ said \in Seq(UpdateKinds) /\ orders \in Nat
  /\ DOMAIN composing = OfComposing /\ DOMAIN context = OfContext
  /\ composing.at \in {"snapshot", "updates", "orders", "fitting", "given", "refused"}
  /\ composing.budget \in Nat /\ composing.began \in 0 .. Len(said) /\ composing.ordered \in 0 .. orders
  /\ composing.horizon \in 0 .. Len(said)
  /\ composing.at # "snapshot" =>
       composing.began <= composing.horizon /\ RecordsAreFirst /\ RecordsAreWhole
  /\ composing.at \notin {"snapshot", "updates"} =>
       context.updates \subseteq 1 .. Len(said) /\ Reaches(context.updates, NotBeats)
  /\ composing.at \notin {"snapshot", "updates", "orders"} =>
       context.orders \subseteq 1 .. orders /\ Reaches(context.orders, 1 .. composing.ordered)
  /\ composing.at = "refused" => Spent

LEMMA ContextStarts == ContextInit => ContextKept
  <1> SUFFICES ASSUME ContextInit PROVE ContextKept
    OBVIOUS
  <1>1. saved \in Seq(SavedTasks) /\ said \in Seq(UpdateKinds) /\ orders \in Nat
    <2>1. saved \in Seq(SavedTasks) /\ said \in Seq(UpdateKinds)
      BY BoundedIsSeq DEF ContextInit
    <2>2. orders \in Nat
      BY DEF ContextInit
    <2>3. QED
      BY <2>1, <2>2
  <1>2. PICK budget \in Budgets :
          composing = [at |-> "snapshot", budget |-> budget, began |-> Len(said), ordered |-> orders, horizon |-> 0]
    BY DEF ContextInit
  <1>3. budget \in Nat /\ Len(said) \in Nat
    BY <1>1, LenProperties, ContextNumbers
  <1>4. /\ composing.at = "snapshot" /\ composing.budget \in Nat /\ composing.began = Len(said)
        /\ composing.ordered = orders /\ composing.horizon = 0 /\ DOMAIN composing = OfComposing
    BY <1>2, <1>3 DEF OfComposing
  <1>5. DOMAIN context = OfContext
    BY DEF ContextInit, NothingTold, OfContext
  <1>6. /\ composing.began \in 0 .. Len(said) /\ composing.ordered \in 0 .. orders /\ composing.horizon \in 0 .. Len(said)
    BY <1>1, <1>3, <1>4
  <1>7. QED
    BY <1>1, <1>4, <1>5, <1>6 DEF ContextKept

LEMMA SameTasks == saved' = saved => RelevantTasks' = RelevantTasks
  BY DEF RelevantTasks, Owned, Of

LEMMA SnapshotKept == ContextKept /\ SnapshotTaken => ContextKept'
  <1> SUFFICES ASSUME ContextKept, SnapshotTaken PROVE ContextKept'
    OBVIOUS
  <1>1. saved' = saved /\ said' = said /\ orders' = orders /\ composing.at = "snapshot"
    BY DEF SnapshotTaken
  <1>2. /\ DOMAIN composing' = OfComposing /\ composing'.at = "updates" /\ composing'.budget = composing.budget
        /\ composing'.began = composing.began /\ composing'.ordered = composing.ordered /\ composing'.horizon = Len(said)
    BY DEF SnapshotTaken, ContextKept, OfComposing
  <1>3. PICK n \in Nat, l \in Nat : n = Len(RelevantTasks) /\ l = Len(said)
    BY RelevantIs, LenProperties DEF ContextKept
  <1>4. PICK m \in Nat : m = Min({MaxShown, Len(RelevantTasks)}) /\ m <= n /\ (n >= 1 => m >= 1)
    <2>1. MaxShown \in Nat \ {0}
      BY ContextNumbers
    <2>2. {MaxShown, n} \subseteq Nat /\ {MaxShown, n} # {}
      BY <2>1
    <2>3. Min({MaxShown, n}) \in {MaxShown, n} /\ \A y \in {MaxShown, n} : Min({MaxShown, n}) <= y
      BY <2>2, MinOf
    <2>4. PICK k \in {MaxShown, n} : k = Min({MaxShown, n})
      BY <2>3
    <2>5. k <= n /\ (k = MaxShown \/ k = n) /\ k \in Nat
      BY <2>1, <2>3, <2>4
    <2>6. n >= 1 => k >= 1
      BY <2>1, <2>5
    <2>7. QED
      BY <1>3, <2>4, <2>5, <2>6
  <1>5. /\ DOMAIN context' = OfContext
        /\ context'.records = [i \in 1 .. m |-> RecordOf(RelevantTasks[i])]
    BY <1>4 DEF SnapshotTaken, ContextKept, OfContext
  <1>6. \A i \in 1 .. m : context'.records[i] = RecordOf(RelevantTasks[i])
    BY <1>5
  <1>7. /\ Len(context'.records) = m /\ DOMAIN context'.records = 1 .. m
        /\ \E X : context'.records \in Seq(X)
    <2>1. context'.records \in [1 .. m -> {RecordOf(RelevantTasks[i]) : i \in 1 .. m}]
      BY <1>5
    <2>2. context'.records \in Seq({RecordOf(RelevantTasks[i]) : i \in 1 .. m})
      BY <2>1, SeqDef
    <2>3. QED
      BY <2>1, <2>2, LenProperties
  <1>8. \A i \in 1 .. m : context'.records[i].task = RelevantTasks[i] /\ DOMAIN context'.records[i] = OfTask
    <2>1. ASSUME NEW i \in 1 .. m
          PROVE  context'.records[i].task = RelevantTasks[i] /\ DOMAIN context'.records[i] = OfTask
      <3>1. PICK j : j = RelevantTasks[i]
        OBVIOUS
      <3>2. PICK r : r = context'.records[i]
        OBVIOUS
      <3>3. r = [task |-> j, findings |-> TRUE, details |-> TRUE]
        BY <1>6, <3>1, <3>2 DEF RecordOf
      <3>4. r.task = j /\ DOMAIN r = {"task", "findings", "details"}
        BY <3>3
      <3>5. QED
        BY <3>1, <3>2, <3>4 DEF OfTask
    <2>2. QED
      BY <2>1
  <1>9. saved # <<>> => m >= 1
    <2> SUFFICES ASSUME saved # <<>> PROVE n >= 1
      BY <1>4
    <2>1. saved \in Seq(SavedTasks)
      BY DEF ContextKept
    <2>2. PICK s \in Nat : s = Len(saved) /\ DOMAIN saved = 1 .. s /\ s # 0
      BY <2>1, EmptySeq, LenProperties
    <2>3. s \in DOMAIN saved
      BY <2>2
    <2>4. ToSet(RelevantTasks) # {}
      <3>1. s \in Owned \cup Of({"queued"}) \cup Of({"blocked"}) \cup Of({"ended"})
        BY <2>1, <2>3, RankIs
      <3>2. Of({"blocked"}) \subseteq 1 .. s /\ Of({"ended"}) \subseteq 1 .. s
        BY <2>2 DEF Of
      <3>3. s \in Of({"blocked"}) => NewBlocked # {}
        BY <3>2, NewestAre, ContextNumbers DEF NewBlocked
      <3>4. s \in Of({"ended"}) => NewEnded # {}
        BY <3>2, NewestAre, ContextNumbers DEF NewEnded
      <3>5. ToSet(RelevantTasks) = Owned \cup Of({"queued"}) \cup NewBlocked \cup NewEnded
        BY <2>1, RelevantIs
      <3>6. QED
        BY <3>1, <3>3, <3>4, <3>5
    <2>5. DOMAIN RelevantTasks = 1 .. n
      BY <1>3, <2>1, RelevantIs, LenProperties
    <2>6. PICK k \in 1 .. n : TRUE
      BY <2>4, <2>5 DEF ToSet
    <2>7. QED
      BY <2>6
  <1>10. RecordsAreFirst'
    BY <1>1, <1>3, <1>4, <1>7, <1>8, <1>9, SameTasks DEF RecordsAreFirst
  <1>11. RecordsAreWhole'
    BY <1>7, <1>8 DEF RecordsAreWhole
  <1>12. composing'.began <= composing'.horizon /\ composing'.horizon \in 0 .. Len(said)
    BY <1>2, <1>3 DEF ContextKept
  <1>13. QED
    BY <1>1, <1>2, <1>5, <1>10, <1>11, <1>12 DEF ContextKept

\* The records stay those of the first tasks where they and the store do.
LEMMA SameRecords ==
  ASSUME saved' = saved, context'.records = context.records
  PROVE  /\ RecordsAreFirst => RecordsAreFirst'
         /\ RecordsAreWhole => RecordsAreWhole'
  <1>1. RelevantTasks' = RelevantTasks
    BY SameTasks
  <1>2. RecordsAreFirst => RecordsAreFirst'
    BY <1>1 DEF RecordsAreFirst
  <1>3. RecordsAreWhole => RecordsAreWhole'
    BY DEF RecordsAreWhole
  <1>4. QED
    BY <1>2, <1>3

LEMMA UpdatesKept == ContextKept /\ UpdatesRead => ContextKept'
  <1> SUFFICES ASSUME ContextKept, UpdatesRead PROVE ContextKept'
    OBVIOUS
  <1>1. saved' = saved /\ said' = said /\ orders' = orders /\ composing.at = "updates"
    BY DEF UpdatesRead
  <1>2. /\ DOMAIN composing' = OfComposing /\ composing'.at = "orders" /\ composing'.budget = composing.budget
        /\ composing'.began = composing.began /\ composing'.ordered = composing.ordered /\ composing'.horizon = composing.horizon
    BY DEF UpdatesRead, ContextKept, OfComposing
  <1>3. /\ DOMAIN context' = OfContext /\ context'.records = context.records
        /\ context'.updates = Newest(Talk \cup Notices, LastUpdates)
    BY DEF UpdatesRead, ContextKept, OfContext
  <1>4. RecordsAreFirst' /\ RecordsAreWhole' /\ composing.began <= composing.horizon
    BY <1>1, <1>3, SameRecords DEF ContextKept
  <1>5. PICK l \in Nat, b \in Nat, h \in Nat :
          l = Len(said) /\ DOMAIN said = 1 .. l /\ b = composing.began /\ h = composing.horizon /\ b <= h /\ h <= l
    <2>1. said \in Seq(UpdateKinds) /\ composing.began \in 0 .. Len(said) /\ composing.horizon \in 0 .. Len(said)
      BY DEF ContextKept
    <2>2. Len(said) \in Nat /\ DOMAIN said = 1 .. Len(said)
      BY <2>1, LenProperties
    <2>3. composing.began \in Nat /\ composing.horizon \in Nat /\ composing.horizon <= Len(said)
      BY <2>1, <2>2
    <2>4. QED
      BY <1>4, <2>2, <2>3
  <1> DEFINE talked == {i \in DOMAIN said : said[i] = "conversation"}
             noticed == {i \in 1 .. composing.horizon : said[i] = "notice"}
  <1>6. talked \subseteq 1 .. l /\ noticed \subseteq 1 .. l
    BY <1>5
  <1>7. Talk = Newest(talked, LastUpdates) /\ Notices = Newest(noticed, LastUpdates)
    BY DEF Talk, Notices
  <1> HIDE DEF talked, noticed
  <1>8. /\ Talk \subseteq talked /\ \A x \in talked : \E y \in Talk : y >= x
        /\ Notices \subseteq noticed /\ \A x \in noticed : \E y \in Notices : y >= x
    <2>1. LastUpdates \in Nat \ {0}
      BY ContextNumbers
    <2>2. Talk \subseteq talked /\ \A x \in talked : \E y \in Talk : y >= x
      BY <1>6, <1>7, <2>1, NewestAre
    <2>3. Notices \subseteq noticed /\ \A x \in noticed : \E y \in Notices : y >= x
      BY <1>6, <1>7, <2>1, NewestAre
    <2>4. QED
      BY <2>2, <2>3
  <1>9. PICK both : both = Talk \cup Notices
    OBVIOUS
  <1>10. both \subseteq 1 .. l
    BY <1>6, <1>8, <1>9
  <1>11. Newest(both, LastUpdates) \subseteq both /\ \A x \in both : \E y \in Newest(both, LastUpdates) : y >= x
    BY <1>10, NewestAre, ContextNumbers
  <1>12. ASSUME NEW i \in NotBeats PROVE \E y \in context'.updates : y >= i
    <2>1. i \in 1 .. l /\ i \in 1 .. h /\ said[i] # "heartbeat"
      BY <1>5 DEF NotBeats
    <2>2. said[i] \in {"conversation", "notice", "heartbeat"}
      <3>1. said[i] \in UpdateKinds
        BY <1>5, <2>1, ElementOfSeq DEF ContextKept
      <3>2. QED
        BY <3>1 DEF UpdateKinds
    <2>3. i \in talked \/ i \in noticed
      BY <1>5, <2>1, <2>2 DEF talked, noticed
    <2>4. PICK x \in both : x >= i
      BY <1>8, <1>9, <2>3
    <2>5. PICK y \in context'.updates : y >= x
      BY <1>3, <1>9, <1>11
    <2>6. y \in 1 .. l /\ x \in 1 .. l
      BY <1>3, <1>9, <1>10, <1>11
    <2>7. y >= i
      BY <2>1, <2>4, <2>5, <2>6
    <2>8. QED
      BY <2>7
  <1>13. context'.updates \subseteq 1 .. Len(said)
    BY <1>3, <1>5, <1>9, <1>10, <1>11
  <1>14. NotBeats' = NotBeats
    BY <1>1, <1>2 DEF NotBeats
  <1>15. Reaches(context'.updates, NotBeats')
    BY <1>12, <1>14 DEF Reaches
  <1>16. QED
    BY <1>1, <1>2, <1>3, <1>4, <1>13, <1>15 DEF ContextKept

LEMMA OrdersKept == ContextKept /\ OrdersRead => ContextKept'
  <1> SUFFICES ASSUME ContextKept, OrdersRead PROVE ContextKept'
    OBVIOUS
  <1>1. saved' = saved /\ said' = said /\ orders' = orders /\ composing.at = "orders"
    BY DEF OrdersRead
  <1>2. /\ DOMAIN composing' = OfComposing /\ composing'.at = "fitting" /\ composing'.budget = composing.budget
        /\ composing'.began = composing.began /\ composing'.ordered = composing.ordered /\ composing'.horizon = composing.horizon
    BY DEF OrdersRead, ContextKept, OfComposing
  <1>3. /\ DOMAIN context' = OfContext /\ context'.records = context.records /\ context'.updates = context.updates
        /\ context'.orders = Newest(1 .. orders, LastOrders)
    BY DEF OrdersRead, ContextKept, OfContext
  <1>4. RecordsAreFirst' /\ RecordsAreWhole'
    BY <1>1, <1>3, SameRecords DEF ContextKept
  <1>5. orders \in Nat /\ composing.ordered \in 0 .. orders
    BY DEF ContextKept
  <1>6. /\ Newest(1 .. orders, LastOrders) \subseteq 1 .. orders
        /\ \A x \in 1 .. orders : \E y \in Newest(1 .. orders, LastOrders) : y >= x
    BY <1>5, NewestAre, ContextNumbers
  <1>7. \A x \in 1 .. composing.ordered : x \in 1 .. orders
    BY <1>5
  <1>8. context'.orders \subseteq 1 .. orders /\ Reaches(context'.orders, 1 .. composing.ordered)
    BY <1>3, <1>6, <1>7 DEF Reaches
  <1>9. NotBeats' = NotBeats
    BY <1>1, <1>2 DEF NotBeats
  <1>10. QED
    BY <1>1, <1>2, <1>3, <1>4, <1>8, <1>9 DEF ContextKept

LEMMA SaidKept == ASSUME ContextKept, NEW word \in UpdateKinds, MoreSaid(word) PROVE ContextKept'
  <1>1. /\ saved' = saved /\ orders' = orders /\ composing' = composing /\ context' = context
        /\ composing.at \in {"updates", "orders"} /\ said' = Append(said, word)
    BY DEF MoreSaid
  <1>2. PICK l \in Nat : l = Len(said)
    BY LenProperties DEF ContextKept
  <1>3. said' \in Seq(UpdateKinds) /\ Len(said') = l + 1 /\ \A i \in 1 .. l : said'[i] = said[i]
    BY <1>1, <1>2, AppendProperties DEF ContextKept
  <1>4. composing.began \in 0 .. l /\ composing.horizon \in 0 .. l
    BY <1>2 DEF ContextKept
  <1>5. composing.began \in 0 .. (l + 1) /\ composing.horizon \in 0 .. (l + 1) /\ 1 .. l \subseteq 1 .. (l + 1)
    BY <1>4
  <1>6. NotBeats' = NotBeats
    <2>1. \A i \in 1 .. composing.began : said'[i] = said[i]
      BY <1>3, <1>4
    <2>2. QED
      BY <1>1, <2>1 DEF NotBeats
  <1>7. /\ RecordsAreFirst => RecordsAreFirst'
        /\ RecordsAreWhole => RecordsAreWhole'
    BY <1>1, SameRecords
  <1>8. RecordsAreFirst' /\ RecordsAreWhole' /\ composing.began <= composing.horizon
    BY <1>1, <1>7 DEF ContextKept
  <1>9. composing.at = "orders" => context.updates \subseteq 1 .. (l + 1) /\ Reaches(context.updates, NotBeats)
    BY <1>2, <1>5 DEF ContextKept
  <1>10. QED
    BY <1>1, <1>3, <1>5, <1>6, <1>8, <1>9 DEF ContextKept

LEMMA OrderedKept == ContextKept /\ MoreOrdered => ContextKept'
  <1> SUFFICES ASSUME ContextKept, MoreOrdered PROVE ContextKept'
    OBVIOUS
  <1>1. /\ saved' = saved /\ said' = said /\ composing' = composing /\ context' = context
        /\ composing.at \in {"updates", "orders"} /\ orders' = orders + 1
    BY DEF MoreOrdered
  <1>2. orders \in Nat /\ composing.ordered \in 0 .. orders
    BY DEF ContextKept
  <1>3. orders + 1 \in Nat /\ composing.ordered \in 0 .. (orders + 1)
    BY <1>2
  <1>4. NotBeats' = NotBeats
    BY <1>1 DEF NotBeats
  <1>5. /\ RecordsAreFirst => RecordsAreFirst'
        /\ RecordsAreWhole => RecordsAreWhole'
    BY <1>1, SameRecords
  <1>6. QED
    BY <1>1, <1>3, <1>4, <1>5 DEF ContextKept

LEMMA GivenKept == ContextKept /\ ContextGiven => ContextKept'
  <1> SUFFICES ASSUME ContextKept, ContextGiven PROVE ContextKept'
    OBVIOUS
  <1>1. saved' = saved /\ said' = said /\ orders' = orders /\ context' = context /\ composing.at = "fitting"
    BY DEF ContextGiven
  <1>2. /\ DOMAIN composing' = OfComposing /\ composing'.at = "given" /\ composing'.budget = composing.budget
        /\ composing'.began = composing.began /\ composing'.ordered = composing.ordered /\ composing'.horizon = composing.horizon
    BY DEF ContextGiven, ContextKept, OfComposing
  <1>3. RecordsAreFirst' /\ RecordsAreWhole' /\ NotBeats' = NotBeats
    BY <1>1, <1>2, SameRecords DEF ContextKept, NotBeats
  <1>4. QED
    BY <1>1, <1>2, <1>3 DEF ContextKept

LEMMA ContextStutters == ContextKept /\ UNCHANGED contextVars => ContextKept'
  <1> SUFFICES ASSUME ContextKept, UNCHANGED contextVars PROVE ContextKept'
    OBVIOUS
  <1>1. saved' = saved /\ said' = said /\ orders' = orders /\ composing' = composing /\ context' = context
    BY DEF contextVars
  <1>2. (RecordsAreFirst => RecordsAreFirst') /\ (RecordsAreWhole => RecordsAreWhole') /\ NotBeats' = NotBeats
    BY <1>1, SameRecords DEF NotBeats
  <1>3. Spent => Spent'
    BY <1>1 DEF Spent
  <1>4. QED
    BY <1>1, <1>2, <1>3 DEF ContextKept

FewerRecords(t) ==
  \/ t.records = context.records
  \/ /\ Len(t.records) \in Nat /\ DOMAIN t.records = 1 .. Len(t.records) /\ \E X : t.records \in Seq(X)
     /\ Len(t.records) >= 1 /\ Len(t.records) <= Len(context.records)
     /\ \A k \in 1 .. Len(t.records) : t.records[k].task = context.records[k].task /\ DOMAIN t.records[k] = OfTask

OldestGone(V, U) == V = U \/ (Cardinality(U) > 1 /\ V = U \ {Min(U)})

\* Without the last record, and with the first one without its findings or
\* its details.
LEMMA RecordsGivenUp ==
  ASSUME RecordsAreFirst, RecordsAreWhole, NEW t
  PROVE  /\ Len(context.records) > 1 /\ t.records = SubSeq(context.records, 1, Len(context.records) - 1) =>
              FewerRecords(t) /\ t.records # context.records
         /\ \A r : \A f \in {"findings", "details"} :
              context.records # <<>> /\ r = [context.records[1] EXCEPT ![f] = FALSE]
              /\ t.records = [context.records EXCEPT ![1] = r] => FewerRecords(t)
  <1>1. PICK m \in Nat : m = Len(context.records) /\ DOMAIN context.records = 1 .. m
    BY DEF RecordsAreFirst
  <1>2. PICK X : context.records \in Seq(X)
    BY DEF RecordsAreFirst
  <1>3. \A k \in 1 .. m : context.records[k] \in X /\ DOMAIN context.records[k] = OfTask
    BY <1>1, <1>2, ElementOfSeq DEF RecordsAreWhole
  <1>4. ASSUME m > 1, t.records = SubSeq(context.records, 1, m - 1)
        PROVE  FewerRecords(t) /\ t.records # context.records
    <2>1. 1 \in Int /\ m - 1 \in Int /\ 1 <= m - 1 /\ (m - 1) - 1 + 1 = m - 1
      BY <1>4
    <2>2. \A i \in 1 .. (m - 1) : i \in 1 .. m
      OBVIOUS
    <2>3. \A i \in 1 .. (m - 1) : context.records[i] \in X
      BY <1>3, <2>2
    <2>4. PICK s : s = SubSeq(context.records, 1, m - 1)
      OBVIOUS
    <2>5. s \in Seq(X) /\ Len(s) = m - 1 /\ \A i \in 1 .. (m - 1) : s[i] = context.records[1 + i - 1]
      BY <2>1, <2>3, <2>4, SubSeqProperties
    <2>6. \A i \in 1 .. (m - 1) : 1 + i - 1 = i
      OBVIOUS
    <2>7. \A i \in 1 .. (m - 1) : s[i] = context.records[i]
      BY <2>5, <2>6
    <2>8. DOMAIN s = 1 .. (m - 1)
      BY <2>5, LenProperties
    <2>9. \A i \in 1 .. (m - 1) : s[i].task = context.records[i].task /\ DOMAIN s[i] = OfTask
      BY <1>3, <2>2, <2>7
    <2>10. m - 1 \in Nat /\ m - 1 >= 1 /\ m - 1 <= m /\ m - 1 # m
      BY <1>4
    <2>11. t.records = s
      BY <1>4, <2>4
    <2>12. FewerRecords(t)
      BY <1>1, <2>5, <2>8, <2>9, <2>10, <2>11 DEF FewerRecords
    <2>13. QED
      BY <1>1, <2>5, <2>10, <2>11, <2>12
  <1>5. ASSUME NEW f \in {"findings", "details"}, NEW r, context.records # <<>>,
               r = [context.records[1] EXCEPT ![f] = FALSE], t.records = [context.records EXCEPT ![1] = r]
        PROVE  FewerRecords(t)
    <2>1. m >= 1
      <3>1. m # 0
        BY <1>1, <1>2, <1>5, EmptySeq
      <3>2. QED
        BY <3>1
    <2>2. 1 \in 1 .. m
      BY <2>1
    <2>3. DOMAIN context.records[1] = OfTask
      BY <1>3, <2>2
    <2>4. DOMAIN r = OfTask /\ r.task = context.records[1].task
      <3>1. "task" \in OfTask /\ "task" # f
        BY DEF OfTask
      <3>2. QED
        BY <1>5, <2>3, <3>1
    <2>5. PICK s : s = t.records
      OBVIOUS
    <2>6. DOMAIN s = 1 .. m /\ \A k \in 1 .. m : s[k] = IF k = 1 THEN r ELSE context.records[k]
      BY <1>1, <1>5, <2>5
    <2>7. s \in [1 .. m -> X \cup {r}]
      <3>1. \A k \in 1 .. m : s[k] \in X \cup {r}
        BY <1>3, <2>6
      <3>2. s = [k \in 1 .. m |-> s[k]]
        BY <1>1, <1>5, <2>5
      <3>3. QED
        BY <3>1, <3>2
    <2>8. s \in Seq(X \cup {r}) /\ Len(s) = m
      <3>1. s \in Seq(X \cup {r})
        BY <2>7, SeqDef
      <3>2. QED
        BY <2>6, <3>1, LenProperties
    <2>9. \A k \in 1 .. m : s[k].task = context.records[k].task /\ DOMAIN s[k] = OfTask
      BY <1>3, <2>4, <2>6
    <2>10. m <= m
      OBVIOUS
    <2>11. QED
      BY <1>1, <2>1, <2>5, <2>6, <2>8, <2>9, <2>10 DEF FewerRecords
  <1>6. QED
    BY <1>1, <1>4, <1>5

\* The first of these that is possible, if any.
LEMMA GivenUpIs ==
  ASSUME RecordsAreFirst, RecordsAreWhole, DOMAIN context = OfContext,
         context.updates \subseteq Nat, context.orders \subseteq Nat,
         NEW t, t = GivenUp
  PROVE  /\ DOMAIN t = OfContext /\ FewerRecords(t)
         /\ OldestGone(t.updates, context.updates) /\ OldestGone(t.orders, context.orders)
         /\ t = context /\ ~Fits => Spent
  <1> DEFINE R == context.records
             U == context.updates
             O == context.orders
             c1 == Len(R) > 1
             c2 == R # <<>> /\ R[1].findings
             c3 == Cardinality(U) > 1
             c4 == Cardinality(O) > 1
             c5 == R # <<>> /\ R[1].details
  <1>0. "records" \in OfContext /\ "updates" \in OfContext /\ "orders" \in OfContext
    BY DEF OfContext
  <1>1. CASE c1
    <2>1. t = [context EXCEPT !.records = SubSeq(R, 1, Len(R) - 1)]
      BY <1>1, Zenon DEF GivenUp
    <2>2. DOMAIN t = OfContext /\ t.records = SubSeq(R, 1, Len(R) - 1) /\ t.updates = U /\ t.orders = O
      BY <1>0, <2>1
    <2>3. FewerRecords(t) /\ t.records # R
      BY <1>1, <2>2, RecordsGivenUp
    <2>4. t # context
      BY <2>3
    <2>5. QED
      BY <2>2, <2>3, <2>4 DEF OldestGone
  <1>2. CASE ~c1 /\ c2
    <2>1. t = [context EXCEPT !.records[1].findings = FALSE]
      BY <1>2, Zenon DEF GivenUp
    <2>2. t = [context EXCEPT !.records = [R EXCEPT ![1] = [R[1] EXCEPT !["findings"] = FALSE]]]
      BY <2>1
    <2>3. PICK r : r = [R[1] EXCEPT !["findings"] = FALSE]
      OBVIOUS
    <2>4. DOMAIN t = OfContext /\ t.records = [R EXCEPT ![1] = r] /\ t.updates = U /\ t.orders = O
      BY <1>0, <2>2, <2>3
    <2>5. FewerRecords(t)
      BY <1>2, <2>3, <2>4, RecordsGivenUp
    <2>6. t # context
      <3> SUFFICES ASSUME t = context PROVE FALSE
        OBVIOUS
      <3>1. R = [R EXCEPT ![1] = r]
        BY <2>4
      <3>2. 1 \in DOMAIN R /\ DOMAIN R[1] = OfTask
        <4>1. PICK X : R \in Seq(X)
          BY DEF RecordsAreFirst
        <4>2. PICK m \in Nat : m = Len(R) /\ DOMAIN R = 1 .. m /\ m # 0
          BY <1>2, <4>1, EmptySeq, LenProperties
        <4>3. 1 \in 1 .. m
          BY <4>2
        <4>4. QED
          BY <4>2, <4>3 DEF RecordsAreWhole
      <3>3. R[1] = r
        BY <3>1, <3>2
      <3>4. r.findings = FALSE
        <4>1. "findings" \in DOMAIN R[1]
          BY <3>2 DEF OfTask
        <4>2. QED
          BY <2>3, <4>1
      <3>5. QED
        BY <1>2, <3>3, <3>4, Zenon
    <2>7. QED
      BY <2>4, <2>5, <2>6 DEF OldestGone
  <1>3. CASE ~c1 /\ ~c2 /\ c3
    <2>1. t = [context EXCEPT !.updates = U \ {Min(U)}]
      BY <1>3, Zenon DEF GivenUp
    <2>2. DOMAIN t = OfContext /\ t.records = R /\ t.updates = U \ {Min(U)} /\ t.orders = O
      BY <1>0, <2>1
    <2>3. Min(U) \in U
      <3>1. U # {}
        <4>1. U = {} => Cardinality(U) = 0
          BY FS_EmptySet
        <4>2. QED
          BY <1>3, <4>1
      <3>2. QED
        BY <3>1, MinOf
    <2>4. t # context
      BY <2>2, <2>3
    <2>5. QED
      BY <1>3, <2>2, <2>4 DEF OldestGone, FewerRecords
  <1>4. CASE ~c1 /\ ~c2 /\ ~c3 /\ c4
    <2>1. t = [context EXCEPT !.orders = O \ {Min(O)}]
      BY <1>4, Zenon DEF GivenUp
    <2>2. DOMAIN t = OfContext /\ t.records = R /\ t.orders = O \ {Min(O)} /\ t.updates = U
      BY <1>0, <2>1
    <2>3. Min(O) \in O
      <3>1. O # {}
        <4>1. O = {} => Cardinality(O) = 0
          BY FS_EmptySet
        <4>2. QED
          BY <1>4, <4>1
      <3>2. QED
        BY <3>1, MinOf
    <2>4. t # context
      BY <2>2, <2>3
    <2>5. QED
      BY <1>4, <2>2, <2>4 DEF OldestGone, FewerRecords
  <1>5. CASE ~c1 /\ ~c2 /\ ~c3 /\ ~c4 /\ c5
    <2>1. t = [context EXCEPT !.records[1].details = FALSE]
      BY <1>5, Zenon DEF GivenUp
    <2>2. t = [context EXCEPT !.records = [R EXCEPT ![1] = [R[1] EXCEPT !["details"] = FALSE]]]
      BY <2>1
    <2>3. PICK r : r = [R[1] EXCEPT !["details"] = FALSE]
      OBVIOUS
    <2>4. DOMAIN t = OfContext /\ t.records = [R EXCEPT ![1] = r] /\ t.updates = U /\ t.orders = O
      BY <1>0, <2>2, <2>3
    <2>5. FewerRecords(t)
      BY <1>5, <2>3, <2>4, RecordsGivenUp
    <2>6. t # context
      <3> SUFFICES ASSUME t = context PROVE FALSE
        OBVIOUS
      <3>1. R = [R EXCEPT ![1] = r]
        BY <2>4
      <3>2. 1 \in DOMAIN R /\ DOMAIN R[1] = OfTask
        <4>1. PICK X : R \in Seq(X)
          BY DEF RecordsAreFirst
        <4>2. PICK m \in Nat : m = Len(R) /\ DOMAIN R = 1 .. m /\ m # 0
          BY <1>5, <4>1, EmptySeq, LenProperties
        <4>3. 1 \in 1 .. m
          BY <4>2
        <4>4. QED
          BY <4>2, <4>3 DEF RecordsAreWhole
      <3>3. R[1] = r
        BY <3>1, <3>2
      <3>4. r.details = FALSE
        <4>1. "details" \in DOMAIN R[1]
          BY <3>2 DEF OfTask
        <4>2. QED
          BY <2>3, <4>1
      <3>5. QED
        BY <1>5, <3>3, <3>4, Zenon
    <2>7. QED
      BY <2>4, <2>5, <2>6 DEF OldestGone
  <1>6. CASE ~c1 /\ ~c2 /\ ~c3 /\ ~c4 /\ ~c5
    <2>1. t = context
      BY <1>6, Zenon DEF GivenUp
    <2>2. Len(R) <= 1
      BY <1>6 DEF RecordsAreFirst
    <2>3. ~Fits => Spent
      BY <1>6, <2>2, Zenon DEF Spent, Fits
    <2>4. QED
      BY <2>1, <2>3 DEF OldestGone, FewerRecords
  <1>7. QED
    BY <1>1, <1>2, <1>3, <1>4, <1>5, <1>6, Zenon

LEMMA OldestReaches ==
  ASSUME NEW n \in Nat, NEW U, U \subseteq 1 .. n, NEW V, OldestGone(V, U), NEW T, T \subseteq Nat, Reaches(U, T)
  PROVE  V \subseteq U /\ Reaches(V, T)
  <1>1. CASE V = U
    BY <1>1
  <1>2. CASE Cardinality(U) > 1 /\ V = U \ {Min(U)}
    <2>1. IsFiniteSet(1 .. n) /\ 1 .. n \subseteq Nat
      BY FS_Interval
    <2>2. U \subseteq Nat /\ IsFiniteSet(U)
      <3>1. U \in SUBSET (1 .. n)
        OBVIOUS
      <3>2. QED
        BY <2>1, <3>1, FS_Subset
    <2>3. Reaches(U \ {Min(U)}, T)
      BY <1>2, <2>2, OldestGivenUp
    <2>4. QED
      BY <1>2, <2>3
  <1>3. QED
    BY <1>1, <1>2 DEF OldestGone

LEMMA ShrinksKept == ContextKept /\ Shrinks => ContextKept'
  <1> SUFFICES ASSUME ContextKept, Shrinks PROVE ContextKept'
    OBVIOUS
  <1>1. saved' = saved /\ said' = said /\ orders' = orders /\ composing.at = "fitting" /\ context' = GivenUp /\ ~Fits
    BY DEF Shrinks
  <1>2. /\ DOMAIN composing' = OfComposing /\ composing'.at \in {"refused", "fitting"}
        /\ composing'.at = "refused" => context' = context
        /\ composing'.budget = composing.budget
        /\ composing'.began = composing.began /\ composing'.ordered = composing.ordered /\ composing'.horizon = composing.horizon
    BY DEF Shrinks, ContextKept, OfComposing
  <1>3. /\ saved \in Seq(SavedTasks) /\ said \in Seq(UpdateKinds) /\ orders \in Nat
        /\ DOMAIN context = OfContext /\ RecordsAreFirst /\ RecordsAreWhole
        /\ context.updates \subseteq 1 .. Len(said) /\ Reaches(context.updates, NotBeats)
        /\ context.orders \subseteq 1 .. orders /\ Reaches(context.orders, 1 .. composing.ordered)
        /\ composing.began \in 0 .. Len(said) /\ composing.ordered \in 0 .. orders
    BY <1>1 DEF ContextKept
  <1>4. PICK l \in Nat : l = Len(said)
    BY <1>3, LenProperties
  <1>5. context.updates \subseteq Nat /\ context.orders \subseteq Nat /\ NotBeats \subseteq Nat /\ 1 .. composing.ordered \subseteq Nat
    <2>1. 1 .. l \subseteq Nat /\ 1 .. orders \subseteq Nat /\ 1 .. composing.began \subseteq Nat /\ 1 .. composing.ordered \subseteq Nat
      BY <1>3, <1>4
    <2>2. NotBeats \subseteq 1 .. composing.began
      BY DEF NotBeats
    <2>3. QED
      BY <1>3, <1>4, <2>1, <2>2
  <1>6. /\ DOMAIN context' = OfContext /\ FewerRecords(context')
        /\ OldestGone(context'.updates, context.updates) /\ OldestGone(context'.orders, context.orders)
        /\ (context' = context => Spent)
    BY <1>1, <1>3, <1>5, GivenUpIs
  <1>7. context'.updates \subseteq 1 .. Len(said) /\ Reaches(context'.updates, NotBeats)
    <2>1. PICK U : U = context.updates
      OBVIOUS
    <2>2. PICK V : V = context'.updates
      OBVIOUS
    <2>3. U \subseteq 1 .. l /\ OldestGone(V, U) /\ NotBeats \subseteq Nat /\ Reaches(U, NotBeats)
      BY <1>3, <1>4, <1>5, <1>6, <2>1, <2>2
    <2>4. V \subseteq U /\ Reaches(V, NotBeats)
      BY <2>3, OldestReaches
    <2>5. QED
      BY <1>4, <2>2, <2>3, <2>4
  <1>8. context'.orders \subseteq 1 .. orders /\ Reaches(context'.orders, 1 .. composing.ordered)
    BY <1>3, <1>5, <1>6, OldestReaches
  <1>9. NotBeats' = NotBeats
    BY <1>1, <1>2 DEF NotBeats
  <1>10. RelevantTasks' = RelevantTasks
    BY <1>1, SameTasks
  <1>11. RecordsAreFirst' /\ RecordsAreWhole'
    <2>1. CASE context'.records = context.records
      BY <1>1, <1>3, <2>1, SameRecords
    <2>2. CASE context'.records # context.records
      <3>1. /\ Len(context'.records) \in Nat /\ DOMAIN context'.records = 1 .. Len(context'.records)
            /\ \E X : context'.records \in Seq(X)
            /\ Len(context'.records) >= 1 /\ Len(context'.records) <= Len(context.records)
            /\ \A k \in 1 .. Len(context'.records) :
                 context'.records[k].task = context.records[k].task /\ DOMAIN context'.records[k] = OfTask
        BY <1>6, <2>2 DEF FewerRecords
      <3>2. PICK n \in Nat, m \in Nat, h \in Nat :
              n = Len(RelevantTasks) /\ m = Len(context.records) /\ h = Len(context'.records) /\ m <= n /\ h >= 1 /\ h <= m
        BY <1>3, <3>1, RelevantIs, LenProperties DEF RecordsAreFirst
      <3>3. \A k \in 1 .. m : context.records[k].task = RelevantTasks[k]
        BY <1>3, <3>2 DEF RecordsAreFirst
      <3>4. \A k \in 1 .. h : k \in 1 .. m
        BY <3>2
      <3>5. \A k \in 1 .. h : context'.records[k].task = RelevantTasks[k]
        BY <3>1, <3>2, <3>3, <3>4
      <3>6. h <= n
        BY <3>2
      <3>7. RecordsAreFirst'
        BY <1>1, <1>10, <3>1, <3>2, <3>5, <3>6 DEF RecordsAreFirst
      <3>8. RecordsAreWhole'
        BY <3>1 DEF RecordsAreWhole
      <3>9. QED
        BY <3>7, <3>8
    <2>3. QED
      BY <2>1, <2>2
  <1>12. composing'.at = "refused" => Spent'
    <2> SUFFICES ASSUME composing'.at = "refused" PROVE Spent'
      OBVIOUS
    <2>1. context' = context /\ composing'.budget = composing.budget
      BY <1>2
    <2>2. QED
      BY <1>6, <2>1 DEF Spent
  <1>13. composing'.at # "given" /\ composing'.at # "snapshot"
    BY <1>2
  <1>14. composing.began <= composing.horizon /\ composing.budget \in Nat /\ composing.horizon \in 0 .. Len(said)
    BY <1>1 DEF ContextKept
  <1>15. composing'.at \in {"snapshot", "updates", "orders", "fitting", "given", "refused"}
    BY <1>2
  <1>16. QED
    BY <1>1, <1>2, <1>3, <1>6, <1>7, <1>8, <1>9, <1>11, <1>12, <1>14, <1>15 DEF ContextKept

LEMMA ContextStep == ContextKept /\ [ContextNext]_contextVars => ContextKept'
  BY SnapshotKept, UpdatesKept, OrdersKept, SaidKept, OrderedKept, GivenKept, ShrinksKept, ContextStutters DEF ContextNext

\* The number of the last of them.
LEMMA LastNumber ==
  ASSUME NEW n \in Nat, NEW S, S \subseteq 1 .. n
  PROVE  NewestOf(S) \in Nat /\ (\A x \in S : x <= NewestOf(S)) /\ (NewestOf(S) = 0 <=> S = {}) /\ (S # {} => NewestOf(S) \in S)
  <1>1. CASE S = {}
    BY <1>1 DEF NewestOf
  <1>2. CASE S # {}
    <2>1. PICK x \in S : \A y \in S : y <= x
      BY <1>2, GreatestNumber
    <2>2. \A y \in S : y \in 1 .. n
      OBVIOUS
    <2>3. \A y \in S : y \in Nat /\ y >= 1
      BY <2>2
    <2>4. \A y \in S : (\A z \in S : y >= z) => y = x
      BY <2>1, <2>3
    <2>5. x \in S /\ \A z \in S : x >= z
      BY <2>1, <2>3
    <2>6. Max(S) = x
      BY <2>4, <2>5 DEF Max
    <2>7. QED
      BY <1>2, <2>1, <2>3, <2>6 DEF NewestOf
  <1>3. QED
    BY <1>1, <1>2

\* What reaches all of them has one that is not before the last.
LEMMA ReachesLast ==
  ASSUME NEW n \in Nat, NEW U, U \subseteq 1 .. n, NEW T, T \subseteq 1 .. n, Reaches(U, T)
  PROVE  NewestOf(U) >= NewestOf(T)
  <1>1. NewestOf(T) \in Nat /\ (T # {} => NewestOf(T) \in T) /\ (NewestOf(T) = 0 <=> T = {})
    BY LastNumber
  <1>2. NewestOf(U) \in Nat /\ (\A x \in U : x <= NewestOf(U))
    BY LastNumber
  <1>3. CASE T = {}
    BY <1>1, <1>2, <1>3
  <1>4. CASE T # {}
    <2>1. PICK y \in U : y >= NewestOf(T)
      BY <1>1, <1>4 DEF Reaches
    <2>2. y \in 1 .. n /\ y <= NewestOf(U)
      BY <1>2
    <2>3. QED
      BY <1>1, <1>2, <2>1, <2>2
  <1>5. QED
    BY <1>3, <1>4

\* When nothing is left to give up, what is told counts each thing once.
LEMMA SpentIsShort ==
  ASSUME RecordsAreFirst, Spent, saved \in Seq(SavedTasks), composing.budget \in Nat,
         NEW n \in Nat, context.updates \subseteq 1 .. n, context.orders \subseteq 1 .. n
  PROVE  composing.budget < Count(saved # <<>>) + Count(context.updates # {}) + Count(context.orders # {})
  <1>1. PICK m \in Nat : m = Len(context.records) /\ DOMAIN context.records = 1 .. m /\ m <= 1
    BY DEF RecordsAreFirst, Spent
  <1>2. IsFiniteSet(1 .. n) /\ IsFiniteSet(1 .. m) /\ m \in {0, 1}
    <2>1. ASSUME NEW k \in Nat PROVE IsFiniteSet(1 .. k)
      BY FS_Interval
    <2>2. m \in {0, 1}
      <3>1. m \in Nat /\ m <= 1
        BY <1>1
      <3>2. m = 0 \/ m = 1
        BY <3>1
      <3>3. QED
        BY <3>2
    <2>3. QED
      BY <2>1, <2>2
  <1>3. ASSUME NEW U, U \subseteq 1 .. n, ~(Cardinality(U) > 1)
        PROVE  Cardinality(U) = Count(U # {}) /\ Count(U # {}) \in Nat
    <2>1. U \in SUBSET (1 .. n)
      BY <1>3
    <2>2. IsFiniteSet(U)
      BY <1>2, <2>1, FS_Subset
    <2>3. Cardinality(U) \in Nat /\ (Cardinality(U) = 0 <=> U = {})
      BY <2>2, FS_CardinalityType, FS_EmptySet
    <2>4. CASE U = {}
      <3>1. Count(U # {}) = 0
        BY <2>4 DEF Count
      <3>2. QED
        BY <2>3, <2>4, <3>1
    <2>5. CASE U # {}
      <3>1. Count(U # {}) = 1
        BY <2>5 DEF Count
      <3>2. Cardinality(U) = 1
        <4>1. PICK k \in Nat : k = Cardinality(U)
          BY <2>3
        <4>2. ~(k > 1) /\ k # 0
          BY <1>3, <2>3, <2>5, <4>1
        <4>3. k = 1
          BY <4>2
        <4>4. QED
          BY <4>1, <4>3
      <3>3. QED
        BY <3>1, <3>2
    <2>6. QED
      BY <2>4, <2>5
  <1>4. /\ Cardinality(context.updates) = Count(context.updates # {}) /\ Count(context.updates # {}) \in Nat
        /\ Cardinality(context.orders) = Count(context.orders # {}) /\ Count(context.orders # {}) \in Nat
    BY <1>3 DEF Spent
  <1>5. PICK F : F = CostOf(context)
    OBVIOUS
  <1>6. MapThenSumSet(LAMBDA i : CostOf(context)[i], DOMAIN context.records) = Total(F, 1 .. m)
    BY <1>1, <1>5 DEF MapThenSumSet, MapThenFoldSet, Total, Sums
  <1>7. LengthOf(context) = Total(F, 1 .. m) + Cardinality(context.updates) + Cardinality(context.orders)
    BY <1>6 DEF LengthOf
  <1>8. \A i \in 1 .. m : F[i] = 1 + Count(context.records[i].findings) + Count(context.records[i].details)
    BY <1>1, <1>5 DEF CostOf
  <1>9. Total(F, 1 .. m) = m
    <2>1. CASE m = 0
      <3>1. 1 .. m = {}
        BY <2>1
      <3>2. QED
        BY <1>2, <2>1, <3>1, SumOfNumbers
    <2>2. CASE m = 1
      <3>1. 1 .. m = {1} /\ 1 \in 1 .. m
        BY <2>2
      <3>2. context.records # <<>>
        <4>1. DOMAIN context.records # {}
          BY <1>1, <3>1
        <4>2. QED
          BY <4>1
      <3>3. ~context.records[1].findings /\ ~context.records[1].details
        BY <3>2 DEF Spent
      <3>4. Count(context.records[1].findings) = 0 /\ Count(context.records[1].details) = 0
        BY <3>3, Zenon DEF Count
      <3>5. F[1] = 1
        BY <1>8, <3>1, <3>4
      <3>6. Total(F, 1 .. m) = F[1]
        <4>1. \A i \in 1 .. m : F[i] \in Nat
          BY <3>1, <3>5
        <4>2. QED
          BY <1>2, <3>1, <4>1, SumOfNumbers
      <3>7. QED
        BY <2>2, <3>5, <3>6
    <2>3. QED
      BY <1>2, <2>1, <2>2
  <1>10. m = Count(saved # <<>>)
    <2>1. CASE saved = <<>>
      <3>1. RelevantTasks \in Seq(DOMAIN saved) /\ DOMAIN saved = {}
        BY <2>1, RelevantIs
      <3>2. Len(RelevantTasks) = 0
        <4>1. PICK k \in Nat : k = Len(RelevantTasks) /\ DOMAIN RelevantTasks = 1 .. k
          BY <3>1, LenProperties
        <4>2. \A i \in 1 .. k : RelevantTasks[i] \in {}
          BY <3>1, <4>1, ElementOfSeq
        <4>3. ~(1 <= k)
          BY <4>2
        <4>4. QED
          BY <4>1, <4>3
      <3>3. m <= 0
        BY <1>1, <3>2 DEF RecordsAreFirst
      <3>4. Count(saved # <<>>) = 0
        BY <2>1 DEF Count
      <3>5. QED
        BY <3>3, <3>4
    <2>2. CASE saved # <<>>
      <3>1. m >= 1
        BY <1>1, <2>2 DEF RecordsAreFirst
      <3>2. Count(saved # <<>>) = 1
        BY <2>2 DEF Count
      <3>3. QED
        BY <1>1, <3>1, <3>2
    <2>3. QED
      BY <2>1, <2>2
  <1>11. ~(m + Count(context.updates # {}) + Count(context.orders # {}) <= composing.budget)
    BY <1>4, <1>7, <1>9 DEF Spent
  <1>12. PICK u \in Nat, o \in Nat, b \in Nat :
           u = Count(context.updates # {}) /\ o = Count(context.orders # {}) /\ b = composing.budget
    BY <1>4
  <1>13. b < m + u + o
    <2>1. ~(m + u + o <= b)
      BY <1>11, <1>12
    <2>2. QED
      BY <2>1
  <1>14. QED
    BY <1>10, <1>12, <1>13

LEMMA LastWordsAreTold == ContextKept => LastWordIsTold
  <1> SUFFICES ASSUME ContextKept, composing.at \in {"given", "refused"} PROVE LastWordIsTold
    BY DEF LastWordIsTold
  <1>1. /\ saved \in Seq(SavedTasks) /\ said \in Seq(UpdateKinds) /\ orders \in Nat /\ composing.budget \in Nat
        /\ RecordsAreFirst
        /\ context.updates \subseteq 1 .. Len(said) /\ Reaches(context.updates, NotBeats)
        /\ context.orders \subseteq 1 .. orders /\ Reaches(context.orders, 1 .. composing.ordered)
        /\ composing.began \in 0 .. Len(said) /\ composing.ordered \in 0 .. orders
        /\ composing.at = "refused" => Spent
    BY DEF ContextKept
  <1>2. PICK l \in Nat : l = Len(said)
    BY <1>1, LenProperties
  <1>3. /\ \A i \in ToldTasks, j \in DOMAIN saved \ ToldTasks :
             \/ ToldBefore(i, j)
             \/ Rank(j) = 3 /\ Cardinality(ToldBlocked) = LastBlocked /\ \A k \in ToldBlocked : k > j
        /\ saved # <<>> => ToldTasks # {}
    BY <1>1, FirstsAreTold
  <1>4. NewestOf(context.updates) >= NewestOf({i \in 1 .. composing.began : said[i] # "heartbeat"})
    <2>1. NotBeats \subseteq 1 .. l
      BY <1>1, <1>2 DEF NotBeats
    <2>2. context.updates \subseteq 1 .. l
      BY <1>1, <1>2
    <2>3. NewestOf(context.updates) >= NewestOf(NotBeats)
      BY <1>1, <2>1, <2>2, ReachesLast
    <2>4. QED
      BY <2>3 DEF NotBeats
  <1>5. NewestOf(context.orders) >= composing.ordered
    <2>1. 1 .. composing.ordered \subseteq 1 .. orders /\ composing.ordered \in Nat
      BY <1>1
    <2>2. NewestOf(context.orders) >= NewestOf(1 .. composing.ordered)
      BY <1>1, <2>1, ReachesLast
    <2>3. /\ NewestOf(1 .. composing.ordered) \in Nat
          /\ \A x \in 1 .. composing.ordered : x <= NewestOf(1 .. composing.ordered)
      BY <1>1, <2>1, LastNumber
    <2>4. NewestOf(context.orders) \in Nat
      BY <1>1, LastNumber
    <2>5. composing.ordered <= NewestOf(1 .. composing.ordered)
      <3>1. composing.ordered = 0 \/ composing.ordered \in 1 .. composing.ordered
        BY <2>1
      <3>2. QED
        BY <2>1, <2>3, <3>1
    <2>6. QED
      BY <2>1, <2>2, <2>3, <2>4, <2>5
  <1>6. ASSUME composing.at = "refused"
        PROVE  composing.budget < Count(saved # <<>>) + Count(context.updates # {}) + Count(context.orders # {})
    <2>1. PICK n \in Nat : l <= n /\ orders <= n
      <3>1. l <= l + orders /\ orders <= l + orders /\ l + orders \in Nat
        BY <1>1
      <3>2. QED
        BY <3>1
    <2>2. 1 .. l \subseteq 1 .. n /\ 1 .. orders \subseteq 1 .. n
      BY <1>1, <2>1
    <2>3. context.updates \subseteq 1 .. n /\ context.orders \subseteq 1 .. n
      BY <1>1, <1>2, <2>2
    <2>4. QED
      BY <1>1, <1>6, <2>3, SpentIsShort
  <1>7. QED
    BY <1>3, <1>4, <1>5, <1>6 DEF LastWordIsTold

(* Whatever is said while the context is composed and however little fits, *)
(* the model is told of the first tasks, the last update and the last      *)
(* instruction, and is refused only what cannot be made to fit.            *)
THEOREM LastWordStaysTold == ContextSpec => []LastWordIsTold
  BY ContextStarts, ContextStep, LastWordsAreTold, PTL DEF ContextSpec

-----------------------------------------------------------------------------
(* The composition: while one part is in focus the others stand still, so  *)
(* each part sees its own behaviours only.                                 *)
LEMMA HostIsItsParts ==
  HostSpec => /\ NoticesInit /\ [][NoticesNext]_noticeVars
              /\ MailboxSpec /\ FilesSpec /\ ConversationSpec /\ ConnectorsSpec /\ RelaySpec /\ PairingSpec /\ LimitsSpec
              /\ ResearchSpec /\ PacingSpec /\ ContextSpec /\ MergeSpec
  <1>1. HostInit => /\ NoticesInit /\ MailboxInit /\ FilesInit /\ ConversationInit /\ ConnectorsInit /\ RelayInit
                    /\ PairingInit /\ LimitsInit /\ ResearchInit /\ PacingInit /\ ContextInit /\ MergeInit
    BY DEF HostInit
  <1>2. ASSUME [HostNext]_hostVars
        PROVE  /\ [NoticesNext]_noticeVars /\ [MailboxNext]_mailVars /\ [FilesNext]_filesVars
               /\ [ConversationNext]_conversationVars /\ [ConnectorsNext]_connectorsVars /\ [RelayNext]_relayVars
               /\ [PairingNext]_pairingVars /\ [LimitsNext]_limitVars /\ [ResearchNext]_researchVars
               /\ [PacingNext]_pacingVars /\ [ContextNext]_contextVars /\ [MergeNext]_mergeVars
    BY <1>2 DEF HostNext, hostVars, Only, Still
  <1>3. QED
    BY <1>1, <1>2, PTL DEF HostSpec, MailboxSpec, FilesSpec, ConversationSpec, ConnectorsSpec, RelaySpec, PairingSpec,
         LimitsSpec, ResearchSpec, PacingSpec, ContextSpec, MergeSpec

(* A connection exists because the user allowed it, and its token is       *)
(* refreshed by one worker request at a time (connectors/manager.py), for  *)
(* the composition that TLC runs.                                          *)
THEOREM ConnectionsKeepToTheUser == HostSpec => []ConnectionsAreTheUsers
  BY HostIsItsParts, ConnectionsStayTheUsers, PTL DEF ConnectionsAreTheUsers

(* What is stored and served keeps to its limits, and a booking that the   *)
(* worker was told of is booked (agents_store.py, subagent_tools,          *)
(* limits.py), for the composition that TLC runs.                          *)
THEOREM LimitsKeepHolding == HostSpec => []LimitsHold
  BY HostIsItsParts, QuotasAreKept, ToldStaysBooked, PlacesStayKept, PTL DEF LimitsHold

(* The instructions that are read are those of one moment, in order and    *)
(* once each, and the revisions count them (task_store.py), for the        *)
(* composition that TLC runs.                                              *)
THEOREM MailKeepsItsWordHere == HostSpec => ReadsAnInbox
  BY HostIsItsParts, MailKeepsItsWord, PTL

(* Versions of files are whole, the newest one comes back and the user's   *)
(* own files stay (task_store.py), for the composition that TLC runs.      *)
THEOREM FilesStayKeptHere == HostSpec => FilesAreKept
  BY HostIsItsParts, FilesStayKept, PTL DEF FilesAreKept

\* The same where the retrieval is one part of several.
LEMMA RemindersAreFairHere == HostSpec => [](CeilingIsFair /\ RowsTellTheTruth)
  <1> DEFINE Kept == Reminded /\ (focus = "retrieval" => asked \in Queries)
  <1>1. HostInit => Kept
    BY DEF HostInit, RetrievalInit, Reminded
  <1>2. ASSUME Kept, [HostNext]_hostVars
        PROVE  Kept'
    <2>1. CASE UNCHANGED <<retrievalVars, focus>>
      BY <1>2, <2>1 DEF retrievalVars, Reminded
    <2>2. CASE Only("retrieval") /\ RetrievalNext
      BY <1>2, <2>2 DEF Only, Reminded, RetrievalNext, Retrieve
    <2>3. QED
      BY <1>2, <2>1, <2>2 DEF HostNext, hostVars, Only, Still
  <1>3. Kept => CeilingIsFair /\ RowsTellTheTruth
    BY AnswersAreFair
  <1> HIDE DEF Kept
  <1>4. QED
    BY <1>1, <1>2, <1>3, PTL DEF HostSpec

(* What is picked under a limit is what matters most, and what is said of  *)
(* the rest is true (engine/shadow.py, tasks.py 567-720, engine/webtools.py *)
(* 660-772), for the composition that TLC runs.                            *)
THEOREM PickedStaysFair == HostSpec => []PickedIsFair
  BY HostIsItsParts, RemindersAreFairHere, LastWordStaysTold, MergesStayFair, PTL DEF PickedIsFair
=============================================================================

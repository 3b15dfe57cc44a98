---------------------------- MODULE FileDelivery -----------------------------
(***************************************************************************)
(* The files of one agreement at the provider's daemon                     *)
(* (packages/arc402-daemon/src/file-delivery.ts), and the download and     *)
(* verification of them at the client's (delivery-client.ts).              *)
(*                                                                         *)
(* The provider writes synchronously, the file first and then the manifest *)
(* that lists the directory: only a crash comes between the two.  A        *)
(* manifest that was cut short counts as none, as in getManifest.  The     *)
(* root hash of a manifest is the bag of its contents, since the hashes    *)
(* are sorted and the names are not hashed.  The client fetches the        *)
(* manifest, then file by file, while the provider's files may change.     *)
(* POST /delivery starts it.  The daemon takes that from anybody (a        *)
(* signature is looked at, and logged), and the root to compare with and   *)
(* the server to fetch from are those of the request: the provider's       *)
(* daemon (gated), one that hands the same directory out, or any other.    *)
(***************************************************************************)
EXTENDS Integers, FiniteSets, Functions, Sequences, SequencesExt

CONSTANTS
  Names,          \* file names
  Contents,       \* what a file may hold
  SizeOf,         \* the length of each content and of a file cut short
  Absent, CutShort,   \* no file of the name; a file a crash left incomplete
  OtherFiles,     \* what servers that are not the provider's hand out
  MaxFileSize, MaxJobSize,
  MaxStoreCrashes \* bound

ASSUME DeliveryAssumption ==
  /\ IsFiniteSet(Names)
  /\ Absent # CutShort /\ {Absent, CutShort} \cap Contents = {}
  /\ OtherFiles \subseteq [Names -> Contents \cup {Absent}]
  /\ SizeOf \in [Contents \cup {CutShort} -> Nat]
  /\ MaxFileSize \in Nat /\ MaxJobSize \in Nat /\ MaxStoreCrashes \in Nat

VARIABLES
  gated,
  store,        \* the directory and its manifest
  committed,    \* the manifest whose root was committed on chain
  storeCrashes, \* crashes while files were stored
  client        \* the client's download

deliveryVars == <<gated, store, committed, storeCrashes, client>>

Empty == [n \in Names |-> Absent]
NoFiles == [disk |-> Empty, listed |-> FALSE, manifest |-> Empty]

Present(files) == {n \in Names : files[n] # Absent}
TotalSize(files) ==
  SumFunction([n \in Names |-> IF files[n] = Absent THEN 0 ELSE SizeOf[files[n]]])
RootOf(files) ==
  [c \in Contents \cup {CutShort} |-> Cardinality({n \in Names : files[n] = c})]
NoClient ==
  [at |-> "idle", root |-> RootOf(Empty), other |-> FALSE, manifest |-> Empty, got |-> Empty]

DeliveryInit ==
  /\ gated \in BOOLEAN
  /\ store = NoFiles
  /\ committed = Empty
  /\ storeCrashes = 0
  /\ client = NoClient

(* recomputeManifest: what is in the directory *)
Recomputed(s) == [s EXCEPT !.listed = TRUE, !.manifest = s.disk]

Fits(s, n, c) ==
  /\ s.disk[n] = Absent
  /\ SizeOf[c] <= MaxFileSize
  /\ (IF s.listed THEN TotalSize(s.manifest) ELSE 0) + SizeOf[c] <= MaxJobSize

(* Faulty variant: a file that exists is written over. *)
Stored_Overwrites(s, n, c) ==
  IF SizeOf[c] <= MaxFileSize /\ TotalSize(s.manifest) + SizeOf[c] <= MaxJobSize
  THEN Recomputed([s EXCEPT !.disk[n] = c])
  ELSE s

(* storeFile: a file is never written over; one too large is refused *)
Stored(s, n, c) ==
  IF Fits(s, n, c) THEN Recomputed([s EXCEPT !.disk[n] = c])
  ELSE IF s.disk[n] # Absent /\ ~s.listed THEN Recomputed(s) ELSE s

(* What a crash in the middle of storeFile leaves *)
CrashLeaves(s, n, c) ==
  IF Fits(s, n, c)
  THEN LET w == [s EXCEPT !.disk[n] = c]
       IN {[s EXCEPT !.disk[n] = CutShort], w, [w EXCEPT !.listed = FALSE, !.manifest = Empty]}
  ELSE {s}

(* storeDirectory after the first k of the names *)
StoreAll(s, files, names, k) ==
  LET stored[i \in 0..k] ==
        IF i = 0 THEN s ELSE Stored(stored[i - 1], names[i], files[names[i]])
  IN stored[k]

(* The output of a job, in the order readdirSync returns it *)
Outputs == {files \in [Names -> Contents \cup {Absent}] : Present(files) # {}}

(* POST /job/:id/upload *)
Upload(n, c) ==
  /\ store' = Stored(store, n, c)
  /\ UNCHANGED <<gated, committed, storeCrashes, client>>

(* The job ends: storeDirectory stores its output, and the root of the      *)
(* manifest it returns is committed.                                        *)
CollectDeliverables(files, names) ==
  /\ committed = Empty
  /\ store' = Recomputed(StoreAll(store, files, names, Len(names)))
  /\ committed' = store'.manifest
  /\ UNCHANGED <<gated, storeCrashes, client>>

(* The daemon crashes while it stores the output of a job or an upload;     *)
(* what is on disk stays.                                                   *)
StoreCrashes(files, names, k) ==
  /\ storeCrashes < MaxStoreCrashes
  /\ committed = Empty \/ Len(names) = 1
  /\ storeCrashes' = storeCrashes + 1
  /\ store' \in CrashLeaves(StoreAll(store, files, names, k - 1), names[k], files[names[k]])
  /\ UNCHANGED <<gated, committed, client>>

(* The roots a request announces; one that nobody has the files of is       *)
(* refused in the end.                                                      *)
Announced == {RootOf(files) : files \in {committed, store.manifest} \cup OtherFiles}

(* POST /delivery reaches the client, which asks for the manifest.  It      *)
(* sends neither a signature nor a token: the provider's daemon refuses.    *)
FetchManifest(root, other) ==
  /\ client.at = "idle"
  /\ \E files \in IF other THEN OtherFiles ELSE {store.manifest} :
       client' = IF ~other /\ (gated \/ ~store.listed)
                 THEN [client EXCEPT !.at = "failed"]
                 ELSE [client EXCEPT !.at = "fetching", !.root = root, !.other = other,
                                     !.manifest = files]
  /\ UNCHANGED <<gated, store, committed, storeCrashes>>

(* The next file, kept when its hash is the one listed *)
FetchFile(n) ==
  /\ client.at = "fetching"
  /\ client.manifest[n] # Absent /\ client.got[n] = Absent
  /\ client' = IF client.other \/ store.disk[n] = client.manifest[n]
               THEN [client EXCEPT !.got[n] = client.manifest[n]]
               ELSE [client EXCEPT !.at = "failed"]
  /\ UNCHANGED <<gated, store, committed, storeCrashes>>

(* Faulty variant: the root is compared with the manifest's only. *)
Verify_OwnRoot ==
  /\ client.at = "fetching" /\ Present(client.got) = Present(client.manifest)
  /\ client' = [client EXCEPT !.at = "ok"]
  /\ UNCHANGED <<gated, store, committed, storeCrashes>>

(* The root of the manifest is compared with the root announced. *)
Verify ==
  /\ client.at = "fetching" /\ Present(client.got) = Present(client.manifest)
  /\ client' = [client EXCEPT !.at =
       IF RootOf(client.manifest) = client.root THEN "ok" ELSE "failed"]
  /\ UNCHANGED <<gated, store, committed, storeCrashes>>

(* A request fails or times out. *)
ConnectionLost ==
  /\ client.at \in {"idle", "fetching"}
  /\ client' = [client EXCEPT !.at = "failed"]
  /\ UNCHANGED <<gated, store, committed, storeCrashes>>

DeliveryNext ==
  \/ \E n \in Names, c \in Contents : Upload(n, c)
  \/ \E files \in Outputs : \E names \in SetToSeqs(Present(files)) :
       \/ CollectDeliverables(files, names)
       \/ \E k \in 1..Len(names) : StoreCrashes(files, names, k)
  \/ \E root \in Announced, other \in BOOLEAN : FetchManifest(root, other)
  \/ Verify \/ ConnectionLost
  \/ \E n \in Names : FetchFile(n)

DeliverySpec == DeliveryInit /\ [][DeliveryNext]_deliveryVars

-----------------------------------------------------------------------------
Files == [Names -> Contents \cup {Absent, CutShort}]
Client == [at : {"idle", "fetching", "ok", "failed"}, root : {RootOf(files) : files \in Files},
           other : BOOLEAN, manifest : Files, got : Files]

DeliveryTypeOK ==
  /\ gated \in BOOLEAN /\ committed \in Files /\ storeCrashes \in 0..MaxStoreCrashes
  /\ store \in [disk : Files, listed : BOOLEAN, manifest : Files]
  /\ client \in Client

(* What a manifest lists is on disk as listed, whatever crashed, and a file *)
(* whose hash was committed stays as it was.  Only a crash leaves a file    *)
(* that is not listed, or more bytes than a job may have.                   *)
DeliveryAccounted ==
  /\ \A n \in Present(store.manifest) : store.manifest[n] = store.disk[n]
  /\ \A n \in Present(committed) :
       /\ store.disk[n] = committed[n]
       /\ store.listed => store.manifest[n] = committed[n]
  /\ storeCrashes = 0 => store.manifest = store.disk /\ TotalSize(store.disk) <= MaxJobSize

(* A client that reports a delivery as verified holds files whose root is   *)
(* the one it was told, whoever handed them out and although files may be   *)
(* added while it downloads: the delivery, if that root was the one the     *)
(* provider committed.                                                      *)
VerifiedIsAnnounced == client.at = "ok" => RootOf(client.got) = client.root

(* Both: what the provider promised is there, and is what a client that was *)
(* told of it accepts.                                                      *)
DeliveryHonest == DeliveryAccounted /\ VerifiedIsAnnounced

(* What delivery-client.ts says of itself: it "verifies the root hash       *)
(* against the on-chain delivery hash".  It does not hold: README, section 6. *)
VerifiedIsCommitted == client.at = "ok" => RootOf(client.got) = RootOf(committed)
=============================================================================

------------------------ MODULE PrekeyManagerProofs ------------------------
(***************************************************************************)
(* Theorems about PrekeyManager, with their proofs: what the files, the    *)
(* memory of the account and the prekey server say of each other, for      *)
(* every lifetime of the profiles, any number of prekey messages and       *)
(* requests, and any order of renewals, publications, answers, failures    *)
(* and restarts.                                                           *)
(***************************************************************************)
EXTENDS PrekeyManager, FiniteSetTheorems, TLAPS

(***************************************************************************)
(* The type invariant.  All that was made has a number up to made.         *)
(***************************************************************************)

ProfileUpTo(n) ==
  [id : 0 .. n, keypair : 0 .. n, forging_key : 0 .. n, expires : Expiries,
   keys : BOOLEAN, should_publish : BOOLEAN, is_publishing : BOOLEAN,
   has_validated : BOOLEAN]

FileProfileUpTo(n) ==
  [id : 0 .. n, keypair : 0 .. n, forging_key : 0 .. n, expires : Expiries,
   keys : BOOLEAN, should_publish : BOOLEAN]

PrekeyUpTo(n) == [id : 1 .. n, should_publish : BOOLEAN, is_publishing : BOOLEAN]
FilePrekeyUpTo(n) == [id : 1 .. n, should_publish : BOOLEAN]

ClientUpTo(n) ==
  [key : [KeyNames -> 0 .. n], profile : [Kinds -> ProfileUpTo(n)],
   expired : [Kinds -> ProfileUpTo(n)], our_prekeys : SUBSET PrekeyUpTo(n),
   should_publish : BOOLEAN, is_publishing : BOOLEAN,
   prekey_msgs_num_to_publish : 0 .. MaxPublished, fingerprints : BOOLEAN]

FilesUpTo(n) ==
  [key : [KeyNames -> 0 .. n], profile : [Kinds -> FileProfileUpTo(n)],
   expired : [Kinds -> FileProfileUpTo(n)], our_prekeys : SUBSET FilePrekeyUpTo(n),
   fingerprints : BOOLEAN]

SentProfile(n) == [id : 0 .. n, expires : Expiries]

BodyUpTo(n) ==
  [profile : [Kinds -> SentProfile(n)], prekeys : SUBSET (1 .. n), question : BOOLEAN]

MessageUpTo(n) ==
  [type : MessageTypes, n : 0 .. MaxRequests, profile : 0 .. n, body : BodyUpTo(n),
   stored : Nat, ours : BOOLEAN, copy : BOOLEAN]

ServerUpTo(n) ==
  [profile : [Kinds -> SentProfile(n)], prekeys : SUBSET (1 .. n),
   dakes : SUBSET (0 .. MaxRequests)]

\* How many things the present call of otrng_client_ensure_correct_state may
\* still make.
Left(s) ==
  CASE s = "keypair"     -> 5 + MaxPublished
    [] s = "privkey_v3"  -> 4 + MaxPublished
    [] s = "forging_key" -> 3 + MaxPublished
    [] s \in {"check_client", "load_client", "create_client"} -> 2 + MaxPublished
    [] s \in {"expired_client", "check_prekey", "load_prekey", "create_prekey"}
         -> 1 + MaxPublished
    [] s \in {"expired_prekey", "prekeys"} -> MaxPublished
    [] OTHER -> 0

AccountType ==
  /\ made \in Nat /\ made + Left(stage) <= MaxMade
  /\ client \in ClientUpTo(made)
  /\ disk \in FilesUpTo(made)
  /\ stage \in Stages
  /\ stage \in KeyNames => FirstMissing(client.key) = stage
  /\ now \in 0 .. MaxTime

ManagerType ==
  /\ request \in Request
  /\ requests \in 0 .. MaxRequests
  /\ request.n <= requests
  /\ wire \subseteq MessageUpTo(made)
  /\ \A m \in wire : m.n <= requests
  /\ server \in ServerUpTo(made)
  /\ accepted \subseteq 1 .. made

TypeInv == AccountType /\ ManagerType

\* More may have been made.
LEMMA UpToGrows ==
  ASSUME NEW a \in Nat, NEW b \in Nat, a <= b
  PROVE  /\ ProfileUpTo(a) \subseteq ProfileUpTo(b)
         /\ FileProfileUpTo(a) \subseteq FileProfileUpTo(b)
         /\ PrekeyUpTo(a) \subseteq PrekeyUpTo(b)
         /\ FilePrekeyUpTo(a) \subseteq FilePrekeyUpTo(b)
         /\ ClientUpTo(a) \subseteq ClientUpTo(b)
         /\ FilesUpTo(a) \subseteq FilesUpTo(b)
         /\ MessageUpTo(a) \subseteq MessageUpTo(b)
         /\ ServerUpTo(a) \subseteq ServerUpTo(b)
<1>1. 0 .. a \subseteq 0 .. b /\ 1 .. a \subseteq 1 .. b
  OBVIOUS
<1>2. ProfileUpTo(a) \subseteq ProfileUpTo(b) /\ FileProfileUpTo(a) \subseteq FileProfileUpTo(b)
  BY <1>1, Zenon DEF ProfileUpTo, FileProfileUpTo
<1>3. PrekeyUpTo(a) \subseteq PrekeyUpTo(b) /\ FilePrekeyUpTo(a) \subseteq FilePrekeyUpTo(b)
  BY <1>1, Zenon DEF PrekeyUpTo, FilePrekeyUpTo
<1>4. SentProfile(a) \subseteq SentProfile(b)
  BY <1>1, Zenon DEF SentProfile
<1>5. /\ [KeyNames -> 0 .. a] \subseteq [KeyNames -> 0 .. b]
      /\ [Kinds -> ProfileUpTo(a)] \subseteq [Kinds -> ProfileUpTo(b)]
      /\ [Kinds -> FileProfileUpTo(a)] \subseteq [Kinds -> FileProfileUpTo(b)]
      /\ [Kinds -> SentProfile(a)] \subseteq [Kinds -> SentProfile(b)]
      /\ SUBSET PrekeyUpTo(a) \subseteq SUBSET PrekeyUpTo(b)
      /\ SUBSET FilePrekeyUpTo(a) \subseteq SUBSET FilePrekeyUpTo(b)
      /\ SUBSET (1 .. a) \subseteq SUBSET (1 .. b)
  BY <1>1, <1>2, <1>3, <1>4
<1>6. ClientUpTo(a) \subseteq ClientUpTo(b)
  BY <1>5, Zenon DEF ClientUpTo
<1>7. FilesUpTo(a) \subseteq FilesUpTo(b)
  BY <1>5, Zenon DEF FilesUpTo
<1>8. BodyUpTo(a) \subseteq BodyUpTo(b)
  BY <1>5, Zenon DEF BodyUpTo
<1>9. MessageUpTo(a) \subseteq MessageUpTo(b)
  BY <1>1, <1>8, Zenon DEF MessageUpTo
<1>10. ServerUpTo(a) \subseteq ServerUpTo(b)
  BY <1>5, Zenon DEF ServerUpTo
<1> QED
  BY <1>2, <1>3, <1>6, <1>7, <1>9, <1>10

-----------------------------------------------------------------------------
(***************************************************************************)
(* Sets of prekey messages are finite, so that they can be counted.        *)
(***************************************************************************)

LEMMA PrekeysFinite ==
  ASSUME NEW n \in Nat, NEW S \in SUBSET PrekeyUpTo(n)
  PROVE  IsFiniteSet(S) /\ Cardinality(S) \in Nat
<1> DEFINE D == (1 .. n) \X (BOOLEAN \X BOOLEAN)
           f == [t \in D |-> [id |-> t[1], should_publish |-> t[2][1],
                               is_publishing |-> t[2][2]]]
<1>1. IsFiniteSet(BOOLEAN)
  <2>1. IsFiniteSet({TRUE} \cup {FALSE})
    BY FS_Singleton, FS_Union
  <2>2. BOOLEAN = {TRUE} \cup {FALSE}
    OBVIOUS
  <2> QED
    BY <2>1, <2>2
<1>2. IsFiniteSet(BOOLEAN \X BOOLEAN)
  BY <1>1, FS_Product
<1>3. IsFiniteSet(D)
  <2>1. IsFiniteSet(1 .. n)
    BY FS_Interval
  <2> QED
    BY <1>2, <2>1, FS_Product
<1>4. f \in Surjection(D, PrekeyUpTo(n))
  <2>1. \A t \in D : f[t] \in PrekeyUpTo(n)
    BY Zenon DEF PrekeyUpTo
  <2>2. ASSUME NEW r \in PrekeyUpTo(n) PROVE \E t \in D : f[t] = r
    <3> DEFINE t == <<r.id, <<r.should_publish, r.is_publishing>>>>
    <3>1. r.id \in 1 .. n /\ r.should_publish \in BOOLEAN /\ r.is_publishing \in BOOLEAN
      BY DEF PrekeyUpTo
    <3>2. t \in D
      BY <3>1
    <3>3. f[t] = r
      BY <3>2, Zenon DEF PrekeyUpTo
    <3> QED
      BY <3>2, <3>3
  <2> QED
    BY <2>1, <2>2 DEF Surjection
<1>5. IsFiniteSet(PrekeyUpTo(n))
  BY <1>3, <1>4, FS_Surjection
<1>6. IsFiniteSet(S)
  BY <1>5, FS_Subset
<1> QED
  BY <1>6, FS_CardinalityType


-----------------------------------------------------------------------------
(***************************************************************************)
(* Profiles and prekey messages, in memory and in the files.               *)
(***************************************************************************)

\* The lifetime of a new profile.
LEMMA NewExpiry ==
  ASSUME now \in 0 .. MaxTime, NEW k \in Kinds
  PROVE  /\ now + Life[k] \in Expiries
         /\ Expiries \subseteq Nat
         /\ 0 \in Expiries
<1> DEFINE c == Life["client"]
           q == Life["prekey"]
           M == Max({Life[x] : x \in Kinds})
<1>1. c \in Nat /\ q \in Nat /\ MaxTime \in Nat /\ (k = "client" \/ k = "prekey")
  BY LifeAssumption, AccountBounds DEF Kinds
<1>2. {Life[x] : x \in Kinds} = {c, q}
  BY DEF Kinds
<1>3. M \in {c, q} /\ \A y \in {c, q} : M >= y
  <2>1. \E x \in {c, q} : \A y \in {c, q} : x >= y
    BY <1>1
  <2> QED
    BY <1>2, <2>1 DEF Max
<1> HIDE DEF M
<1>4. M \in Nat /\ Life[k] <= M /\ Life[k] \in Nat
  BY <1>1, <1>3
<1>5. Expiries = 0 .. MaxTime + M
  BY DEF Expiries, M
<1> QED
  BY <1>1, <1>4, <1>5

ToFile(kind, p) ==
  IF kind = "client" THEN ClientProfileToFile(p) ELSE PrekeyProfileToFile(p)

\* What a file keeps of a profile.
LEMMA ToFileType ==
  ASSUME NEW n \in Nat, NEW k \in Kinds, NEW p \in ProfileUpTo(n)
  PROVE  LET f == ToFile(k, p) IN
         /\ f \in FileProfileUpTo(n)
         /\ f.id = p.id /\ f.keypair = p.keypair /\ f.expires = p.expires
         /\ f.should_publish = p.should_publish
         /\ f.forging_key = IF k = "client" THEN p.forging_key ELSE 0
<1>1. 0 \in 0 .. n
  OBVIOUS
<1>2. CASE k = "client"
  BY <1>1, <1>2, Zenon
  DEF ToFile, ClientProfileToFile, NoFileProfile, FileProfileUpTo, ProfileUpTo
<1>3. CASE k # "client"
  BY <1>1, <1>3, Zenon
  DEF ToFile, PrekeyProfileToFile, NoFileProfile, FileProfileUpTo, ProfileUpTo
<1> QED
  BY <1>2, <1>3

\* A prekey profile is written with its private part.
LEMMA ToFileKeys ==
  ASSUME NEW n \in Nat, NEW k \in Kinds, NEW p \in ProfileUpTo(n)
  PROVE  /\ k = "client" => ToFile(k, p).keys = FALSE
         /\ k = "prekey" => ToFile(k, p).keys = p.keys
<1>1. CASE k = "client"
  BY <1>1, Zenon DEF ToFile, ClientProfileToFile, NoFileProfile
<1>2. CASE k = "prekey" /\ k # "client"
  BY <1>2, Zenon DEF ToFile, PrekeyProfileToFile, NoFileProfile
<1> QED
  BY <1>1, <1>2 DEF Kinds

\* A profile that is read has no marks but should_publish.
LEMMA LoadedType ==
  ASSUME NEW n \in Nat, NEW k \in Kinds, NEW d \in FilesUpTo(n)
  PROVE  LET f == d.profile[k]
             p == Loaded(d, k)
         IN /\ p \in ProfileUpTo(n)
            /\ p.id = f.id /\ p.keypair = f.keypair /\ p.expires = f.expires
            /\ p.should_publish = f.should_publish
            /\ k = "client" => p.forging_key = f.forging_key
            /\ p.is_publishing = FALSE /\ p.has_validated = FALSE
            /\ k = "prekey" => p.keys = f.keys
<1> DEFINE f == d.profile[k]
<1>1. f \in FileProfileUpTo(n) /\ 0 \in 0 .. n
  BY DEF FilesUpTo
<1>2. k = "client" \/ k = "prekey"
  BY DEF Kinds
<1>3. CASE k = "client"
  BY <1>1, <1>3, Zenon
  DEF Loaded, LoadClientProfile, ClientProfileFromFile, NoProfile, FileProfileUpTo,
      ProfileUpTo
<1>4. CASE k = "prekey"
  <2>1. k # "client"
    BY <1>4
  <2>2. Loaded(d, k) = [NoProfile EXCEPT !.id = f.id, !.keypair = f.keypair,
                    !.expires = f.expires, !.keys = f.keys,
                    !.should_publish = f.should_publish]
    BY <1>4, <2>1 DEF Loaded, LoadPrekeyProfile, PrekeyProfileFromFile
  <2> QED
    BY <1>1, <2>1, <2>2, Zenon DEF NoProfile, FileProfileUpTo, ProfileUpTo
<1> QED
  BY <1>2, <1>3, <1>4

LEMMA LoadedExpiredType ==
  ASSUME NEW n \in Nat, NEW k \in Kinds, NEW d \in FilesUpTo(n)
  PROVE  LET f == d.expired[k]
             p == LoadedExpired(d, k)
         IN /\ p \in ProfileUpTo(n)
            /\ p.id = f.id /\ p.keypair = f.keypair /\ p.expires = f.expires
            /\ k = "client" => p.forging_key = f.forging_key
<1> DEFINE f == d.expired[k]
<1>1. f \in FileProfileUpTo(n) /\ 0 \in 0 .. n
  BY DEF FilesUpTo
<1>2. k = "client" \/ k = "prekey"
  BY DEF Kinds
<1>3. CASE k = "client"
  BY <1>1, <1>3, Zenon
  DEF LoadedExpired, LoadExpiredClientProfile, ClientProfileFromFile, NoProfile,
      FileProfileUpTo, ProfileUpTo
<1>4. CASE k = "prekey"
  <2>1. k # "client"
    BY <1>4
  <2>2. LoadedExpired(d, k) = [[NoProfile EXCEPT !.id = f.id, !.keypair = f.keypair,
                    !.expires = f.expires, !.keys = f.keys,
                    !.should_publish = f.should_publish]
                      EXCEPT !.keys = FALSE, !.should_publish = FALSE]
    BY <1>4, <2>1 DEF LoadedExpired, LoadExpiredPrekeyProfile, PrekeyProfileFromFile
  <2> QED
    BY <1>1, <2>1, <2>2, Zenon DEF NoProfile, FileProfileUpTo, ProfileUpTo
<1> QED
  BY <1>2, <1>3, <1>4

LEMMA NoProfileType ==
  ASSUME NEW n \in Nat, now \in 0 .. MaxTime
  PROVE  /\ NoProfile \in ProfileUpTo(n) /\ NoProfile.id = 0
         /\ NoProfile.keypair = 0 /\ NoProfile.expires = 0
         /\ NoProfile.is_publishing = FALSE /\ NoProfile.has_validated = FALSE
         /\ NoFileProfile \in FileProfileUpTo(n) /\ NoFileProfile.id = 0
         /\ NoFileProfile.forging_key = 0 /\ NoFileProfile.expires = 0
         /\ \A k \in Kinds : ToFile(k, NoProfile) = NoFileProfile
<1>1. 0 \in Expiries /\ 0 \in 0 .. n
  BY NewExpiry DEF Kinds
<1>2. \A k \in Kinds : ToFile(k, NoProfile) = NoFileProfile
  BY Zenon
  DEF ToFile, NoProfile, NoFileProfile, ClientProfileToFile, PrekeyProfileToFile
<1> QED
  BY <1>1, <1>2, Zenon DEF NoProfile, NoFileProfile, ProfileUpTo, FileProfileUpTo

\* What the stores write.
LEMMA StoresType ==
  ASSUME NEW n \in Nat, NEW d \in FilesUpTo(n), NEW k \in Kinds,
         NEW p \in ProfileUpTo(n), NEW e
  PROVE  /\ e = StoreProfile(d, k, p) =>
            /\ e \in FilesUpTo(n) /\ e.key = d.key /\ e.expired = d.expired
            /\ e.our_prekeys = d.our_prekeys
            /\ e.profile = [d.profile EXCEPT ![k] = ToFile(k, p)]
         /\ e = StoreExpired(d, k, p) =>
            /\ e \in FilesUpTo(n) /\ e.key = d.key /\ e.profile = d.profile
            /\ e.our_prekeys = d.our_prekeys
            /\ e.expired = [d.expired EXCEPT ![k] = ToFile(k, p)]
<1>1. k = "client" \/ k = "prekey"
  BY DEF Kinds
<1>2. ToFile(k, p) \in FileProfileUpTo(n)
  BY ToFileType
<1>3. /\ StoreProfile(d, k, p) = [d EXCEPT !.profile[k] = ToFile(k, p)]
      /\ StoreExpired(d, k, p) = [d EXCEPT !.expired[k] = ToFile(k, p)]
  <2>1. CASE k = "client"
    BY <2>1 DEF StoreProfile, StoreExpired, StoreClientProfile,
                StoreExpiredClientProfile, ToFile
  <2>2. CASE k = "prekey"
    BY <2>2 DEF StoreProfile, StoreExpired, StorePrekeyProfile,
                StoreExpiredPrekeyProfile, ToFile
  <2> QED
    BY <1>1, <2>1, <2>2
<1>4. /\ [d.profile EXCEPT ![k] = ToFile(k, p)] \in [Kinds -> FileProfileUpTo(n)]
      /\ [d.expired EXCEPT ![k] = ToFile(k, p)] \in [Kinds -> FileProfileUpTo(n)]
  BY <1>2 DEF FilesUpTo
<1>5. ASSUME e = StoreProfile(d, k, p)
      PROVE  /\ e \in FilesUpTo(n) /\ e.key = d.key /\ e.expired = d.expired
             /\ e.our_prekeys = d.our_prekeys
             /\ e.profile = [d.profile EXCEPT ![k] = ToFile(k, p)]
  BY <1>3, <1>4, <1>5, Zenon DEF FilesUpTo
<1>6. ASSUME e = StoreExpired(d, k, p)
      PROVE  /\ e \in FilesUpTo(n) /\ e.key = d.key /\ e.profile = d.profile
             /\ e.our_prekeys = d.our_prekeys
             /\ e.expired = [d.expired EXCEPT ![k] = ToFile(k, p)]
  BY <1>3, <1>4, <1>6, Zenon DEF FilesUpTo
<1> QED
  BY <1>5, <1>6, Zenon

\* Prekey messages in a file.
LEMMA PrekeyFiles ==
  ASSUME NEW n \in Nat, NEW d \in FilesUpTo(n), NEW ms \in SUBSET PrekeyUpTo(n)
  PROVE  /\ LET e == StorePrekeyMessages(d, ms) IN
            /\ e \in FilesUpTo(n) /\ e.key = d.key /\ e.profile = d.profile
            /\ e.expired = d.expired
            /\ e.our_prekeys = {PrekeyMessageToFile(m) : m \in ms}
         /\ LoadPrekeyMessages(d) \in SUBSET PrekeyUpTo(n)
         /\ \A m \in LoadPrekeyMessages(d) : m.is_publishing = FALSE
         /\ {PrekeyMessageToFile(m) : m \in LoadPrekeyMessages(d)} = d.our_prekeys
         /\ Ids({PrekeyMessageToFile(m) : m \in ms}) = Ids(ms)
<1>1. \A m \in ms : /\ PrekeyMessageToFile(m) \in FilePrekeyUpTo(n)
                    /\ PrekeyMessageToFile(m).id = m.id
  BY Zenon DEF PrekeyMessageToFile, PrekeyUpTo, FilePrekeyUpTo
<1>2. {PrekeyMessageToFile(m) : m \in ms} \in SUBSET FilePrekeyUpTo(n)
  BY <1>1
<1>3. LET e == StorePrekeyMessages(d, ms) IN
            /\ e \in FilesUpTo(n) /\ e.key = d.key /\ e.profile = d.profile
            /\ e.expired = d.expired
            /\ e.our_prekeys = {PrekeyMessageToFile(m) : m \in ms}
  BY <1>2, Zenon DEF StorePrekeyMessages, FilesUpTo
<1>4. d.our_prekeys \in SUBSET FilePrekeyUpTo(n)
  BY DEF FilesUpTo
<1>5. \A f \in d.our_prekeys : /\ PrekeyMessageFromFile(f) \in PrekeyUpTo(n)
                               /\ PrekeyMessageFromFile(f).is_publishing = FALSE
                               /\ PrekeyMessageToFile(PrekeyMessageFromFile(f)) = f
  <2> SUFFICES ASSUME NEW f \in FilePrekeyUpTo(n)
               PROVE  /\ PrekeyMessageFromFile(f) \in PrekeyUpTo(n)
                      /\ PrekeyMessageFromFile(f).is_publishing = FALSE
                      /\ PrekeyMessageToFile(PrekeyMessageFromFile(f)) = f
    BY <1>4
  <2> QED
    BY Zenon DEF PrekeyMessageToFile, PrekeyMessageFromFile, PrekeyUpTo, FilePrekeyUpTo
<1>6. /\ LoadPrekeyMessages(d) \in SUBSET PrekeyUpTo(n)
      /\ \A m \in LoadPrekeyMessages(d) : m.is_publishing = FALSE
      /\ {PrekeyMessageToFile(m) : m \in LoadPrekeyMessages(d)} = d.our_prekeys
  <2>1. \A m \in LoadPrekeyMessages(d) : \E f \in d.our_prekeys : m = PrekeyMessageFromFile(f)
    BY DEF LoadPrekeyMessages
  <2>2. \A f \in d.our_prekeys : PrekeyMessageFromFile(f) \in LoadPrekeyMessages(d)
    BY DEF LoadPrekeyMessages
  <2>3. \A x : x \in d.our_prekeys
                => x \in {PrekeyMessageToFile(m) : m \in LoadPrekeyMessages(d)}
    BY <1>5, <2>2, Zenon
  <2>4. \A x \in {PrekeyMessageToFile(m) : m \in LoadPrekeyMessages(d)} : x \in d.our_prekeys
    BY <1>5, <2>1, Zenon
  <2>5. {PrekeyMessageToFile(m) : m \in LoadPrekeyMessages(d)} = d.our_prekeys
    BY <2>3, <2>4
  <2>6. ASSUME NEW m \in LoadPrekeyMessages(d)
        PROVE  m \in PrekeyUpTo(n) /\ m.is_publishing = FALSE
    <3>1. PICK f \in d.our_prekeys : m = PrekeyMessageFromFile(f)
      BY <2>1
    <3> QED
      BY <1>5, <3>1, Zenon
  <2> QED
    BY <2>5, <2>6, Zenon
<1>7. Ids({PrekeyMessageToFile(m) : m \in ms}) = Ids(ms)
  BY <1>1, Zenon DEF Ids
<1> QED
  BY <1>3, <1>6, <1>7


-----------------------------------------------------------------------------
(***************************************************************************)
(* What the steps do to the account.  Of its memory the keys, profiles,    *)
(* prekey messages and the mark matter, of the files all of these but the  *)
(* mark and the expired profiles.                                          *)
(***************************************************************************)

ClientIs(key, profile, prekeys, publishing) ==
  /\ client'.key = key /\ client'.profile = profile
  /\ client'.our_prekeys = prekeys /\ client'.is_publishing = publishing

DiskIs(key, profile, expired, prekeys) ==
  /\ disk'.key = key /\ disk'.profile = profile
  /\ disk'.expired = expired /\ disk'.our_prekeys = prekeys

ClientStays == ClientIs(client.key, client.profile, client.our_prekeys, client.is_publishing)
DiskStays == DiskIs(disk.key, disk.profile, disk.expired, disk.our_prekeys)

LEMMA ClientFields ==
  ASSUME NEW n \in Nat, NEW c \in ClientUpTo(n)
  PROVE  /\ c.key \in [KeyNames -> 0 .. n] /\ c.profile \in [Kinds -> ProfileUpTo(n)]
         /\ c.expired \in [Kinds -> ProfileUpTo(n)]
         /\ c.our_prekeys \in SUBSET PrekeyUpTo(n) /\ c.is_publishing \in BOOLEAN
         /\ c.prekey_msgs_num_to_publish \in 0 .. MaxPublished
  BY Zenon DEF ClientUpTo

LEMMA FilesFields ==
  ASSUME NEW n \in Nat, NEW d \in FilesUpTo(n)
  PROVE  /\ d.key \in [KeyNames -> 0 .. n] /\ d.profile \in [Kinds -> FileProfileUpTo(n)]
         /\ d.expired \in [Kinds -> FileProfileUpTo(n)]
         /\ d.our_prekeys \in SUBSET FilePrekeyUpTo(n)
  BY Zenon DEF FilesUpTo

LEMMA LeftValues ==
  /\ MaxPublished \in Nat
  /\ \A s : Left(s) \in Nat
  /\ Left("keypair") = 5 + MaxPublished
  /\ Left("privkey_v3") = 4 + MaxPublished
  /\ Left("forging_key") = 3 + MaxPublished
  /\ \A s \in {"check_client", "load_client", "create_client"} : Left(s) = 2 + MaxPublished
  /\ \A s \in {"expired_client", "check_prekey", "load_prekey", "create_prekey"} :
       Left(s) = 1 + MaxPublished
  /\ \A s \in {"expired_prekey", "prekeys"} : Left(s) = MaxPublished
  /\ Left("idle") = 0 /\ Left("fingerprints") = 0
<1>1. MaxPublished \in Nat
  BY PrekeysAssumption
<1> QED
  BY <1>1 DEF Left

\* The keys are made in one order.
LEMMA FirstMissingStage ==
  ASSUME NEW n \in Nat, NEW key \in [KeyNames -> 0 .. n]
  PROVE  LET s == FirstMissing(key) IN
         /\ s \in {"keypair", "privkey_v3", "forging_key", "check_client"}
         /\ s \in Stages /\ Left(s) <= 5 + MaxPublished
         /\ s = "check_client" <=> \A name \in KeyNames : key[name] # 0
         /\ \A name \in KeyNames : s = name => key[name] = 0
         /\ s = "privkey_v3" => key["keypair"] # 0
         /\ s = "forging_key" => key["keypair"] # 0 /\ key["privkey_v3"] # 0
  BY LeftValues DEF FirstMissing, Stages, KeyNames

LEMMA FirstMissingMoves ==
  ASSUME NEW n \in Nat, NEW key \in [KeyNames -> 0 .. n], NEW name \in KeyNames,
         FirstMissing(key) = name, NEW v \in 1 .. n
  PROVE  Left(FirstMissing([key EXCEPT ![name] = v])) + 1 <= Left(name)
<1> DEFINE new == [key EXCEPT ![name] = v]
<1>1. /\ name \in {"keypair", "privkey_v3", "forging_key"} /\ v # 0
      /\ new[name] = v /\ \A x \in KeyNames \ {name} : new[x] = key[x]
  BY DEF KeyNames
<1> HIDE DEF new
<1>2. \/ name = "keypair" /\ FirstMissing(new) \in {"privkey_v3", "forging_key", "check_client"}
      \/ name = "privkey_v3" /\ FirstMissing(new) \in {"forging_key", "check_client"}
      \/ name = "forging_key" /\ FirstMissing(new) = "check_client"
  <2>1. CASE name = "keypair"
    BY <1>1, <2>1 DEF FirstMissing, KeyNames
  <2>2. CASE name = "privkey_v3"
    <3>1. key["keypair"] # 0 /\ new["keypair"] # 0 /\ new["privkey_v3"] # 0
      BY <1>1, <2>2, FirstMissingStage DEF KeyNames
    <3> QED
      BY <2>2, <3>1 DEF FirstMissing
  <2>3. CASE name = "forging_key"
    <3>1. /\ new["keypair"] # 0 /\ new["privkey_v3"] # 0 /\ new["forging_key"] # 0
      BY <1>1, <2>3, FirstMissingStage DEF KeyNames
    <3> QED
      BY <2>3, <3>1 DEF FirstMissing
  <2> QED
    BY <1>1, <2>1, <2>2, <2>3
<1>3. Left("check_client") = 2 + MaxPublished
  BY LeftValues
<1> QED
  BY <1>2, <1>3, LeftValues DEF new

LEMMA NewClientType ==
  ASSUME NEW n \in Nat, now \in 0 .. MaxTime
  PROVE  /\ NewClient \in ClientUpTo(n)
         /\ NewClient.key = [x \in KeyNames |-> 0]
         /\ NewClient.profile = [k \in Kinds |-> NoProfile]
         /\ NewClient.our_prekeys = {} /\ NewClient.is_publishing = FALSE
<1>1. /\ [x \in KeyNames |-> 0] \in [KeyNames -> 0 .. n]
      /\ [k \in Kinds |-> NoProfile] \in [Kinds -> ProfileUpTo(n)]
      /\ 0 \in 0 .. MaxPublished
  <2>1. NoProfile \in ProfileUpTo(n)
    BY NoProfileType, Zenon
  <2>2. MaxPublished \in Nat
    BY LeftValues
  <2> QED
    BY <2>1, <2>2
<1> QED
  BY <1>1, Zenon DEF NewClient, ClientUpTo

LEMMA NoFilesType ==
  ASSUME NEW n \in Nat, now \in 0 .. MaxTime
  PROVE  /\ NoFiles \in FilesUpTo(n)
         /\ NoFiles.key = [x \in KeyNames |-> 0]
         /\ NoFiles.profile = [k \in Kinds |-> NoFileProfile]
         /\ NoFiles.expired = [k \in Kinds |-> NoFileProfile]
         /\ NoFiles.our_prekeys = {}
<1>1. /\ [x \in KeyNames |-> 0] \in [KeyNames -> 0 .. n]
      /\ [k \in Kinds |-> NoFileProfile] \in [Kinds -> FileProfileUpTo(n)]
  <2>1. NoFileProfile \in FileProfileUpTo(n)
    BY NoProfileType, Zenon
  <2> QED
    BY <2>1
<1> QED
  BY <1>1, Zenon DEF NoFiles, FilesUpTo

\* A key is written.
LEMMA KeyStored ==
  ASSUME NEW n \in Nat, NEW d \in FilesUpTo(n), NEW name \in KeyNames, NEW v \in 0 .. n
  PROVE  LET e == StoreKey(d, name, v) IN
         /\ e \in FilesUpTo(n) /\ e.key = [d.key EXCEPT ![name] = v]
         /\ e.profile = d.profile /\ e.expired = d.expired
         /\ e.our_prekeys = d.our_prekeys
<1>1. [d.key EXCEPT ![name] = v] \in [KeyNames -> 0 .. n]
  BY FilesFields
<1> QED
  BY <1>1, Zenon DEF FilesUpTo, StoreKey

LEMMA KeyLoadedDoes ==
  ASSUME AccountType, NEW name \in KeyNames, EnsureKeyLoaded(name)
  PROVE  /\ AccountType'
         /\ ClientIs([client.key EXCEPT ![name] = disk.key[name]], client.profile,
                     client.our_prekeys, client.is_publishing)
         /\ DiskStays
         /\ client.key[name] = 0
<1>1. /\ made \in Nat /\ client \in ClientUpTo(made) /\ disk \in FilesUpTo(made)
      /\ stage = name /\ made' = made /\ disk' = disk /\ now' = now
      /\ client' = [client EXCEPT !.key[name] = disk.key[name]]
      /\ stage' = FirstMissing(client'.key) /\ disk.key[name] # 0
      /\ FirstMissing(client.key) = name /\ client.key[name] = 0
  BY DEF AccountType, EnsureKeyLoaded, LoadKey
<1>2. disk.key[name] \in 1 .. made /\ client.key \in [KeyNames -> 0 .. made]
  BY <1>1, ClientFields, FilesFields
<1>3. /\ client' \in ClientUpTo(made)
      /\ ClientIs([client.key EXCEPT ![name] = disk.key[name]], client.profile,
                  client.our_prekeys, client.is_publishing)
  <2> DEFINE K == [client.key EXCEPT ![name] = disk.key[name]]
  <2>1. client' = [client EXCEPT !.key = K]
    BY <1>1, Zenon DEF ClientUpTo
  <2>2. K \in [KeyNames -> 0 .. made]
    BY <1>2
  <2> HIDE DEF K
  <2>3. client' \in ClientUpTo(made)
        /\ ClientIs(K, client.profile, client.our_prekeys, client.is_publishing)
    BY <1>1, <2>1, <2>2, Zenon DEF ClientUpTo, ClientIs
  <2> QED
    BY <2>3 DEF K
<1>4. client'.key \in [KeyNames -> 0 .. made]
  BY <1>1, <1>3, ClientFields
<1>5. Left(stage') + 1 <= Left(stage)
  BY <1>1, <1>2, <1>3, FirstMissingMoves DEF ClientIs
<1>6. stage' \in Stages
  BY <1>1, <1>4, FirstMissingStage
<1>7. made' + Left(stage') <= MaxMade
  BY <1>1, <1>5, LeftValues, AccountBounds DEF AccountType
<1>8. AccountType'
  BY <1>1, <1>3, <1>6, <1>7 DEF AccountType
<1> QED
  BY <1>1, <1>3, <1>8 DEF DiskStays, DiskIs

LEMMA KeyCreatedDoes ==
  ASSUME AccountType, NEW name \in KeyNames, EnsureKeyCreated(name)
  PROVE  /\ AccountType'
         /\ made' = made + 1
         /\ ClientIs([client.key EXCEPT ![name] = made + 1],
                     [k \in Kinds |-> IF k = "client" \/ name = "keypair"
                                        THEN NoProfile ELSE client.profile[k]],
                     client.our_prekeys, client.is_publishing)
         /\ DiskIs([disk.key EXCEPT ![name] = made + 1], disk.profile, disk.expired,
                   disk.our_prekeys)
         /\ client.key[name] = 0
<1> DEFINE P == [k \in Kinds |-> IF k = "client" \/ name = "keypair"
                                   THEN NoProfile ELSE client.profile[k]]
           n == made + 1
<1>1. /\ made \in Nat /\ client \in ClientUpTo(made) /\ disk \in FilesUpTo(made)
      /\ stage = name /\ made' = n /\ now' = now /\ now \in 0 .. MaxTime
      /\ client' = [client EXCEPT !.key[name] = n,
                      !.profile = [k \in Kinds |->
                         IF k = "client" \/ name = "keypair" THEN NoProfile ELSE @[k]]]
      /\ disk' = StoreKey(disk, name, n)
      /\ stage' = FirstMissing(client'.key)
      /\ FirstMissing(client.key) = name /\ client.key[name] = 0
  BY DEF AccountType, EnsureKeyCreated
<1>2. /\ n \in 1 .. n /\ n \in 0 .. n /\ n \in Nat /\ made <= n /\ name \in KeyNames
  BY <1>1
<1>3. client \in ClientUpTo(n) /\ disk \in FilesUpTo(n)
  BY <1>1, <1>2, UpToGrows
<1>4. P \in [Kinds -> ProfileUpTo(n)]
  <2>1. NoProfile \in ProfileUpTo(n)
    BY <1>1, <1>2, NoProfileType, Zenon
  <2>2. client.profile \in [Kinds -> ProfileUpTo(n)]
    BY <1>2, <1>3, ClientFields, Zenon
  <2> QED
    BY <2>1, <2>2
<1>5. /\ client.key \in [KeyNames -> 0 .. n]
      /\ [client.key EXCEPT ![name] = n] \in [KeyNames -> 0 .. n]
  BY <1>2, <1>3, ClientFields
<1>6. /\ client' \in ClientUpTo(n)
      /\ ClientIs([client.key EXCEPT ![name] = n], P, client.our_prekeys,
                  client.is_publishing)
  <2>1. client' = [client EXCEPT !.key = [client.key EXCEPT ![name] = n], !.profile = P]
    BY <1>1, <1>3, Zenon DEF ClientUpTo
  <2> HIDE DEF P
  <2> QED
    BY <1>3, <1>4, <1>5, <2>1, Zenon DEF ClientUpTo, ClientIs
<1>7. /\ disk' \in FilesUpTo(n)
      /\ DiskIs([disk.key EXCEPT ![name] = n], disk.profile, disk.expired, disk.our_prekeys)
  <2> HIDE DEF n
  <2> DEFINE e == StoreKey(disk, name, n)
  <2>1. /\ e \in FilesUpTo(n) /\ e.key = [disk.key EXCEPT ![name] = n]
        /\ e.profile = disk.profile /\ e.expired = disk.expired
        /\ e.our_prekeys = disk.our_prekeys
    BY <1>2, <1>3, KeyStored
  <2>2. disk' = e
    BY <1>1
  <2> HIDE DEF e
  <2> QED
    BY <2>1, <2>2, Zenon DEF DiskIs
<1>8. Left(stage') + 1 <= Left(stage) /\ stage' \in Stages
  BY <1>1, <1>2, <1>5, <1>6, FirstMissingMoves, FirstMissingStage DEF ClientIs
<1>9. made' + Left(stage') <= MaxMade
  BY <1>1, <1>8, LeftValues, AccountBounds DEF AccountType
<1>10. AccountType'
  BY <1>1, <1>2, <1>6, <1>7, <1>8, <1>9 DEF AccountType
<1> QED
  BY <1>1, <1>6, <1>7, <1>10


\* A profile is written.
LEMMA ProfileStored ==
  ASSUME NEW n \in Nat, disk \in FilesUpTo(n), NEW k \in Kinds, NEW p \in ProfileUpTo(n)
  PROVE  /\ disk' = StoreProfile(disk, k, p) =>
              /\ disk' \in FilesUpTo(n)
              /\ DiskIs(disk.key, [disk.profile EXCEPT ![k] = ToFile(k, p)],
                        disk.expired, disk.our_prekeys)
         /\ disk' = StoreExpired(disk, k, p) =>
              /\ disk' \in FilesUpTo(n)
              /\ DiskIs(disk.key, disk.profile,
                        [disk.expired EXCEPT ![k] = ToFile(k, p)], disk.our_prekeys)
  BY StoresType DEF DiskIs

\* The steps for a profile, in their order.
LEMMA ProfileStages ==
  ASSUME NEW k \in Kinds
  PROVE  /\ {Check(k), Load(k), Create(k), Expired(k), AfterExpired(k)} \subseteq Stages
         /\ {Check(k), Load(k), Create(k), Expired(k), AfterExpired(k)} \cap KeyNames = {}
         /\ Left(Load(k)) = Left(Check(k)) /\ Left(Create(k)) = Left(Load(k))
         /\ Left(Expired(k)) + 1 = Left(Create(k))
         /\ Left(AfterExpired(k)) = Left(Expired(k))
<1>1. k = "client" \/ k = "prekey"
  BY DEF Kinds
<1>2. CASE k = "client"
  BY <1>2, LeftValues DEF Check, Load, Create, Expired, AfterExpired, Stages, KeyNames
<1>3. CASE k = "prekey"
  BY <1>3, LeftValues DEF Check, Load, Create, Expired, AfterExpired, Stages, KeyNames
<1> QED
  BY <1>1, <1>2, <1>3

\* A profile p is kept, if it is good, and otherwise dropped or moved.
Examined(k, p, next) ==
  /\ IF IsValid(k, p) /\ ~IsCloseToExpiry(p)
       THEN /\ stage' = Expired(k)
            /\ ClientIs(client.key,
                 [client.profile EXCEPT ![k] = [p EXCEPT !.has_validated = TRUE]],
                 client.our_prekeys, client.is_publishing)
       ELSE /\ stage' = next
            /\ ClientIs(client.key, [client.profile EXCEPT ![k] = NoProfile],
                        client.our_prekeys, client.is_publishing)
  /\ DiskIs(disk.key, disk.profile,
            IF Outdated(k, p) THEN [disk.expired EXCEPT ![k] = ToFile(k, p)]
                              ELSE disk.expired, disk.our_prekeys)

LEMMA ExamineDoes ==
  ASSUME AccountType, NEW k \in Kinds, NEW p \in ProfileUpTo(made), NEW next \in Stages,
         next \notin KeyNames, Left(next) = Left(stage), Left(Expired(k)) <= Left(stage),
         Examine(k, p, next)
  PROVE  /\ AccountType' /\ UNCHANGED <<made, now>>
         /\ Examined(k, p, next)
<1> DEFINE good == IsValid(k, p) /\ ~IsCloseToExpiry(p)
           q == [p EXCEPT !.has_validated = TRUE]
<1>1. /\ made \in Nat /\ client \in ClientUpTo(made) /\ disk \in FilesUpTo(made)
      /\ now \in 0 .. MaxTime /\ made' = made /\ now' = now
      /\ disk' = IF Outdated(k, p) THEN StoreExpired(disk, k, p) ELSE disk
      /\ made + Left(stage) <= MaxMade
  BY DEF AccountType, Examine
<1>2. /\ disk' \in FilesUpTo(made)
      /\ DiskIs(disk.key, disk.profile,
                IF Outdated(k, p) THEN [disk.expired EXCEPT ![k] = ToFile(k, p)]
                                  ELSE disk.expired, disk.our_prekeys)
  <2>1. CASE Outdated(k, p)
    <3>1. disk' = StoreExpired(disk, k, p)
      BY <1>1, <2>1
    <3> QED
      BY <1>1, <2>1, <3>1, ProfileStored
  <2>2. CASE ~Outdated(k, p)
    BY <1>1, <2>2 DEF DiskIs
  <2> QED
    BY <2>1, <2>2
<1>3. q \in ProfileUpTo(made) /\ NoProfile \in ProfileUpTo(made)
  <2>1. NoProfile \in ProfileUpTo(made)
    BY <1>1, NoProfileType, Zenon
  <2> QED
    BY <2>1, Zenon DEF ProfileUpTo
<1>4. client.profile \in [Kinds -> ProfileUpTo(made)] /\ client.expired \in [Kinds -> ProfileUpTo(made)]
  BY <1>1, ClientFields, Zenon
<1>5. CASE good
  <2> DEFINE P == [client.profile EXCEPT ![k] = q]
  <2>1. client' = [client EXCEPT !.profile[k] = q] /\ stage' = Expired(k)
    BY <1>5 DEF Examine
  <2>2. client' = [client EXCEPT !.profile = P]
    BY <1>1, <2>1, Zenon DEF ClientUpTo
  <2>3. P \in [Kinds -> ProfileUpTo(made)]
    BY <1>3, <1>4, Zenon
  <2> HIDE DEF P
  <2>4. client' \in ClientUpTo(made)
        /\ ClientIs(client.key, P, client.our_prekeys, client.is_publishing)
    BY <1>1, <2>2, <2>3, Zenon DEF ClientUpTo, ClientIs
  <2>5. stage' \in Stages \ KeyNames /\ made' + Left(stage') <= MaxMade
    BY <1>1, <2>1, ProfileStages, LeftValues, AccountBounds
  <2>6. AccountType'
    BY <1>1, <1>2, <2>4, <2>5 DEF AccountType
  <2> QED
    BY <1>1, <1>2, <1>5, <2>1, <2>4, <2>6, Zenon DEF P, Examined
<1>6. CASE ~good
  <2> DEFINE P == [client.profile EXCEPT ![k] = NoProfile]
             E == [client.expired EXCEPT ![k] = IF Outdated(k, p) THEN p ELSE client.expired[k]]
  <2>1. /\ client' = [client EXCEPT !.profile[k] = NoProfile,
                        !.expired[k] = IF Outdated(k, p) THEN p ELSE @]
        /\ stage' = next
    BY <1>6 DEF Examine
  <2>2. client' = [client EXCEPT !.profile = P, !.expired = E]
    BY <1>1, <2>1, Zenon DEF ClientUpTo
  <2>3. P \in [Kinds -> ProfileUpTo(made)] /\ E \in [Kinds -> ProfileUpTo(made)]
    BY <1>3, <1>4, Zenon
  <2> HIDE DEF P, E
  <2>4. client' \in ClientUpTo(made)
        /\ ClientIs(client.key, P, client.our_prekeys, client.is_publishing)
    BY <1>1, <2>2, <2>3, Zenon DEF ClientUpTo, ClientIs
  <2>5. stage' \in Stages \ KeyNames /\ made' + Left(stage') <= MaxMade
    BY <1>1, <2>1
  <2>6. AccountType'
    BY <1>1, <1>2, <2>4, <2>5 DEF AccountType
  <2> QED
    BY <1>1, <1>2, <1>6, <2>1, <2>4, <2>6, Zenon DEF P, Examined
<1> QED
  BY <1>5, <1>6

\* A profile is examined: the one in memory, the one in the file, or none if the
\* file could not be read.
Examines(k, p, next) ==
  /\ Examine(k, p, next)
  /\ \/ stage = Check(k) /\ next = Load(k) /\ p = client.profile[k] /\ NoFault
     \/ stage = Load(k) /\ next = Create(k) /\ p = Loaded(disk, k) /\ NoFault
     \/ stage = Load(k) /\ next = Create(k) /\ p = NoProfile /\ Fault("load")

LEMMA ProfileExamined ==
  ASSUME AccountType, NEW k \in Kinds, CheckProfile(k) \/ LoadProfile(k)
  PROVE  \E p \in ProfileUpTo(made), next \in Stages :
           /\ Examines(k, p, next) /\ next \notin KeyNames
           /\ Left(next) = Left(stage) /\ Left(Expired(k)) <= Left(stage)
<1>1. made \in Nat /\ client \in ClientUpTo(made) /\ disk \in FilesUpTo(made)
      /\ now \in 0 .. MaxTime
  BY DEF AccountType
<1>2. client.profile[k] \in ProfileUpTo(made)
  BY <1>1, ClientFields
<1>3. Loaded(disk, k) \in ProfileUpTo(made)
  BY <1>1, LoadedType, Zenon
<1>4. NoProfile \in ProfileUpTo(made)
  BY <1>1, NoProfileType, Zenon
<1>5. /\ Load(k) \in Stages /\ Load(k) \notin KeyNames
      /\ Create(k) \in Stages /\ Create(k) \notin KeyNames
      /\ Left(Load(k)) = Left(Check(k)) /\ Left(Create(k)) = Left(Load(k))
      /\ Left(Expired(k)) <= Left(Load(k))
  BY ProfileStages, LeftValues
<1>6. CASE CheckProfile(k)
  BY <1>2, <1>5, <1>6, Zenon DEF CheckProfile, Examines
<1>7. CASE LoadProfile(k)
  BY <1>3, <1>4, <1>5, <1>7, Zenon DEF LoadProfile, Examines
<1> QED
  BY <1>6, <1>7

LEMMA NewProfileType ==
  ASSUME AccountType, NEW k \in Kinds
  PROVE  LET p == NewProfile(k) IN
         /\ p \in ProfileUpTo(made + 1) /\ p.id = made + 1
         /\ p.keypair = client.key["keypair"]
         /\ p.forging_key = IF k = "client" THEN client.key["forging_key"] ELSE 0
         /\ p.expires = now + Life[k]
         /\ p.should_publish = TRUE /\ p.is_publishing = FALSE /\ p.has_validated = TRUE
<1>1. /\ made \in Nat /\ made + 1 \in 0 .. made + 1 /\ 0 \in 0 .. made + 1
      /\ client.key["keypair"] \in 0 .. made + 1 /\ client.key["forging_key"] \in 0 .. made + 1
      /\ now + Life[k] \in Expiries
  BY ClientFields, NewExpiry DEF AccountType, KeyNames
<1>2. k = "client" \/ (k # "client" /\ k = "prekey")
  BY DEF Kinds
<1>3. CASE k = "client"
  BY <1>1, <1>3, Zenon DEF NewProfile, NewClientProfile, ProfileUpTo
<1>4. CASE k # "client" /\ k = "prekey"
  BY <1>1, <1>4, Zenon DEF NewProfile, NewPrekeyProfile, ProfileUpTo
<1> QED
  BY <1>2, <1>3, <1>4

LEMMA CreateDoes ==
  ASSUME AccountType, NEW k \in Kinds, CreateProfile(k)
  PROVE  /\ AccountType' /\ made' = made + 1 /\ now' = now
         /\ stage = Create(k) /\ stage' = Expired(k)
         /\ ClientIs(client.key, [client.profile EXCEPT ![k] = NewProfile(k)],
                     client.our_prekeys, client.is_publishing)
         /\ DiskIs(disk.key, [disk.profile EXCEPT ![k] = ToFile(k, NewProfile(k))],
                   disk.expired, disk.our_prekeys)
         /\ UNCHANGED happened
<1> DEFINE n == made + 1
           p == NewProfile(k)
           P == [client.profile EXCEPT ![k] = p]
<1>1. /\ made \in Nat /\ client \in ClientUpTo(made) /\ disk \in FilesUpTo(made)
      /\ now \in 0 .. MaxTime /\ made' = n /\ now' = now
      /\ client' = [client EXCEPT !.profile[k] = p, !.should_publish = TRUE]
      /\ disk' = StoreProfile(disk, k, p)
      /\ stage = Create(k) /\ stage' = Expired(k) /\ UNCHANGED happened
      /\ made + Left(stage) <= MaxMade
  BY DEF AccountType, CreateProfile
<1>2. n \in Nat /\ made <= n
  BY <1>1
<1>3. client \in ClientUpTo(n) /\ disk \in FilesUpTo(n)
  BY <1>1, <1>2, UpToGrows
<1>4. p \in ProfileUpTo(n)
  BY NewProfileType, Zenon
<1>5. client.profile \in [Kinds -> ProfileUpTo(n)]
  BY <1>2, <1>3, ClientFields, Zenon
<1> HIDE DEF p, n
<1>6. client' = [client EXCEPT !.profile = P, !.should_publish = TRUE]
  BY <1>1, <1>3, Zenon DEF ClientUpTo
<1>7. P \in [Kinds -> ProfileUpTo(n)]
  BY <1>4, <1>5, Zenon
<1> HIDE DEF P
<1>8. client' \in ClientUpTo(n)
      /\ ClientIs(client.key, P, client.our_prekeys, client.is_publishing)
  BY <1>3, <1>6, <1>7, Zenon DEF ClientUpTo, ClientIs
<1>9. disk' \in FilesUpTo(n)
      /\ DiskIs(disk.key, [disk.profile EXCEPT ![k] = ToFile(k, p)],
                disk.expired, disk.our_prekeys)
  BY <1>1, <1>2, <1>3, <1>4, ProfileStored
<1>10. stage' \in Stages \ KeyNames /\ made' + Left(stage') <= MaxMade
  BY <1>1, ProfileStages, LeftValues, AccountBounds DEF n
<1>11. AccountType'
  BY <1>1, <1>2, <1>8, <1>9, <1>10 DEF AccountType
<1> QED
  BY <1>1, <1>8, <1>9, <1>11, Zenon DEF n, p, P

LEMMA ExpiredDoes ==
  ASSUME AccountType, NEW k \in Kinds, EnsureExpired(k)
  PROVE  /\ AccountType' /\ UNCHANGED <<made, now, happened>>
         /\ stage = Expired(k) /\ stage' = AfterExpired(k) /\ ClientStays
         /\ \/ DiskStays
            \/ /\ ~IsValidExpired(k, LoadedExpired(disk, k))
               /\ DiskIs(disk.key, disk.profile,
                         [disk.expired EXCEPT ![k] = NoFileProfile], disk.our_prekeys)
<1> DEFINE q == [LoadedExpired(disk, k) EXCEPT !.has_validated = TRUE]
<1>1. /\ made \in Nat /\ client \in ClientUpTo(made) /\ disk \in FilesUpTo(made)
      /\ now \in 0 .. MaxTime /\ made' = made /\ now' = now /\ UNCHANGED happened
      /\ stage = Expired(k) /\ stage' = AfterExpired(k)
      /\ made + Left(stage) <= MaxMade
  BY DEF AccountType, EnsureExpired
<1>2. NoProfile \in ProfileUpTo(made) /\ ToFile(k, NoProfile) = NoFileProfile
  BY <1>1, NoProfileType, Zenon
<1>3. LoadedExpired(disk, k) \in ProfileUpTo(made)
  BY <1>1, LoadedExpiredType
<1>4. q \in ProfileUpTo(made)
  BY <1>3, Zenon DEF ProfileUpTo
<1>5. client.expired \in [Kinds -> ProfileUpTo(made)]
  BY <1>1, ClientFields, Zenon
<1> HIDE DEF q
<1>6. ASSUME NEW x \in ProfileUpTo(made), client' = [client EXCEPT !.expired[k] = x]
      PROVE  client' \in ClientUpTo(made) /\ ClientStays
  <2> DEFINE E == [client.expired EXCEPT ![k] = x]
  <2>1. client' = [client EXCEPT !.expired = E]
    BY <1>1, <1>6, Zenon DEF ClientUpTo
  <2>2. E \in [Kinds -> ProfileUpTo(made)]
    BY <1>5, Zenon
  <2> HIDE DEF E
  <2> QED
    BY <1>1, <2>1, <2>2, Zenon DEF ClientUpTo, ClientStays, ClientIs
<1>7. stage' \in Stages \ KeyNames /\ made' + Left(stage') <= MaxMade
  BY <1>1, ProfileStages
<1>8. CASE client' = client /\ disk' = disk
  BY <1>1, <1>7, <1>8, Zenon DEF AccountType, ClientStays, ClientIs, DiskStays, DiskIs
<1>9. CASE client' = [client EXCEPT !.expired[k] = q] /\ disk' = disk
  BY <1>1, <1>4, <1>6, <1>7, <1>9, Zenon DEF AccountType, DiskStays, DiskIs
<1>10. CASE /\ ~IsValidExpired(k, LoadedExpired(disk, k))
            /\ client' = [client EXCEPT !.expired[k] = NoProfile]
            /\ disk' = StoreExpired(disk, k, NoProfile)
  <2>1. /\ disk' \in FilesUpTo(made)
        /\ DiskIs(disk.key, disk.profile,
                  [disk.expired EXCEPT ![k] = NoFileProfile], disk.our_prekeys)
    BY <1>1, <1>2, <1>10, ProfileStored
  <2> QED
    BY <1>1, <1>2, <1>6, <1>7, <1>10, <2>1, Zenon DEF AccountType
<1> QED
  BY <1>8, <1>9, <1>10 DEF EnsureExpired, q


\* New prekey messages.
LEMMA NewPrekeysType ==
  ASSUME made \in Nat, NEW n \in Nat, NEW ms \in SUBSET PrekeyUpTo(made)
  PROVE  /\ NewPrekeys(n) \in SUBSET PrekeyUpTo(made + n)
         /\ \A m \in NewPrekeys(n) : m.should_publish = TRUE /\ m.is_publishing = FALSE
         /\ Cardinality(ms \cup NewPrekeys(n)) = Cardinality(ms) + n
<1> DEFINE N(i) == [id |-> made + i, should_publish |-> TRUE, is_publishing |-> FALSE]
           f == [i \in 1 .. n |-> N(i)]
<1>1. \A i \in 1 .. n : made + i \in 1 .. made + n
  OBVIOUS
<1>2. \A i \in 1 .. n : /\ N(i) \in PrekeyUpTo(made + n) /\ N(i).id = made + i
                        /\ N(i).should_publish = TRUE /\ N(i).is_publishing = FALSE
  BY <1>1, Zenon DEF PrekeyUpTo
<1>3. NewPrekeys(n) = {N(i) : i \in 1 .. n}
  BY DEF NewPrekeys
<1> HIDE DEF N
<1>4. /\ NewPrekeys(n) \in SUBSET PrekeyUpTo(made + n)
      /\ \A m \in NewPrekeys(n) : m.should_publish = TRUE /\ m.is_publishing = FALSE
  <2>1. ASSUME NEW m \in NewPrekeys(n)
        PROVE  /\ m \in PrekeyUpTo(made + n)
               /\ m.should_publish = TRUE /\ m.is_publishing = FALSE
    <3>1. PICK i \in 1 .. n : m = N(i)
      BY <1>3
    <3> QED
      BY <1>2, <3>1, Zenon
  <2> QED
    BY <2>1, Zenon
<1>5. f \in Bijection(1 .. n, NewPrekeys(n))
  <2>1. f \in [1 .. n -> NewPrekeys(n)]
    BY <1>3
  <2>2. \A i, j \in 1 .. n : f[i] = f[j] => i = j
    <3>1. \A i \in 1 .. n : f[i].id = made + i
      BY <1>2
    <3> QED
      BY <3>1
  <2>3. \A m \in NewPrekeys(n) : \E i \in 1 .. n : f[i] = m
    BY <1>3
  <2> HIDE DEF f
  <2>4. f \in Injection(1 .. n, NewPrekeys(n)) /\ f \in Surjection(1 .. n, NewPrekeys(n))
    BY <2>1, <2>2, <2>3 DEF Injection, Surjection, IsInjective
  <2> QED
    BY <2>4 DEF Bijection
<1>6. IsFiniteSet(1 .. n) /\ Cardinality(1 .. n) = n
  BY FS_Interval
<1>7. IsFiniteSet(NewPrekeys(n)) /\ Cardinality(NewPrekeys(n)) = n
  BY <1>5, <1>6, FS_Bijection DEF ExistsBijection
<1>8. IsFiniteSet(ms) /\ Cardinality(ms) \in Nat
  BY PrekeysFinite
<1>9. ms \cap NewPrekeys(n) = {}
  <2>1. \A m \in ms : m.id <= made
    BY DEF PrekeyUpTo
  <2>2. \A m \in NewPrekeys(n) : m.id > made
    BY <1>2, <1>3
  <2> QED
    BY <2>1, <2>2 DEF PrekeyUpTo
<1>10. Cardinality(ms \cup NewPrekeys(n)) = Cardinality(ms) + n
  BY <1>7, <1>8, <1>9, FS_Union, FS_EmptySet
<1> QED
  BY <1>4, <1>10, Zenon

LEMMA NumberType ==
  ASSUME AccountType, NEW ms \in SUBSET PrekeyUpTo(made)
  PROVE  /\ NumberToCreate(ms) \in 0 .. MaxPublished
         /\ NumberToCreate(ms) >= MaxPublished - Cardinality(ms)
<1> DEFINE a == MaxPublished - Cardinality(ms)
           b == client.prekey_msgs_num_to_publish
           M == Max({a, b})
<1>1. Cardinality(ms) \in Nat
  BY PrekeysFinite DEF AccountType
<1>2. b \in 0 .. MaxPublished
  BY ClientFields DEF AccountType
<1>3. a \in Int /\ a <= MaxPublished
  BY <1>1, LeftValues
<1>4. M \in {a, b} /\ \A y \in {a, b} : M >= y
  <2>1. \E x \in {a, b} : \A y \in {a, b} : x >= y
    BY <1>2, <1>3, LeftValues
  <2> QED
    BY <2>1 DEF Max
<1> HIDE DEF a, b
<1>5. M \in 0 .. MaxPublished /\ M >= a
  BY <1>2, <1>3, <1>4, LeftValues
<1> QED
  BY <1>5 DEF NumberToCreate, a, b

\* Prekey messages are written.
LEMMA PrekeysStored ==
  ASSUME NEW n \in Nat, NEW d \in FilesUpTo(n), NEW ms \in SUBSET PrekeyUpTo(n), NEW e
  PROVE  e = StorePrekeyMessages(d, ms) =>
           /\ e \in FilesUpTo(n) /\ e.key = d.key /\ e.profile = d.profile
           /\ e.expired = d.expired
           /\ e.our_prekeys = {PrekeyMessageToFile(m) : m \in ms}
<1>1. \A m \in ms : PrekeyMessageToFile(m) \in FilePrekeyUpTo(n)
  BY Zenon DEF PrekeyMessageToFile, PrekeyUpTo, FilePrekeyUpTo
<1>2. {PrekeyMessageToFile(m) : m \in ms} \in SUBSET FilePrekeyUpTo(n)
  BY <1>1
<1> QED
  BY <1>2, Zenon DEF StorePrekeyMessages, FilesUpTo

\* ms and new prekey messages are the account's prekey messages.
Creates(ms) ==
  \E new \in SUBSET PrekeyUpTo(made') :
    /\ \A m \in new : m.should_publish = TRUE /\ m.is_publishing = FALSE
    /\ ClientIs(client.key, client.profile, ms \cup new, client.is_publishing)
    /\ DiskIs(disk.key, disk.profile, disk.expired,
              {PrekeyMessageToFile(m) : m \in ms \cup new})
    /\ Enough(ms \cup new)

LEMMA CreatePrekeysDoes ==
  ASSUME AccountType, NEW ms \in SUBSET PrekeyUpTo(made), stage = "prekeys",
         CreatePrekeys(ms)
  PROVE  /\ AccountType' /\ made <= made' /\ now' = now
         /\ stage' = "fingerprints" /\ Creates(ms)
<1> DEFINE n == NumberToCreate(ms)
           new == NewPrekeys(n)
           all == ms \cup new
           t == made + n
<1>1. /\ made \in Nat /\ client \in ClientUpTo(made) /\ disk \in FilesUpTo(made)
      /\ now \in 0 .. MaxTime /\ made' = t /\ now' = now
      /\ client' = [client EXCEPT !.our_prekeys = all,
                                  !.prekey_msgs_num_to_publish = 0,
                                  !.should_publish = TRUE]
      /\ disk' = StorePrekeyMessages(disk, all)
      /\ stage' = "fingerprints"
      /\ made + MaxPublished <= MaxMade
  BY LeftValues DEF AccountType, CreatePrekeys
<1>2. n \in 0 .. MaxPublished /\ n >= MaxPublished - Cardinality(ms)
  BY NumberType
<1> HIDE DEF n
<1>3. n \in Nat /\ t \in Nat /\ made <= t /\ t <= MaxMade /\ 0 \in 0 .. MaxPublished
  BY <1>1, <1>2, LeftValues, AccountBounds
<1>4. /\ new \in SUBSET PrekeyUpTo(t)
      /\ \A m \in new : m.should_publish = TRUE /\ m.is_publishing = FALSE
      /\ Cardinality(all) = Cardinality(ms) + n
  BY <1>1, <1>3, NewPrekeysType, Zenon
<1>5. /\ client \in ClientUpTo(t) /\ disk \in FilesUpTo(t)
      /\ PrekeyUpTo(made) \subseteq PrekeyUpTo(t)
  BY <1>1, <1>3, UpToGrows
<1>6. all \in SUBSET PrekeyUpTo(t)
  BY <1>4, <1>5
<1>7. Enough(all)
  BY <1>1, <1>2, <1>4, PrekeysFinite, PrekeysAssumption DEF Enough
<1> HIDE DEF new, all, t
<1>8. client' \in ClientUpTo(t)
      /\ ClientIs(client.key, client.profile, all, client.is_publishing)
  BY <1>1, <1>3, <1>5, <1>6, Zenon DEF ClientUpTo, ClientIs
<1>9. disk' \in FilesUpTo(t)
      /\ DiskIs(disk.key, disk.profile, disk.expired,
                {PrekeyMessageToFile(m) : m \in all})
  BY <1>1, <1>3, <1>5, <1>6, PrekeysStored DEF DiskIs
<1>10. stage' \in Stages \ KeyNames /\ made' + Left(stage') <= MaxMade
  BY <1>1, <1>3, LeftValues DEF Stages, KeyNames
<1>11. AccountType'
  BY <1>1, <1>3, <1>8, <1>9, <1>10 DEF AccountType
<1>12. Creates(ms)
  BY <1>1, <1>4, <1>7, <1>8, <1>9, Zenon DEF Creates, all
<1> QED
  BY <1>1, <1>3, <1>11, <1>12

LEMMA FingerprintsDoes ==
  ASSUME AccountType, EnsureFingerprints
  PROVE  /\ AccountType' /\ UNCHANGED <<made, now, happened>>
         /\ stage = "fingerprints" /\ stage' = "idle" /\ ClientStays /\ DiskStays
<1>1. /\ made \in Nat /\ client \in ClientUpTo(made) /\ disk \in FilesUpTo(made)
      /\ now \in 0 .. MaxTime /\ made' = made /\ now' = now /\ UNCHANGED happened
      /\ client' = [client EXCEPT !.fingerprints = TRUE]
      /\ disk' = IF client.fingerprints THEN disk ELSE [disk EXCEPT !.fingerprints = TRUE]
      /\ stage = "fingerprints" /\ stage' = "idle" /\ made <= MaxMade
  BY LeftValues, AccountBounds DEF AccountType, EnsureFingerprints
<1>2. client' \in ClientUpTo(made) /\ ClientStays
  BY <1>1, Zenon DEF ClientUpTo, ClientStays, ClientIs
<1>3. disk' \in FilesUpTo(made) /\ DiskStays
  BY <1>1, Zenon DEF FilesUpTo, DiskStays, DiskIs
<1>4. stage' \in Stages \ KeyNames /\ made' + Left(stage') <= MaxMade
  BY <1>1, LeftValues DEF Stages, KeyNames
<1>5. AccountType'
  BY <1>1, <1>2, <1>3, <1>4 DEF AccountType
<1> QED
  BY <1>1, <1>2, <1>3, <1>5


\* Nothing that matters changes.
LEMMA QuietDoes ==
  ASSUME AccountType, UNCHANGED <<client, disk, made, now>>,
         stage' \in Stages, stage' \in KeyNames => FirstMissing(client.key) = stage',
         made + Left(stage') <= MaxMade
  PROVE  AccountType' /\ ClientStays /\ DiskStays
  BY DEF AccountType, ClientStays, ClientIs, DiskStays, DiskIs

LEMMA EnsureStartsDoes ==
  ASSUME AccountType, EnsureCorrectState
  PROVE  /\ AccountType' /\ ClientStays /\ DiskStays /\ UNCHANGED <<made, now, happened>>
         /\ stage' \in KeyNames \cup {"check_client"}
         /\ stage' = "check_client" => \A name \in KeyNames : client.key[name] # 0
<1>1. made \in Nat /\ client.key \in [KeyNames -> 0 .. made]
  BY ClientFields DEF AccountType
<1>2. /\ stage' \in KeyNames \cup {"check_client"}
      /\ stage' \in Stages /\ Left(stage') <= 5 + MaxPublished
      /\ stage' = "check_client" <=> \A name \in KeyNames : client.key[name] # 0
  BY <1>1, FirstMissingStage DEF EnsureCorrectState, KeyNames
<1>3. made + Left(stage') <= MaxMade
  BY <1>1, <1>2, LeftValues, AccountBounds DEF EnsureCorrectState
<1> QED
  BY <1>2, <1>3, QuietDoes DEF EnsureCorrectState

\* The steps that fail, and the one that finds enough prekey messages.
LEMMA NothingMadeDoes ==
  ASSUME AccountType,
         \/ \E name \in KeyNames : EnsureKeyFails(name)
         \/ \E k \in Kinds : CreateProfileFails(k)
         \/ EnsurePrekeysThere
         \/ Tick /\ now' \in 0 .. MaxTime
  PROVE  /\ ClientStays /\ DiskStays /\ UNCHANGED made /\ AccountType'
         /\ stage' \in {"idle", "fingerprints"} /\ happened \subseteq happened'
<1>1. /\ made \in Nat /\ made <= MaxMade
  BY LeftValues, AccountBounds DEF AccountType
<1>2. /\ UNCHANGED <<client, disk, made>> /\ stage' \in {"idle", "fingerprints"}
      /\ now' \in 0 .. MaxTime /\ happened \subseteq happened'
  BY DEF EnsureKeyFails, CreateProfileFails, EnsurePrekeysThere, Tick, Fault, AccountType
<1>3. /\ stage' \in Stages \ KeyNames /\ Left(stage') = 0
  BY <1>2, LeftValues DEF Stages, KeyNames
<1> QED
  BY <1>1, <1>2, <1>3 DEF AccountType, ClientStays, ClientIs, DiskStays, DiskIs

LEMMA TickType ==
  ASSUME AccountType, Tick
  PROVE  now' \in 0 .. MaxTime /\ now' = now + 1
  BY AccountBounds DEF AccountType, Tick

LEMMA ImportDoes ==
  ASSUME AccountType, ImportIdentity
  PROVE  /\ AccountType' /\ made' = made + 2 /\ now' = now
         /\ stage = "idle" /\ stage' = "idle" /\ DiskStays
         /\ \E key \in [KeyNames -> 0 .. made'] :
              /\ \A name \in KeyNames : key[name] # 0
              /\ ClientIs(key, client.profile, client.our_prekeys, client.is_publishing)
         /\ happened' = happened \cup {"import"}
<1> DEFINE n == made + 2
           K == [client.key EXCEPT !["keypair"] = made + 1, !["forging_key"] = made + 2]
<1>1. /\ made \in Nat /\ client \in ClientUpTo(made) /\ disk \in FilesUpTo(made)
      /\ now \in 0 .. MaxTime /\ made' = n /\ now' = now /\ disk' = disk
      /\ client' = [client EXCEPT !.key["keypair"] = made + 1,
                                  !.key["forging_key"] = made + 2]
      /\ stage = "idle" /\ stage' = "idle" /\ n <= MaxMade
      /\ happened' = happened \cup {"import"}
      /\ \A name \in KeyNames : client.key[name] # 0
  BY DEF AccountType, ImportIdentity
<1>2. n \in Nat /\ made <= n
  BY <1>1
<1>3. client \in ClientUpTo(n) /\ disk \in FilesUpTo(n)
  BY <1>1, <1>2, UpToGrows
<1>4. client.key \in [KeyNames -> 0 .. n]
  BY <1>2, <1>3, ClientFields, Zenon
<1>5. K \in [KeyNames -> 0 .. n] /\ \A name \in KeyNames : K[name] # 0
  BY <1>1, <1>4 DEF KeyNames
<1>6. client' = [client EXCEPT !.key = K]
  BY <1>1, <1>3, Zenon DEF ClientUpTo
<1> HIDE DEF n, K
<1>7. client' \in ClientUpTo(n)
      /\ ClientIs(K, client.profile, client.our_prekeys, client.is_publishing)
  BY <1>3, <1>5, <1>6, Zenon DEF ClientUpTo, ClientIs
<1>8. stage' \in Stages \ KeyNames /\ made' + Left(stage') <= MaxMade
  BY <1>1, <1>2, LeftValues DEF Stages, KeyNames
<1>9. AccountType'
  BY <1>1, <1>2, <1>3, <1>7, <1>8 DEF AccountType
<1>10. DiskStays
  BY <1>1 DEF DiskStays, DiskIs
<1> QED
  BY <1>1, <1>5, <1>7, <1>9, <1>10, Zenon DEF n

\* The application starts anew.
LEMMA ResetDoes ==
  ASSUME AccountType, client' = NewClient, UNCHANGED <<disk, made, now>>, stage' = "idle"
  PROVE  /\ AccountType' /\ DiskStays
         /\ ClientIs([x \in KeyNames |-> 0], [k \in Kinds |-> NoProfile], {}, FALSE)
<1>1. /\ made \in Nat /\ now \in 0 .. MaxTime /\ made <= MaxMade /\ disk \in FilesUpTo(made)
  BY LeftValues, AccountBounds DEF AccountType
<1>2. client' \in ClientUpTo(made)
      /\ ClientIs([x \in KeyNames |-> 0], [k \in Kinds |-> NoProfile], {}, FALSE)
  BY <1>1, NewClientType, Zenon DEF ClientIs
<1>3. stage' \in Stages \ KeyNames /\ made + Left(stage') <= MaxMade
  BY <1>1, LeftValues DEF Stages, KeyNames
<1>4. AccountType'
  BY <1>1, <1>2, <1>3 DEF AccountType
<1> QED
  BY <1>2, <1>4 DEF DiskStays, DiskIs

LEMMA UseDoes ==
  ASSUME AccountType, NEW id, UsePrekey(id)
  PROVE  LET ms == {m \in client.our_prekeys : m.id # id} IN
         /\ AccountType' /\ UNCHANGED <<made, now, stage, happened>>
         /\ stage = "idle" /\ client.our_prekeys # {} /\ used' = used \cup {id}
         /\ ClientIs(client.key, client.profile, ms, client.is_publishing)
         /\ DiskIs(disk.key, disk.profile, disk.expired,
                   {PrekeyMessageToFile(m) : m \in ms})
<1> DEFINE ms == {m \in client.our_prekeys : m.id # id}
<1>1. /\ made \in Nat /\ client \in ClientUpTo(made) /\ disk \in FilesUpTo(made)
      /\ now \in 0 .. MaxTime /\ made' = made /\ now' = now
      /\ client' = [client EXCEPT !.our_prekeys = {m \in @ : m.id # id}]
      /\ disk' = StorePrekeyMessages(disk, client'.our_prekeys)
      /\ stage = "idle" /\ stage' = stage /\ used' = used \cup {id}
      /\ UNCHANGED happened /\ client.our_prekeys # {}
  BY DEF AccountType, UsePrekey
<1>2. client' = [client EXCEPT !.our_prekeys = ms]
  BY <1>1, Zenon DEF ClientUpTo
<1>3. ms \in SUBSET PrekeyUpTo(made)
  <2>1. client.our_prekeys \in SUBSET PrekeyUpTo(made)
    BY <1>1, ClientFields, Zenon
  <2> QED
    BY <2>1
<1> HIDE DEF ms
<1>4. client' \in ClientUpTo(made)
      /\ ClientIs(client.key, client.profile, ms, client.is_publishing)
  BY <1>1, <1>2, <1>3, Zenon DEF ClientUpTo, ClientIs
<1>5. disk' = StorePrekeyMessages(disk, ms) /\ disk \in FilesUpTo(made) /\ made \in Nat
  BY <1>1, <1>4 DEF ClientIs
<1>6. disk' \in FilesUpTo(made)
      /\ DiskIs(disk.key, disk.profile, disk.expired, {PrekeyMessageToFile(m) : m \in ms})
  BY ONLY <1>3, <1>5, PrekeysStored DEF DiskIs
<1>7. stage' \notin KeyNames
  BY <1>1 DEF KeyNames
<1>8. AccountType'
  BY <1>1, <1>4, <1>6, <1>7 DEF AccountType
<1> QED
  BY <1>1, <1>4, <1>6, <1>8, Zenon DEF ms


-----------------------------------------------------------------------------
(***************************************************************************)
(* The marks of what is being published.                                   *)
(***************************************************************************)

\* The same profile, whatever its marks.
SameProfile(p, q) ==
  /\ q.id = p.id /\ q.keypair = p.keypair /\ q.forging_key = p.forging_key
  /\ q.expires = p.expires /\ q.has_validated = p.has_validated /\ q.keys = p.keys

Settled(x) ==
  IF x.is_publishing THEN [x EXCEPT !.should_publish = FALSE, !.is_publishing = FALSE]
                     ELSE x
Released(x) == [x EXCEPT !.is_publishing = FALSE]
Marked(x) == [x EXCEPT !.is_publishing = @ \/ x.should_publish]

LEMMA ProfileMarks ==
  ASSUME NEW n \in Nat, NEW p \in ProfileUpTo(n)
  PROVE  /\ /\ Settled(p) \in ProfileUpTo(n) /\ SameProfile(p, Settled(p))
            /\ ~Settled(p).is_publishing
            /\ p.should_publish /\ ~p.is_publishing => Settled(p).should_publish
            /\ ~p.is_publishing => Settled(p) = p
         /\ /\ Released(p) \in ProfileUpTo(n) /\ SameProfile(p, Released(p))
            /\ ~Released(p).is_publishing /\ Released(p).should_publish = p.should_publish
         /\ /\ Marked(p) \in ProfileUpTo(n) /\ SameProfile(p, Marked(p))
            /\ Marked(p).is_publishing => p.is_publishing \/ p.should_publish
            /\ Marked(p).should_publish = p.should_publish
<1>1. p.is_publishing \in BOOLEAN /\ p.should_publish \in BOOLEAN
  BY Zenon DEF ProfileUpTo
<1>2. /\ Settled(p) \in ProfileUpTo(n) /\ SameProfile(p, Settled(p))
      /\ ~Settled(p).is_publishing
      /\ p.should_publish /\ ~p.is_publishing => Settled(p).should_publish
      /\ ~p.is_publishing => Settled(p) = p
  <2>1. CASE p.is_publishing
    BY <2>1, Zenon DEF Settled, SameProfile, ProfileUpTo
  <2>2. CASE ~p.is_publishing
    BY <2>2, Zenon DEF Settled, SameProfile, ProfileUpTo
  <2> QED
    BY <2>1, <2>2
<1>3. /\ Released(p) \in ProfileUpTo(n) /\ SameProfile(p, Released(p))
      /\ ~Released(p).is_publishing /\ Released(p).should_publish = p.should_publish
  BY Zenon DEF Released, SameProfile, ProfileUpTo
<1>4. (p.is_publishing \/ p.should_publish) \in BOOLEAN
  OBVIOUS
<1>5. /\ Marked(p) \in ProfileUpTo(n) /\ SameProfile(p, Marked(p))
      /\ Marked(p).is_publishing => p.is_publishing \/ p.should_publish
      /\ Marked(p).should_publish = p.should_publish
  BY <1>4, Zenon DEF Marked, SameProfile, ProfileUpTo
<1> QED
  BY <1>2, <1>3, <1>5, Zenon

LEMMA PrekeyMarks ==
  ASSUME NEW n \in Nat, NEW m \in PrekeyUpTo(n)
  PROVE  /\ /\ Settled(m) \in PrekeyUpTo(n) /\ Settled(m).id = m.id
            /\ ~Settled(m).is_publishing
            /\ m.should_publish /\ ~m.is_publishing => Settled(m).should_publish
            /\ ~m.is_publishing => Settled(m) = m
         /\ /\ Released(m) \in PrekeyUpTo(n) /\ Released(m).id = m.id
            /\ ~Released(m).is_publishing /\ Released(m).should_publish = m.should_publish
         /\ /\ Marked(m) \in PrekeyUpTo(n) /\ Marked(m).id = m.id
            /\ Marked(m).is_publishing => m.is_publishing \/ m.should_publish
            /\ Marked(m).should_publish = m.should_publish
<1>1. /\ Settled(m) \in PrekeyUpTo(n) /\ Settled(m).id = m.id
      /\ ~Settled(m).is_publishing
      /\ m.should_publish /\ ~m.is_publishing => Settled(m).should_publish
      /\ ~m.is_publishing => Settled(m) = m
  <2>1. CASE m.is_publishing
    BY <2>1, Zenon DEF Settled, PrekeyUpTo
  <2>2. CASE ~m.is_publishing
    BY <2>2, Zenon DEF Settled, PrekeyUpTo
  <2> QED
    BY <2>1, <2>2
<1>2. /\ Released(m) \in PrekeyUpTo(n) /\ Released(m).id = m.id
      /\ ~Released(m).is_publishing /\ Released(m).should_publish = m.should_publish
  BY Zenon DEF Released, PrekeyUpTo
<1>3. (m.is_publishing \/ m.should_publish) \in BOOLEAN
  OBVIOUS
<1>4. /\ Marked(m) \in PrekeyUpTo(n) /\ Marked(m).id = m.id
      /\ Marked(m).is_publishing => m.is_publishing \/ m.should_publish
      /\ Marked(m).should_publish = m.should_publish
  BY <1>3, Zenon DEF Marked, PrekeyUpTo
<1> QED
  BY <1>1, <1>2, <1>4, Zenon

\* All profiles and all prekey messages are treated alike.
LEMMA MarksType ==
  ASSUME NEW n \in Nat, NEW c \in ClientUpTo(n)
  PROVE  /\ [k \in Kinds |-> Settled(c.profile[k])] \in [Kinds -> ProfileUpTo(n)]
         /\ [k \in Kinds |-> Released(c.profile[k])] \in [Kinds -> ProfileUpTo(n)]
         /\ [k \in Kinds |-> Marked(c.profile[k])] \in [Kinds -> ProfileUpTo(n)]
         /\ {Settled(m) : m \in c.our_prekeys} \in SUBSET PrekeyUpTo(n)
         /\ {Released(m) : m \in c.our_prekeys} \in SUBSET PrekeyUpTo(n)
         /\ {Marked(m) : m \in c.our_prekeys} \in SUBSET PrekeyUpTo(n)
<1>1. /\ c.profile \in [Kinds -> ProfileUpTo(n)]
      /\ c.our_prekeys \in SUBSET PrekeyUpTo(n)
  BY ClientFields, Zenon
<1>2. \A k \in Kinds : /\ Settled(c.profile[k]) \in ProfileUpTo(n)
                       /\ Released(c.profile[k]) \in ProfileUpTo(n)
                       /\ Marked(c.profile[k]) \in ProfileUpTo(n)
  <2>1. \A k \in Kinds : c.profile[k] \in ProfileUpTo(n)
    BY <1>1
  <2> QED
    BY <2>1, ProfileMarks, Zenon
<1>3. \A m \in c.our_prekeys : /\ Settled(m) \in PrekeyUpTo(n)
                               /\ Released(m) \in PrekeyUpTo(n)
                               /\ Marked(m) \in PrekeyUpTo(n)
  <2>1. \A m \in c.our_prekeys : m \in PrekeyUpTo(n)
    BY <1>1
  <2> QED
    BY <2>1, PrekeyMarks, Zenon
<1> QED
  BY <1>2, <1>3

\* Only marks in memory change.
LEMMA OnlyMarks ==
  ASSUME AccountType, UNCHANGED <<disk, made, now, stage>>,
         client' \in ClientUpTo(made), client'.key = client.key
  PROVE  AccountType' /\ DiskStays
  BY DEF AccountType, DiskStays, DiskIs

LEMMA FailedDoes ==
  ASSUME AccountType, client' = FailedPublished(client), UNCHANGED <<disk, made, now, stage>>
  PROVE  /\ AccountType' /\ DiskStays
         /\ ClientIs(client.key, [k \in Kinds |-> Released(client.profile[k])],
                     {Released(m) : m \in client.our_prekeys}, FALSE)
<1> DEFINE P == [k \in Kinds |-> Released(client.profile[k])]
           M == {Released(m) : m \in client.our_prekeys}
<1>1. made \in Nat /\ client \in ClientUpTo(made)
  BY DEF AccountType
<1>2. P \in [Kinds -> ProfileUpTo(made)] /\ M \in SUBSET PrekeyUpTo(made)
  BY <1>1, MarksType, Zenon
<1>3. client' = [client EXCEPT !.profile = P, !.our_prekeys = M, !.is_publishing = FALSE]
  BY DEF FailedPublished, Released
<1> HIDE DEF P, M
<1>4. client' \in ClientUpTo(made) /\ ClientIs(client.key, P, M, FALSE)
  BY <1>1, <1>2, <1>3, Zenon DEF ClientUpTo, ClientIs
<1> QED
  BY <1>4, OnlyMarks DEF ClientIs, P, M

LEMMA MarkDoes ==
  ASSUME AccountType, client' = MarkPublishing(client), UNCHANGED <<disk, made, now, stage>>
  PROVE  /\ AccountType' /\ DiskStays
         /\ ClientIs(client.key, [k \in Kinds |-> Marked(client.profile[k])],
                     {Marked(m) : m \in client.our_prekeys}, client.is_publishing)
<1> DEFINE P == [k \in Kinds |-> Marked(client.profile[k])]
           M == {Marked(m) : m \in client.our_prekeys}
<1>1. made \in Nat /\ client \in ClientUpTo(made)
  BY DEF AccountType
<1>2. P \in [Kinds -> ProfileUpTo(made)] /\ M \in SUBSET PrekeyUpTo(made)
  BY <1>1, MarksType, Zenon
<1>3. client' = [client EXCEPT !.profile = P, !.our_prekeys = M]
  <2>1. client' = MarkPublishing(client)
    OBVIOUS
  <2> QED
    BY ONLY <2>1, Zenon DEF MarkPublishing, Marked
<1> HIDE DEF P, M
<1>4. client' \in ClientUpTo(made) /\ ClientIs(client.key, P, M, client.is_publishing)
  BY <1>1, <1>2, <1>3, Zenon DEF ClientUpTo, ClientIs
<1> QED
  BY <1>4, OnlyMarks DEF ClientIs, P, M

\* The flags of the account itself.
LEMMA FlagsDoes ==
  ASSUME AccountType, UNCHANGED <<disk, made, now, stage>>, NEW b \in BOOLEAN,
         \/ client' = [client EXCEPT !.is_publishing = TRUE] /\ b = TRUE
         \/ client' = client /\ b = client.is_publishing
         \/ \E n \in 0 .. MaxPublished :
              /\ client' = [client EXCEPT !.should_publish = TRUE,
                                          !.prekey_msgs_num_to_publish = n]
              /\ b = client.is_publishing
  PROVE  /\ AccountType' /\ DiskStays
         /\ ClientIs(client.key, client.profile, client.our_prekeys, b)
<1>1. made \in Nat /\ client \in ClientUpTo(made)
  BY DEF AccountType
<1>2. client' \in ClientUpTo(made)
      /\ ClientIs(client.key, client.profile, client.our_prekeys, b)
  BY <1>1, Zenon DEF ClientUpTo, ClientIs
<1> QED
  BY <1>2, OnlyMarks DEF ClientIs


\* A profile is written if it was marked.
LEMMA StoredIf ==
  ASSUME NEW n \in Nat, NEW g \in FilesUpTo(n), NEW k \in Kinds, NEW p \in ProfileUpTo(n),
         NEW b \in BOOLEAN, NEW h, h = IF b THEN StoreProfile(g, k, p) ELSE g
  PROVE  /\ h \in FilesUpTo(n) /\ h.key = g.key /\ h.expired = g.expired
         /\ h.our_prekeys = g.our_prekeys
         /\ h.profile = [g.profile EXCEPT ![k] = IF b THEN ToFile(k, p) ELSE @]
<1>1. CASE b
  <2>1. h = StoreProfile(g, k, p)
    BY <1>1
  <2>2. /\ h \in FilesUpTo(n) /\ h.key = g.key /\ h.expired = g.expired
        /\ h.our_prekeys = g.our_prekeys
        /\ h.profile = [g.profile EXCEPT ![k] = ToFile(k, p)]
    <3>1. StoreProfile(g, k, p) = [g EXCEPT !.profile[k] = ToFile(k, p)]
      BY DEF Kinds, StoreProfile, StoreClientProfile, StorePrekeyProfile, ToFile
    <3>2. ToFile(k, p) \in FileProfileUpTo(n)
      BY ToFileType
    <3>3. [g.profile EXCEPT ![k] = ToFile(k, p)] \in [Kinds -> FileProfileUpTo(n)]
      BY <3>2, FilesFields
    <3> QED
      BY <2>1, <3>1, <3>3, Zenon DEF FilesUpTo
  <2> QED
    BY <1>1, <2>2
<1>2. CASE ~b
  <2>1. h = g /\ g.profile \in [Kinds -> FileProfileUpTo(n)]
    BY <1>2, FilesFields
  <2> QED
    BY <1>2, <2>1
<1> QED
  BY <1>1, <1>2

LEMMA PublishedDoes ==
  ASSUME AccountType, client' = Published(client), disk' = StorePublished(disk, client),
         UNCHANGED <<made, now, stage>>
  PROVE  LET P == [k \in Kinds |-> Settled(client.profile[k])]
             M == {Settled(m) : m \in client.our_prekeys}
         IN /\ AccountType'
            /\ ClientIs(client.key, P, M, FALSE)
            /\ DiskIs(disk.key,
                      [k \in Kinds |-> IF client.profile[k].is_publishing
                                         THEN ToFile(k, P[k]) ELSE disk.profile[k]],
                      disk.expired,
                      IF \E m \in client.our_prekeys : m.is_publishing
                        THEN {PrekeyMessageToFile(m) : m \in M} ELSE disk.our_prekeys)
<1> DEFINE P == [k \in Kinds |-> Settled(client.profile[k])]
           M == {Settled(m) : m \in client.our_prekeys}
           b == client.should_publish /\ ~client.is_publishing
<1>1. /\ made \in Nat /\ client \in ClientUpTo(made) /\ disk \in FilesUpTo(made)
  BY DEF AccountType
<1>2. P \in [Kinds -> ProfileUpTo(made)] /\ M \in SUBSET PrekeyUpTo(made) /\ b \in BOOLEAN
  BY <1>1, MarksType, Zenon
<1>3. /\ Published(client) = [client EXCEPT !.profile = P, !.our_prekeys = M,
                                          !.should_publish = b, !.is_publishing = FALSE]
      /\ client' = Published(client)
  BY Zenon DEF Published, Settled
<1> HIDE DEF b, P, M
<1>4. client' \in ClientUpTo(made) /\ ClientIs(client.key, P, M, FALSE)
  <2>1. client' = [client EXCEPT !.profile = P, !.our_prekeys = M,
                                  !.should_publish = b, !.is_publishing = FALSE]
    BY <1>3, Zenon
  <2> QED
    BY ONLY <1>1, <1>2, <2>1, Zenon DEF ClientUpTo, ClientIs
<1>5. Published(client).profile = P /\ Published(client).our_prekeys = M
  BY <1>3, <1>4 DEF ClientIs
<1> DEFINE StoreIf(e, k) == IF client.profile[k].is_publishing
                             THEN StoreProfile(e, k, P[k]) ELSE e
           d == StoreIf(disk, "client")
           e == StoreIf(d, "prekey")
           f == [k \in Kinds |-> IF client.profile[k].is_publishing
                                   THEN ToFile(k, P[k]) ELSE disk.profile[k]]
           some == \E m \in client.our_prekeys : m.is_publishing
<1>6. disk' = IF some THEN StorePrekeyMessages(e, M) ELSE e
  <2>1. disk' = StorePublished(disk, client)
    OBVIOUS
  <2> QED
    BY ONLY <1>5, <2>1, Zenon DEF StorePublished
<1>7. \A k \in Kinds : P[k] \in ProfileUpTo(made) /\ client.profile[k].is_publishing \in BOOLEAN
  <2>1. client.profile \in [Kinds -> ProfileUpTo(made)]
    BY <1>1, ClientFields, Zenon
  <2>2. \A x \in ProfileUpTo(made) : x.is_publishing \in BOOLEAN
    BY Zenon DEF ProfileUpTo
  <2>3. \A k \in Kinds : client.profile[k] \in ProfileUpTo(made) /\ P[k] \in ProfileUpTo(made)
    BY <1>2, <2>1, Zenon
  <2> QED
    BY <2>2, <2>3, Zenon
<1>8. /\ d \in FilesUpTo(made) /\ d.key = disk.key /\ d.expired = disk.expired
      /\ d.our_prekeys = disk.our_prekeys
      /\ d.profile = [disk.profile EXCEPT !["client"] =
           IF client.profile["client"].is_publishing THEN ToFile("client", P["client"]) ELSE @]
  <2>1. "client" \in Kinds
    BY DEF Kinds
  <2> HIDE DEF d
  <2>2. d = IF client.profile["client"].is_publishing
              THEN StoreProfile(disk, "client", P["client"]) ELSE disk
    BY DEF d
  <2> QED
    BY <1>1, <1>7, <2>1, <2>2, StoredIf
<1> HIDE DEF d
<1>9. /\ e \in FilesUpTo(made) /\ e.key = d.key /\ e.expired = d.expired
      /\ e.our_prekeys = d.our_prekeys
      /\ e.profile = [d.profile EXCEPT !["prekey"] =
           IF client.profile["prekey"].is_publishing THEN ToFile("prekey", P["prekey"]) ELSE @]
  <2>1. "prekey" \in Kinds
    BY DEF Kinds
  <2> HIDE DEF e
  <2>2. e = IF client.profile["prekey"].is_publishing
              THEN StoreProfile(d, "prekey", P["prekey"]) ELSE d
    BY DEF e
  <2> QED
    BY <1>1, <1>7, <1>8, <2>1, <2>2, StoredIf
<1> HIDE DEF e, StoreIf
<1>10. e.profile = f
  <2>1. disk.profile \in [Kinds -> FileProfileUpTo(made)] /\ Kinds = {"client", "prekey"}
    BY <1>1, FilesFields, Zenon DEF Kinds
  <2> QED
    BY <1>8, <1>9, <2>1
<1> HIDE DEF f
<1>11. /\ disk' \in FilesUpTo(made)
       /\ DiskIs(disk.key, f, disk.expired,
                 IF some THEN {PrekeyMessageToFile(m) : m \in M} ELSE disk.our_prekeys)
  <2>1. CASE some
    <3>1. disk' = StorePrekeyMessages(e, M)
      BY <1>6, <2>1
    <3>2. /\ disk' \in FilesUpTo(made) /\ disk'.key = e.key /\ disk'.profile = e.profile
          /\ disk'.expired = e.expired
          /\ disk'.our_prekeys = {PrekeyMessageToFile(m) : m \in M}
      BY <1>1, <1>2, <1>9, <3>1, PrekeysStored
    <3> QED
      BY <1>8, <1>9, <1>10, <2>1, <3>2 DEF DiskIs
  <2>2. CASE ~some
    <3>1. disk' = e
      BY <1>6, <2>2
    <3> QED
      BY <1>8, <1>9, <1>10, <2>2, <3>1 DEF DiskIs
  <2> QED
    BY <2>1, <2>2
<1>12. AccountType'
  BY <1>4, <1>11 DEF AccountType, ClientIs
<1> QED
  BY <1>4, <1>11, <1>12, Zenon DEF P, M, f


-----------------------------------------------------------------------------
(***************************************************************************)
(* Every step does one of the following to the account.                    *)
(***************************************************************************)

\* Nothing but the step of a call that is next, the clock or the flags.
Stays ==
  /\ \E b \in BOOLEAN :
       /\ client.is_publishing => b
       /\ ClientIs(client.key, client.profile, client.our_prekeys, b)
  /\ DiskStays
  /\ made' = made /\ used' = used /\ happened \subseteq happened'
  /\ \/ UNCHANGED <<stage, now>>
     \/ stage' = "idle" /\ now' = now
     \/ stage = "idle" /\ stage' = "idle" /\ now <= now'
     \/ /\ stage = "idle" /\ now' = now
        /\ stage' \in KeyNames \cup {"check_client"}
        /\ stage' = "check_client" => \A name \in KeyNames : client.key[name] # 0
     \/ \E k \in Kinds : stage = Expired(k) /\ stage' = AfterExpired(k) /\ now' = now
     \/ /\ stage = "prekeys" /\ stage' = "fingerprints" /\ now' = now
        /\ Enough(client.our_prekeys)

LoadsKey ==
  \E name \in KeyNames :
    /\ stage = name /\ client.key[name] = 0 /\ stage' = FirstMissing(client'.key)
    /\ ClientIs([client.key EXCEPT ![name] = disk.key[name]], client.profile,
                client.our_prekeys, client.is_publishing)
    /\ DiskStays
    /\ UNCHANGED <<made, now, used, happened>>

CreatesKey ==
  \E name \in KeyNames :
    /\ stage = name /\ client.key[name] = 0 /\ stage' = FirstMissing(client'.key)
    /\ made' = made + 1
    /\ ClientIs([client.key EXCEPT ![name] = made + 1],
                [k \in Kinds |-> IF k = "client" \/ name = "keypair"
                                   THEN NoProfile ELSE client.profile[k]],
                client.our_prekeys, client.is_publishing)
    /\ DiskIs([disk.key EXCEPT ![name] = made + 1], disk.profile, disk.expired,
              disk.our_prekeys)
    /\ UNCHANGED <<now, used>> /\ happened \subseteq happened'
    /\ disk.key[name] = 0 \/ "load" \in happened'

ExaminesProfile ==
  \E k \in Kinds : \E p \in ProfileUpTo(made), next \in Stages :
    /\ \/ stage = Check(k) /\ next = Load(k) /\ p = client.profile[k]
       \/ stage = Load(k) /\ next = Create(k) /\ p = Loaded(disk, k)
       \/ stage = Load(k) /\ next = Create(k) /\ p = NoProfile /\ "load" \in happened'
    /\ Examined(k, p, next)
    /\ UNCHANGED <<made, now, used>> /\ happened \subseteq happened'

CreatesProfile ==
  \E k \in Kinds :
    /\ stage = Create(k) /\ stage' = Expired(k) /\ made' = made + 1
    /\ ClientIs(client.key, [client.profile EXCEPT ![k] = NewProfile(k)],
                client.our_prekeys, client.is_publishing)
    /\ DiskIs(disk.key, [disk.profile EXCEPT ![k] = ToFile(k, NewProfile(k))],
              disk.expired, disk.our_prekeys)
    /\ UNCHANGED <<now, used, happened>>

DropsExpired ==
  \E k \in Kinds :
    /\ stage = Expired(k) /\ stage' = AfterExpired(k) /\ ClientStays
    /\ ~IsValidExpired(k, LoadedExpired(disk, k))
    /\ DiskIs(disk.key, disk.profile, [disk.expired EXCEPT ![k] = NoFileProfile],
              disk.our_prekeys)
    /\ UNCHANGED <<made, now, used, happened>>

LoadsPrekeys ==
  \E ms \in SUBSET PrekeyUpTo(made) :
    /\ stage = "prekeys" /\ stage' = "fingerprints" /\ DiskStays
    /\ ClientIs(client.key, client.profile, ms, client.is_publishing)
    /\ Enough(ms) /\ ~Enough(client.our_prekeys)
    /\ ms \subseteq LoadPrekeyMessages(disk)
    /\ ms = LoadPrekeyMessages(disk) \/ "load" \in happened'
    /\ UNCHANGED <<made, now, used>> /\ happened \subseteq happened'

CreatesPrekeys ==
  \E ms \in SUBSET PrekeyUpTo(made) :
    /\ stage = "prekeys" /\ stage' = "fingerprints"
    /\ Creates(ms) /\ ~Enough(client.our_prekeys)
    /\ ms = client.our_prekeys \/ ms \subseteq LoadPrekeyMessages(disk)
    /\ ms = LoadPrekeyMessages(disk) \/ "load" \in happened'
    /\ made <= made' /\ UNCHANGED <<now, used>> /\ happened \subseteq happened'

Imports ==
  /\ stage = "idle" /\ stage' = "idle" /\ DiskStays
  /\ \E key \in [KeyNames -> 0 .. made'] :
       /\ \A name \in KeyNames : key[name] # 0
       /\ ClientIs(key, client.profile, client.our_prekeys, client.is_publishing)
  /\ made <= made' /\ UNCHANGED <<now, used>> /\ happened' = happened \cup {"import"}

Resets ==
  /\ stage' = "idle" /\ DiskStays /\ client' = NewClient
  /\ ClientIs([x \in KeyNames |-> 0], [k \in Kinds |-> NoProfile], {}, FALSE)
  /\ UNCHANGED <<made, now, used>> /\ happened \subseteq happened'

Uses ==
  \E id :
    /\ stage = "idle" /\ client.our_prekeys # {} /\ used' = used \cup {id}
    /\ ClientIs(client.key, client.profile, {m \in client.our_prekeys : m.id # id},
                client.is_publishing)
    /\ DiskIs(disk.key, disk.profile, disk.expired,
              {PrekeyMessageToFile(m) : m \in {x \in client.our_prekeys : x.id # id}})
    /\ UNCHANGED <<made, now, stage, happened>>

Marks ==
  /\ stage = "idle" /\ DiskStays
  /\ ClientIs(client.key, [k \in Kinds |-> Marked(client.profile[k])],
              {Marked(m) : m \in client.our_prekeys}, client.is_publishing)
  /\ UNCHANGED <<made, now, stage, used, happened>>

\* The server has accepted what was sent.
Answered == \E m \in wire : m.type = "success" /\ m.n = request.n /\ request.mac_key

Settles ==
  LET P == [k \in Kinds |-> Settled(client.profile[k])]
      M == {Settled(m) : m \in client.our_prekeys}
  IN /\ Answered /\ stage = "idle" /\ ClientIs(client.key, P, M, FALSE)
     /\ DiskIs(disk.key,
               [k \in Kinds |-> IF client.profile[k].is_publishing
                                  THEN ToFile(k, P[k]) ELSE disk.profile[k]],
               disk.expired,
               IF \E m \in client.our_prekeys : m.is_publishing
                 THEN {PrekeyMessageToFile(m) : m \in M} ELSE disk.our_prekeys)
     /\ UNCHANGED <<made, now, stage, used, happened>>

Releases ==
  /\ stage = "idle" /\ DiskStays
  /\ ClientIs(client.key, [k \in Kinds |-> Released(client.profile[k])],
              {Released(m) : m \in client.our_prekeys}, FALSE)
  /\ UNCHANGED <<made, now, stage, used, happened>>

\* The steps of otrng_client_ensure_correct_state.
EnsureDoes ==
  \/ Stays \/ LoadsKey \/ CreatesKey \/ ExaminesProfile \/ CreatesProfile
  \/ DropsExpired \/ LoadsPrekeys \/ CreatesPrekeys

AccountDoes == EnsureDoes \/ Imports \/ Resets \/ Uses \/ Marks \/ Settles \/ Releases

\* What a load of the prekey messages gives, whether it works or not.
LEMMA LoadableType ==
  ASSUME AccountType, NEW ms \in Loadable, LoadGives(ms)
  PROVE  /\ ms \in SUBSET PrekeyUpTo(made)
         /\ ms = client.our_prekeys \/ ms \subseteq LoadPrekeyMessages(disk)
         /\ ms = LoadPrekeyMessages(disk) \/ "load" \in happened'
         /\ happened \subseteq happened'
<1>1. /\ LoadPrekeyMessages(disk) \in SUBSET PrekeyUpTo(made)
      /\ client.our_prekeys \in SUBSET PrekeyUpTo(made)
  BY PrekeyFiles, ClientFields, Zenon DEF AccountType
<1>2. ms = client.our_prekeys \/ ms \subseteq LoadPrekeyMessages(disk)
  BY DEF Loadable
<1> QED
  BY <1>1, <1>2 DEF LoadGives, NoFault, Fault

LEMMA PrekeysLoadedDoes ==
  ASSUME AccountType, EnsurePrekeysLoaded
  PROVE  AccountType' /\ LoadsPrekeys
<1>1. PICK ms \in Loadable :
        /\ LoadGives(ms) /\ Enough(ms)
        /\ client' = [client EXCEPT !.our_prekeys = ms]
  BY DEF EnsurePrekeysLoaded
<1>2. /\ made \in Nat /\ client \in ClientUpTo(made) /\ disk \in FilesUpTo(made)
      /\ now \in 0 .. MaxTime /\ UNCHANGED <<disk, now, made, used>>
      /\ stage = "prekeys" /\ stage' = "fingerprints"
      /\ made <= MaxMade /\ ~Enough(client.our_prekeys)
  BY LeftValues, AccountBounds DEF AccountType, EnsurePrekeysLoaded
<1>3. /\ ms \in SUBSET PrekeyUpTo(made)
      /\ ms = client.our_prekeys \/ ms \subseteq LoadPrekeyMessages(disk)
      /\ ms = LoadPrekeyMessages(disk) \/ "load" \in happened'
      /\ happened \subseteq happened'
  BY <1>1, LoadableType
<1>4. ms \subseteq LoadPrekeyMessages(disk)
  BY <1>1, <1>2, <1>3
<1>5. client' \in ClientUpTo(made)
      /\ ClientIs(client.key, client.profile, ms, client.is_publishing)
  BY <1>1, <1>2, <1>3, Zenon DEF ClientUpTo, ClientIs
<1>6. stage' \in Stages \ KeyNames /\ made' + Left(stage') <= MaxMade
  BY <1>2, LeftValues DEF Stages, KeyNames
<1>7. AccountType'
  BY <1>2, <1>5, <1>6 DEF AccountType
<1>8. LoadsPrekeys
  BY <1>1, <1>2, <1>3, <1>4, <1>5, Zenon DEF LoadsPrekeys, DiskStays, DiskIs
<1> QED
  BY <1>7, <1>8

\* The account stays as it is.
LEMMA NothingDoes ==
  ASSUME AccountType, UNCHANGED <<client, disk, stage, now, made, used>>,
         happened \subseteq happened'
  PROVE  AccountType' /\ Stays
<1>1. client.is_publishing \in BOOLEAN
  BY ClientFields DEF AccountType
<1>2. AccountType'
  BY DEF AccountType
<1> QED
  BY <1>1, <1>2, Zenon DEF Stays, ClientIs, DiskStays, DiskIs

LEMMA EnsureStep ==
  ASSUME AccountType, Ensure
  PROVE  AccountType' /\ EnsureDoes
<1>0. client.is_publishing \in BOOLEAN /\ made \in Nat
  BY ClientFields DEF AccountType
<1>1. CASE EnsureCorrectState
  <2>1. stage = "idle" /\ used' = used
    BY <1>1 DEF EnsureCorrectState
  <2> QED
    BY <1>0, <1>1, <2>1, EnsureStartsDoes, Zenon DEF Stays, ClientStays, EnsureDoes
<1>2. ASSUME NEW name \in KeyNames, EnsureKeyLoaded(name)
      PROVE  AccountType' /\ LoadsKey
  <2>1. /\ stage = name /\ stage' = FirstMissing(client'.key)
        /\ UNCHANGED <<made, now, used, happened>>
    BY <1>2 DEF EnsureKeyLoaded
  <2> QED
    BY <1>2, <2>1, KeyLoadedDoes, Zenon DEF LoadsKey
<1>3. ASSUME NEW name \in KeyNames, EnsureKeyCreated(name)
      PROVE  AccountType' /\ CreatesKey
  <2>1. /\ stage = name /\ stage' = FirstMissing(client'.key)
        /\ UNCHANGED <<now, used>> /\ happened \subseteq happened'
        /\ disk.key[name] = 0 \/ "load" \in happened'
    BY <1>3 DEF EnsureKeyCreated, NoFault, Fault, LoadKey
  <2>2. /\ AccountType'
        /\ made' = made + 1 /\ client.key[name] = 0
        /\ ClientIs([client.key EXCEPT ![name] = made + 1],
                    [k \in Kinds |-> IF k = "client" \/ name = "keypair"
                                       THEN NoProfile ELSE client.profile[k]],
                    client.our_prekeys, client.is_publishing)
        /\ DiskIs([disk.key EXCEPT ![name] = made + 1], disk.profile, disk.expired,
                  disk.our_prekeys)
    BY <1>3, KeyCreatedDoes
  <2> QED
    BY <2>1, <2>2, Zenon DEF CreatesKey
<1>4. ASSUME \/ \E name \in KeyNames : EnsureKeyFails(name)
             \/ \E k \in Kinds : CreateProfileFails(k)
             \/ EnsurePrekeysThere
      PROVE  AccountType' /\ Stays
  <2>1. /\ ClientStays /\ DiskStays /\ UNCHANGED made /\ AccountType'
        /\ stage' \in {"idle", "fingerprints"} /\ happened \subseteq happened'
    BY <1>4, NothingMadeDoes
  <2>2. now' = now /\ used' = used /\ now <= now
    BY <1>4 DEF EnsureKeyFails, CreateProfileFails, EnsurePrekeysThere, AccountType
  <2>3. stage' = "idle" \/ (stage = "prekeys" /\ stage' = "fingerprints" /\ Enough(client.our_prekeys))
    BY <1>4 DEF EnsureKeyFails, CreateProfileFails, EnsurePrekeysThere
  <2> QED
    BY <1>0, <2>1, <2>2, <2>3, Zenon DEF Stays, ClientStays
<1>5. ASSUME NEW k \in Kinds, CheckProfile(k) \/ LoadProfile(k)
      PROVE  AccountType' /\ ExaminesProfile
  <2>1. PICK p \in ProfileUpTo(made), next \in Stages :
           /\ Examines(k, p, next) /\ next \notin KeyNames
           /\ Left(next) = Left(stage) /\ Left(Expired(k)) <= Left(stage)
    BY <1>5, ProfileExamined
  <2>2. /\ AccountType' /\ UNCHANGED <<made, now>>
        /\ Examined(k, p, next)
    BY <2>1, ExamineDoes, ZenonT(40) DEF Examines
  <2>3. /\ used' = used /\ happened \subseteq happened'
        /\ \/ stage = Check(k) /\ next = Load(k) /\ p = client.profile[k]
           \/ stage = Load(k) /\ next = Create(k) /\ p = Loaded(disk, k)
           \/ stage = Load(k) /\ next = Create(k) /\ p = NoProfile /\ "load" \in happened'
    BY <2>1 DEF Examines, Examine, NoFault, Fault
  <2> QED
    BY <2>2, <2>3, Zenon DEF ExaminesProfile
<1>6. ASSUME NEW k \in Kinds, CreateProfile(k)
      PROVE  AccountType' /\ CreatesProfile
  <2>1. used' = used
    BY <1>6 DEF CreateProfile
  <2> QED
    BY <1>6, <2>1, CreateDoes, Zenon DEF CreatesProfile
<1>7. ASSUME NEW k \in Kinds, EnsureExpired(k)
      PROVE  AccountType' /\ (Stays \/ DropsExpired)
  <2>1. used' = used
    BY <1>7 DEF EnsureExpired
  <2> QED
    BY <1>0, <1>7, <2>1, ExpiredDoes, Zenon DEF Stays, DropsExpired, ClientStays
<1>8. CASE EnsurePrekeysLoaded
  BY <1>8, PrekeysLoadedDoes, Zenon DEF EnsureDoes
<1>9. CASE EnsurePrekeysCreated
  <2>1. PICK ms \in Loadable : LoadGives(ms) /\ CreatePrekeys(ms)
    BY <1>9 DEF EnsurePrekeysCreated
  <2>2. stage = "prekeys" /\ ~Enough(client.our_prekeys) /\ used' = used
    BY <1>9, <2>1 DEF EnsurePrekeysCreated, CreatePrekeys
  <2>3. /\ ms \in SUBSET PrekeyUpTo(made)
        /\ ms = client.our_prekeys \/ ms \subseteq LoadPrekeyMessages(disk)
        /\ ms = LoadPrekeyMessages(disk) \/ "load" \in happened'
        /\ happened \subseteq happened'
    BY <2>1, LoadableType
  <2>4. /\ AccountType' /\ made <= made' /\ now' = now
        /\ stage' = "fingerprints" /\ Creates(ms)
    BY <2>1, <2>2, <2>3, CreatePrekeysDoes
  <2> QED
    BY <2>2, <2>3, <2>4, Zenon DEF CreatesPrekeys, EnsureDoes
<1>10. CASE EnsureFingerprints
  <2>1. used' = used /\ now <= now /\ now' = now
    BY <1>10 DEF EnsureFingerprints, AccountType
  <2> QED
    BY <1>0, <1>10, <2>1, FingerprintsDoes, Zenon DEF Stays, ClientStays, EnsureDoes
<1> QED
  BY <1>1, <1>2, <1>3, <1>4, <1>5, <1>6, <1>7, <1>8, <1>9, <1>10, Zenon
  DEF Ensure, EnsureDoes


-----------------------------------------------------------------------------
(***************************************************************************)
(* Every step does one of the following to the request, the messages and   *)
(* the server.                                                             *)
(***************************************************************************)

Like(x, m) == x.type = m.type /\ x.n = m.n /\ x.body = m.body

Rests == UNCHANGED managerVars

\* The request ends.
Forgets ==
  /\ request' = NoRequest /\ wire' \subseteq wire
  /\ UNCHANGED <<requests, server, accepted>>

\* A request begins.
Starts ==
  /\ request = NoRequest /\ requests' = requests + 1
  /\ \E after \in {"publication", "storage"} :
       /\ request' = NewRequest(requests', after)
       /\ after = "publication" => ~client.is_publishing
  /\ \A x \in wire' : x \in wire \/ (x.type = "dake1" /\ x.n = requests' /\ x.body = NoPublication)
  /\ UNCHANGED <<server, accepted>>

\* The DAKE ends with the message whose body is body.
Continues(body) ==
  /\ request.ephemeral_ecdh /\ request' = WithMacKeys(request)
  /\ \A x \in wire' :
       x \in wire \/ (x.type = "dake3" /\ x.n = request.n /\ x.body = body)
  /\ UNCHANGED <<requests, server, accepted>>

SendsPublication ==
  /\ request.after_dake = "publication"
  /\ \A k \in Kinds : client.profile[k].id # 0
  /\ Continues([NoPublication EXCEPT !.profile = ProfilesToPublish(client),
                                     !.prekeys = PrekeysToPublish(client)])
SendsQuestion ==
  /\ request.after_dake # "publication"
  /\ Continues([NoPublication EXCEPT !.question = TRUE])

\* The network and the server, except when a publication is accepted.
Delivers ==
  /\ \A x \in wire' :
       \/ \E m \in wire : Like(x, m)
       \/ x.body = NoPublication /\ (x.type \notin {"dake3", "success"} \/ x.n = 0)
                                 /\ x.n <= requests
  /\ server'.profile = server.profile /\ server'.prekeys \subseteq server.prekeys
  /\ UNCHANGED <<request, requests, accepted>>

Accepts(m) ==
  /\ m.type = "dake3" /\ ~m.body.question
  /\ server'.profile = [k \in Kinds |-> IF m.body.profile[k].id # 0
                                          THEN m.body.profile[k] ELSE server.profile[k]]
  /\ server'.prekeys = server.prekeys \cup m.body.prekeys
  /\ accepted' = accepted \cup m.body.prekeys \cup ({m.body.profile[k].id : k \in Kinds} \ {0})
  /\ \A x \in wire' : x \in wire \/ (x.type = "success" /\ x.n = m.n /\ x.body = NoPublication)
  /\ UNCHANGED <<request, requests>>

NextDoes ==
  \/ (EnsureDoes \/ Imports) /\ Rests
  \/ (Resets \/ Releases \/ Stays) /\ Forgets
  \/ Settles /\ Forgets
  \/ Stays /\ Starts /\ (request'.after_dake = "publication" => client'.is_publishing)
  \/ Marks /\ SendsPublication
  \/ Stays /\ SendsQuestion
  \/ (Stays \/ Uses) /\ Delivers
  \/ Stays /\ \E m \in wire : Accepts(m)

\* The messages.
LEMMA BodyType ==
  ASSUME NEW n \in Nat, now \in 0 .. MaxTime
  PROVE  /\ NothingSent \in SentProfile(n) /\ NothingSent.id = 0
         /\ NoPublication \in BodyUpTo(n)
         /\ NoPublication.prekeys = {} /\ ~NoPublication.question
         /\ NoPublication.profile = [k \in Kinds |-> NothingSent]
         /\ LET q == [NoPublication EXCEPT !.question = TRUE] IN
            /\ q \in BodyUpTo(n) /\ q.question /\ q.prekeys = {}
            /\ q.profile = [k \in Kinds |-> NothingSent]
<1>1. 0 \in Expiries /\ 0 \in 0 .. n
  BY NewExpiry DEF Kinds
<1>2. NothingSent \in SentProfile(n) /\ NothingSent.id = 0
  BY <1>1, Zenon DEF NothingSent, SentProfile
<1>3. [k \in Kinds |-> NothingSent] \in [Kinds -> SentProfile(n)]
  BY <1>2
<1> QED
  BY <1>2, <1>3, Zenon DEF NoPublication, BodyUpTo

LEMMA MsgType ==
  ASSUME NEW a \in Nat, now \in 0 .. MaxTime, NEW type \in MessageTypes,
         NEW n \in 0 .. MaxRequests, NEW x,
         \/ x = Msg(type, n) \/ x = [Msg(type, n) EXCEPT !.ours = FALSE]
         \/ \E id \in 0 .. a : x = [Msg(type, n) EXCEPT !.profile = id]
         \/ \E c \in Nat : x = [Msg(type, n) EXCEPT !.stored = c]
  PROVE  x \in MessageUpTo(a) /\ x.type = type /\ x.n = n /\ x.body = NoPublication
<1>1. NoPublication \in BodyUpTo(a) /\ 0 \in 0 .. a /\ 0 \in Nat
  BY BodyType
<1>2. CASE x = Msg(type, n)
  BY <1>1, <1>2, Zenon DEF Msg, MessageUpTo
<1>3. CASE x = [Msg(type, n) EXCEPT !.ours = FALSE]
  BY <1>1, <1>3, Zenon DEF Msg, MessageUpTo
<1>4. ASSUME NEW id \in 0 .. a, x = [Msg(type, n) EXCEPT !.profile = id]
      PROVE  x \in MessageUpTo(a) /\ x.type = type /\ x.n = n /\ x.body = NoPublication
  BY <1>1, <1>4, Zenon DEF Msg, MessageUpTo
<1>5. ASSUME NEW c \in Nat, x = [Msg(type, n) EXCEPT !.stored = c]
      PROVE  x \in MessageUpTo(a) /\ x.type = type /\ x.n = n /\ x.body = NoPublication
  BY <1>1, <1>5, Zenon DEF Msg, MessageUpTo
<1> QED
  BY <1>2, <1>3, <1>4, <1>5, Zenon

LEMMA MessageFields ==
  ASSUME NEW a \in Nat, NEW m \in MessageUpTo(a)
  PROVE  /\ m.type \in MessageTypes /\ m.n \in 0 .. MaxRequests /\ m.profile \in 0 .. a
         /\ m.body \in BodyUpTo(a) /\ m.stored \in Nat
         /\ m.body.prekeys \in SUBSET (1 .. a)
         /\ m.body.profile \in [Kinds -> SentProfile(a)]
         /\ m.body.question \in BOOLEAN
         /\ [m EXCEPT !.copy = TRUE] \in MessageUpTo(a)
         /\ Like([m EXCEPT !.copy = TRUE], m)
<1>1. m.body \in BodyUpTo(a)
  BY Zenon DEF MessageUpTo
<1>2. /\ m.body.prekeys \in SUBSET (1 .. a) /\ m.body.question \in BOOLEAN
      /\ m.body.profile \in [Kinds -> SentProfile(a)]
  BY <1>1, Zenon DEF BodyUpTo
<1> QED
  BY <1>1, <1>2, Zenon DEF MessageUpTo, Like

\* What is published of the account.
LEMMA PublicationType ==
  ASSUME AccountType
  PROVE  LET b == [NoPublication EXCEPT !.profile = ProfilesToPublish(client),
                                        !.prekeys = PrekeysToPublish(client)]
         IN /\ b \in BodyUpTo(made) /\ ~b.question
            /\ b.profile = ProfilesToPublish(client)
            /\ b.prekeys = PrekeysToPublish(client)
<1>1. /\ made \in Nat /\ now \in 0 .. MaxTime
      /\ client.profile \in [Kinds -> ProfileUpTo(made)]
      /\ client.our_prekeys \in SUBSET PrekeyUpTo(made)
  BY ClientFields, Zenon DEF AccountType
<1>2. \A p \in ProfileUpTo(made) : Sent(p) \in SentProfile(made)
  BY Zenon DEF Sent, SentProfile, ProfileUpTo
<1>3. NothingSent \in SentProfile(made)
  BY <1>1, BodyType, Zenon
<1>4. ProfilesToPublish(client) \in [Kinds -> SentProfile(made)]
  BY <1>1, <1>2, <1>3 DEF ProfilesToPublish
<1>5. PrekeysToPublish(client) \in SUBSET (1 .. made)
  BY <1>1 DEF PrekeysToPublish, PrekeyUpTo
<1> QED
  BY <1>4, <1>5, Zenon DEF NoPublication, BodyUpTo

LEMMA ServerFields ==
  ASSUME NEW a \in Nat, NEW s \in ServerUpTo(a)
  PROVE  /\ s.profile \in [Kinds -> SentProfile(a)] /\ s.prekeys \in SUBSET (1 .. a)
         /\ s.dakes \in SUBSET (0 .. MaxRequests)
         /\ IsFiniteSet(s.prekeys) /\ Cardinality(s.prekeys) \in Nat
<1>1. /\ s.profile \in [Kinds -> SentProfile(a)] /\ s.prekeys \in SUBSET (1 .. a)
      /\ s.dakes \in SUBSET (0 .. MaxRequests)
  BY Zenon DEF ServerUpTo
<1>2. IsFiniteSet(1 .. a)
  BY FS_Interval
<1>3. IsFiniteSet(s.prekeys)
  BY <1>1, <1>2, FS_Subset
<1> QED
  BY <1>1, <1>3, FS_CardinalityType

LEMMA RequestType ==
  ASSUME ManagerType
  PROVE  /\ NoRequest \in Request /\ NoRequest.n = 0 /\ NoRequest.after_dake = "none"
         /\ ~NoRequest.ephemeral_ecdh /\ ~NoRequest.mac_key
         /\ request.n \in 0 .. MaxRequests
         /\ request.ephemeral_ecdh \in BOOLEAN /\ request.mac_key \in BOOLEAN
         /\ LET r == WithMacKeys(request) IN
            /\ r \in Request /\ r.n = request.n /\ ~r.ephemeral_ecdh /\ r.mac_key
            /\ r.after_dake = request.after_dake
<1>1. 0 \in 0 .. MaxRequests /\ 0 \in 0 .. MaxTime /\ request \in Request
  BY AccountBounds, RequestAssumption DEF ManagerType
<1> QED
  BY <1>1, Zenon DEF Request, NoRequest, WithMacKeys

\* The manager rests, whatever is made.
LEMMA RestsType ==
  ASSUME TypeInv, AccountType', Rests, made <= made'
  PROVE  ManagerType'
<1>1. /\ made \in Nat /\ made' \in Nat
      /\ UNCHANGED <<request, requests, wire, server, accepted>>
  BY DEF TypeInv, AccountType, Rests, managerVars
<1>2. MessageUpTo(made) \subseteq MessageUpTo(made') /\ ServerUpTo(made) \subseteq ServerUpTo(made')
  BY <1>1, UpToGrows
<1>3. 1 .. made \subseteq 1 .. made'
  BY <1>1
<1> QED
  BY <1>1, <1>2, <1>3 DEF TypeInv, ManagerType

LEMMA ForgetsType ==
  ASSUME ManagerType, Forgets, made' = made
  PROVE  ManagerType'
<1>1. NoRequest \in Request /\ NoRequest.n = 0
  BY RequestType
<1>2. requests \in Nat
  BY RequestAssumption DEF ManagerType
<1> QED
  BY <1>1, <1>2 DEF ManagerType, Forgets

\* Messages are added.
LEMMA WireType ==
  ASSUME ManagerType, UNCHANGED <<made, requests, accepted>>, request' \in Request,
         request'.n <= requests, server' \in ServerUpTo(made),
         \A x \in wire' : x \in wire \/ (x \in MessageUpTo(made) /\ x.n <= requests)
  PROVE  ManagerType'
  BY DEF ManagerType

\* The account by itself.
LEMMA AloneStep ==
  ASSUME TypeInv,
         \/ (Ensure \/ ImportIdentity \/ Tick) /\ UNCHANGED managerVars
         \/ RestartManager
  PROVE  TypeInv' /\ NextDoes
<1>0. AccountType /\ ManagerType /\ made \in Nat
  BY DEF TypeInv, AccountType
<1>1. CASE Ensure /\ UNCHANGED managerVars
  <2>1. AccountType' /\ EnsureDoes
    BY <1>0, <1>1, EnsureStep
  <2>2. Rests
    BY <1>1 DEF Rests
  <2>3. made <= made'
    <3>1. made <= made /\ made <= made + 1
      BY <1>0
    <3>2. made' = made \/ made' = made + 1 \/ made <= made'
      BY <2>1, Zenon
      DEF EnsureDoes, Stays, LoadsKey, CreatesKey, ExaminesProfile, CreatesProfile,
          DropsExpired, LoadsPrekeys, CreatesPrekeys
    <3> QED
      BY <3>1, <3>2, Zenon
  <2> QED
    BY <2>1, <2>2, <2>3, RestsType, Zenon DEF TypeInv, NextDoes
<1>2. CASE ImportIdentity /\ UNCHANGED managerVars
  <2>1. AccountType' /\ made <= made' /\ used' = used
    BY <1>0, <1>2, ImportDoes DEF ImportIdentity
  <2>2. Rests
    BY <1>2 DEF Rests
  <2>3. Imports
    BY <1>0, <1>2, <2>1, ImportDoes, Zenon DEF Imports
  <2> QED
    BY <2>1, <2>2, <2>3, RestsType, Zenon DEF TypeInv, NextDoes
<1>3. CASE Tick /\ UNCHANGED managerVars
  <2>1. /\ ClientStays /\ DiskStays /\ UNCHANGED made /\ AccountType'
        /\ happened \subseteq happened'
    BY <1>0, <1>3, NothingMadeDoes, TickType
  <2>2. stage = "idle" /\ stage' = "idle" /\ used' = used /\ now <= now' /\ made <= made'
    BY <1>0, <1>3, <2>1, TickType DEF Tick, AccountType
  <2>3. client.is_publishing \in BOOLEAN
    BY <1>0, ClientFields DEF AccountType
  <2>4. Stays
    BY <2>1, <2>2, <2>3, Zenon DEF Stays, ClientStays
  <2>5. Rests
    BY <1>3 DEF Rests
  <2> QED
    BY <2>1, <2>2, <2>4, <2>5, RestsType, Zenon DEF TypeInv, NextDoes, EnsureDoes
<1>4. CASE RestartManager
  <2>1. /\ client' = NewClient /\ UNCHANGED <<disk, made, now, used>> /\ stage' = "idle"
        /\ happened \subseteq happened'
    BY <1>4 DEF RestartManager, Restart, Fault
  <2>2. AccountType' /\ Resets
    BY <1>0, <2>1, ResetDoes, Zenon DEF Resets
  <2>3. Forgets
    BY <1>4 DEF RestartManager, Forgets
  <2>4. ManagerType'
    BY <1>0, <2>1, <2>3, ForgetsType
  <2> QED
    BY <2>2, <2>3, <2>4, Zenon DEF TypeInv, NextDoes
<1> QED
  BY <1>1, <1>2, <1>3, <1>4

\* A request begins, or takes too long.
LEMMA RequestStep ==
  ASSUME TypeInv, Publish \/ RequestStorageInformation \/ CheckAccountRequest
  PROVE  TypeInv' /\ NextDoes
<1>0. AccountType /\ ManagerType /\ made \in Nat /\ client.is_publishing \in BOOLEAN
  BY ClientFields DEF TypeInv, AccountType
<1>1. ASSUME NEW after \in {"publication", "storage"}, StartDake1(after), made' = made,
             UNCHANGED <<server, accepted>>,
             after = "publication" => ~client.is_publishing
      PROVE  ManagerType' /\ Starts /\ request'.after_dake = after
  <2>1. /\ request = NoRequest /\ requests' = requests + 1 /\ requests' \in 0 .. MaxRequests
        /\ request' = NewRequest(requests', after)
        /\ wire' = wire \cup {Dake1(requests')} /\ now \in 0 .. MaxTime
        /\ requests \in Nat
    BY <1>0, <1>1, RequestAssumption DEF StartDake1, ManagerType, AccountType
  <2>2. request' \in Request /\ request'.n = requests' /\ request'.after_dake = after
    BY <2>1, Zenon DEF NewRequest, Request
  <2>3. client.profile["client"].id \in 0 .. made
    <3>1. client.profile \in [Kinds -> ProfileUpTo(made)] /\ "client" \in Kinds
      BY <1>0, ClientFields DEF AccountType, Kinds
    <3>2. client.profile["client"] \in ProfileUpTo(made)
      BY <3>1
    <3> QED
      BY <3>2, Zenon DEF ProfileUpTo
  <2>4. LET x == Dake1(requests') IN
        x \in MessageUpTo(made) /\ x.type = "dake1" /\ x.n = requests' /\ x.body = NoPublication
    <3>1. "dake1" \in MessageTypes
      BY DEF MessageTypes
    <3>2. NoPublication \in BodyUpTo(made) /\ 0 \in Nat
      BY <1>0, <2>1, BodyType
    <3> DEFINE r == requests'
               x == Dake1(r)
    <3>3. \E i \in 0 .. made : x = [Msg("dake1", r) EXCEPT !.profile = i]
      BY <2>3 DEF Dake1
    <3>4. r \in 0 .. MaxRequests /\ made \in Nat /\ now \in 0 .. MaxTime
      BY <1>0, <2>1
    <3> HIDE DEF x, r
    <3>5. x \in MessageUpTo(made) /\ x.type = "dake1" /\ x.n = r /\ x.body = NoPublication
      BY ONLY <3>1, <3>3, <3>4, MsgType
    <3> QED
      BY <3>5 DEF r, x
  <2>5. Starts
    BY <1>1, <2>1, <2>4, Zenon DEF Starts
  <2>6. \A m \in wire' : m \in MessageUpTo(made) /\ m.n <= requests'
    <3>1. \A m \in wire : m \in MessageUpTo(made) /\ m.n <= requests /\ m.n \in Nat
      BY <1>0, RequestAssumption DEF ManagerType, MessageUpTo
    <3>2. \A m \in wire' : m \in wire \/ (m \in MessageUpTo(made) /\ m.n = requests')
      BY <2>1, <2>4, Zenon
    <3> QED
      BY <2>1, <3>1, <3>2
  <2>7. ManagerType'
    BY <1>0, <1>1, <2>1, <2>2, <2>6 DEF ManagerType
  <2> QED
    BY <2>2, <2>5, <2>7
<1>2. CASE Publish
  <2>1. /\ client' = [client EXCEPT !.is_publishing = TRUE]
        /\ UNCHANGED <<disk, stage, now, made, used, happened, server, accepted>>
        /\ StartDake1("publication") /\ ~client.is_publishing
    BY <1>2 DEF Publish, ShouldPublish
  <2>2. /\ AccountType' /\ DiskStays
        /\ ClientIs(client.key, client.profile, client.our_prekeys, TRUE)
    BY <1>0, <2>1, FlagsDoes
  <2>3. Stays
    BY <2>1, <2>2, Zenon DEF Stays
  <2>4. ManagerType' /\ Starts /\ request'.after_dake = "publication"
    BY <1>1, <2>1
  <2>5. client'.is_publishing
    BY <2>2 DEF ClientIs
  <2> QED
    BY <2>2, <2>3, <2>4, <2>5, Zenon DEF TypeInv, NextDoes
<1>3. CASE RequestStorageInformation
  <2>1. /\ UNCHANGED <<client, disk, stage, now, made, used, happened, server, accepted>>
        /\ StartDake1("storage")
    BY <1>3 DEF RequestStorageInformation, accountVars
  <2>2. AccountType' /\ Stays
    BY <1>0, <2>1, NothingDoes
  <2>3. ManagerType' /\ Starts /\ request'.after_dake = "storage"
    BY <1>1, <2>1
  <2> QED
    BY <2>2, <2>3, Zenon DEF TypeInv, NextDoes
<1>4. CASE CheckAccountRequest
  <2>1. /\ UNCHANGED <<client, disk, stage, now, made, used, happened>>
        /\ Forgets
    BY <1>4 DEF CheckAccountRequest, accountVars, Forgets
  <2>2. AccountType' /\ Stays
    BY <1>0, <2>1, NothingDoes
  <2>3. ManagerType'
    BY <1>0, <2>1, ForgetsType
  <2> QED
    BY <2>1, <2>2, <2>3, Zenon DEF TypeInv, NextDoes
<1> QED
  BY <1>2, <1>3, <1>4

\* A message of the server arrives.
LEMMA ReceiveStep ==
  ASSUME TypeInv, NEW m \in wire, Receive(m)
  PROVE  TypeInv' /\ NextDoes
<1>0. /\ AccountType /\ ManagerType /\ made \in Nat /\ client.is_publishing \in BOOLEAN
      /\ stage = "idle" /\ \A k \in Kinds : client.profile[k].id # 0
  BY ClientFields DEF TypeInv, AccountType, Receive, Ready
<1>1. ASSUME CleanRequest(m)
      PROVE  /\ ManagerType' /\ Forgets
             /\ UNCHANGED <<stage, now, made, used, happened>>
             /\ happened \subseteq happened'
  <2>1. Forgets /\ UNCHANGED <<stage, now, made, used, happened>>
    BY <1>1 DEF CleanRequest, Forgets
  <2> QED
    BY <1>0, <2>1, ForgetsType
<1>2. ASSUME NotifyError, CleanRequest(m) PROVE AccountType' /\ Releases
  <2>1. client' = FailedPublished(client) /\ UNCHANGED disk
    BY <1>2 DEF NotifyError
  <2>2. UNCHANGED <<stage, now, made, used, happened>>
    BY <1>1, <1>2
  <2> QED
    BY <1>0, <2>1, <2>2, FailedDoes, Zenon DEF Releases
<1>3. CASE RejectDake2(m) \/ ReceiveFailure(m) \/ ReceiveUnexpected(m)
  <2>1. NotifyError /\ CleanRequest(m)
    BY <1>3 DEF RejectDake2, ReceiveFailure, ReceiveUnexpected
  <2> QED
    BY <1>1, <1>2, <2>1, Zenon DEF TypeInv, NextDoes
<1>4. CASE CrashOnDake2(m)
  <2>1. client' = NewClient /\ UNCHANGED disk /\ CleanRequest(m)
    BY <1>4 DEF CrashOnDake2
  <2>2. UNCHANGED <<stage, now, made, used, happened>> /\ stage' = "idle"
    BY <1>0, <1>1, <2>1
  <2>3. AccountType' /\ Resets
    BY <1>0, <2>1, <2>2, ResetDoes, Zenon DEF Resets
  <2> QED
    BY <1>1, <2>1, <2>3, Zenon DEF TypeInv, NextDoes
<1>5. CASE ReceiveSuccess(m)
  <2>1. /\ client' = Published(client) /\ disk' = StorePublished(disk, client)
        /\ CleanRequest(m) /\ Answered
    BY <1>5 DEF ReceiveSuccess, ValidMac, Answered
  <2>2. UNCHANGED <<stage, now, made, used, happened>>
    BY <1>1, <2>1
  <2>3. AccountType'
    BY <1>0, <2>1, <2>2, PublishedDoes
  <2>4. Settles
    BY <1>0, <2>1, <2>2, PublishedDoes, Zenon DEF Settles
  <2> QED
    BY <1>1, <2>1, <2>3, <2>4, Zenon DEF TypeInv, NextDoes
<1>6. CASE ReceiveStorageStatus(m)
  <2>1. /\ client' = IF m.stored < MinStored
                 THEN [client EXCEPT !.should_publish = TRUE,
                         !.prekey_msgs_num_to_publish = MaxPublished - m.stored]
                 ELSE client
        /\ UNCHANGED disk /\ CleanRequest(m)
    BY <1>6 DEF ReceiveStorageStatus
  <2>2. UNCHANGED <<stage, now, made, used, happened>>
    BY <1>1, <2>1
  <2>3. m.stored \in Nat
    BY <1>0, MessageFields DEF ManagerType
  <2>4. \/ client' = client
        \/ \E n \in 0 .. MaxPublished :
             client' = [client EXCEPT !.should_publish = TRUE,
                                      !.prekey_msgs_num_to_publish = n]
    <3>1. m.stored < MinStored => MaxPublished - m.stored \in 0 .. MaxPublished
      BY <2>3, PrekeysAssumption
    <3> QED
      BY <2>1, <3>1, Zenon
  <2>5. /\ AccountType' /\ DiskStays
        /\ ClientIs(client.key, client.profile, client.our_prekeys, client.is_publishing)
    BY <1>0, <2>1, <2>2, <2>4, FlagsDoes, Zenon
  <2>6. Stays
    BY <1>0, <1>1, <2>1, <2>2, <2>5, Zenon DEF Stays
  <2> QED
    BY <1>1, <2>1, <2>5, <2>6, Zenon DEF TypeInv, NextDoes
<1>7. CASE ReceiveForOther(m)
  <2>1. UNCHANGED <<client, disk>> /\ CleanRequest(m)
    BY <1>7 DEF ReceiveForOther
  <2>2. AccountType' /\ Stays
    BY <1>0, <1>1, <2>1, NothingDoes
  <2> QED
    BY <1>1, <2>1, <2>2, Zenon DEF TypeInv, NextDoes
<1>8. CASE ReceiveDake2(m)
  <2>1. /\ UNCHANGED <<disk, stage, now, made, used, happened, requests, server, accepted>>
        /\ request.ephemeral_ecdh /\ m.n = request.n /\ request' = WithMacKeys(request)
        /\ server \in ServerUpTo(made) /\ now \in 0 .. MaxTime /\ request.n <= requests
    BY <1>0, <1>8 DEF ReceiveDake2, SendDake3, ValidDake2, ManagerType, AccountType
  <2>2. request' \in Request /\ request'.n = request.n /\ request.n \in 0 .. MaxRequests
    BY <1>0, <2>1, RequestType
  <2>3. ASSUME NEW b \in BodyUpTo(made), NEW x, x = [Msg("dake3", m.n) EXCEPT !.body = b],
               wire' = (wire \ {m}) \cup {x}
        PROVE  ManagerType' /\ Continues(b)
    <3>1. "dake3" \in MessageTypes
      BY DEF MessageTypes
    <3>2. x \in MessageUpTo(made) /\ x.type = "dake3" /\ x.n = m.n /\ x.body = b
      <4>1. m.n \in 0 .. MaxRequests /\ made \in Nat /\ now \in 0 .. MaxTime
        BY <1>0, <2>1, <2>2
      <4>2. 0 \in 0 .. made /\ 0 \in Nat
        BY <1>0
      <4> QED
        BY ONLY <2>3, <3>1, <4>1, <4>2, b \in BodyUpTo(made), Zenon DEF Msg, MessageUpTo
    <3>3. \A y \in wire' : y \in wire \/ y = x
      BY <2>3
    <3>4. ManagerType'
      BY <1>0, <2>1, <2>2, <3>2, <3>3, WireType
    <3>5. Continues(b)
      BY <2>1, <3>2, <3>3, Zenon DEF Continues
    <3> QED
      BY <3>4, <3>5
  <2>4. CASE request.after_dake = "publication"
    <3> DEFINE b == [NoPublication EXCEPT !.profile = ProfilesToPublish(client),
                                          !.prekeys = PrekeysToPublish(client)]
    <3>1. /\ wire' = (wire \ {m}) \cup {[Msg("dake3", m.n) EXCEPT !.body = b]}
          /\ client' = MarkPublishing(client)
      BY <1>8, <2>4 DEF ReceiveDake2, SendDake3, PublicationMessage
    <3>2. b \in BodyUpTo(made)
      BY <1>0, PublicationType
    <3> HIDE DEF b
    <3>3. ManagerType' /\ Continues(b)
      BY <2>3, <3>1, <3>2
    <3>4. AccountType' /\ Marks
      BY <1>0, <2>1, <3>1, MarkDoes, Zenon DEF Marks
    <3>5. SendsPublication
      BY <1>0, <2>4, <3>3, Zenon DEF SendsPublication, b
    <3> QED
      BY <3>3, <3>4, <3>5, Zenon DEF TypeInv, NextDoes
  <2>5. CASE request.after_dake # "publication"
    <3> DEFINE b == [NoPublication EXCEPT !.question = TRUE]
    <3>1. /\ wire' = (wire \ {m}) \cup {[Msg("dake3", m.n) EXCEPT !.body = b]}
          /\ client' = client
      BY <1>8, <2>5 DEF ReceiveDake2, SendDake3, StorageInformationRequest
    <3>2. b \in BodyUpTo(made)
      BY <1>0, <2>1, BodyType
    <3> HIDE DEF b
    <3>3. ManagerType' /\ Continues(b)
      BY <2>3, <3>1, <3>2
    <3>4. AccountType' /\ Stays
      BY <1>0, <2>1, <3>1, NothingDoes
    <3>5. SendsQuestion
      BY <2>5, <3>3, Zenon DEF SendsQuestion, b
    <3> QED
      BY <3>3, <3>4, <3>5, Zenon DEF TypeInv, NextDoes
  <2> QED
    BY <2>4, <2>5
<1> QED
  BY <1>3, <1>4, <1>5, <1>6, <1>7, <1>8 DEF Receive

\* The network, the server and the peers.
LEMMA EnvironmentStep ==
  ASSUME TypeInv, stage = "idle", Environment
  PROVE  TypeInv' /\ NextDoes
<1>0. /\ AccountType /\ ManagerType /\ made \in Nat /\ now \in 0 .. MaxTime
      /\ server \in ServerUpTo(made) /\ request \in Request /\ request.n <= requests
      /\ 0 \in 0 .. MaxRequests
  BY RequestAssumption DEF TypeInv, AccountType, ManagerType
<1>1. /\ server.profile \in [Kinds -> SentProfile(made)] /\ server.prekeys \in SUBSET (1 .. made)
      /\ server.dakes \in SUBSET (0 .. MaxRequests) /\ Cardinality(server.prekeys) \in Nat
  BY <1>0, ServerFields, Zenon
<1>2. ASSUME NEW m \in wire
      PROVE  /\ m \in MessageUpTo(made) /\ m.n <= requests /\ m.n \in 0 .. MaxRequests
             /\ m.profile \in 0 .. made /\ m.body \in BodyUpTo(made)
             /\ m.body.prekeys \in SUBSET (1 .. made)
             /\ m.body.profile \in [Kinds -> SentProfile(made)]
  <2>1. m \in MessageUpTo(made) /\ m.n <= requests
    BY <1>0 DEF ManagerType
  <2> QED
    BY <1>0, <2>1, MessageFields, Zenon
\* One message more, or one instead of another.
<1>3. ASSUME NEW x, x \in MessageUpTo(made), x.n <= requests,
             \/ \E m \in wire : Like(x, m)
             \/ x.body = NoPublication /\ (x.type \notin {"dake3", "success"} \/ x.n = 0),
             wire' \subseteq wire \cup {x}, UNCHANGED <<made, request, requests, accepted>>,
             server' \in ServerUpTo(made), server'.profile = server.profile,
             server'.prekeys \subseteq server.prekeys
      PROVE  ManagerType' /\ Delivers
  <2>1. ManagerType'
    BY <1>0, <1>3, WireType
  <2>2. \A y \in wire : Like(y, y)
    BY DEF Like
  <2>3. Delivers
    BY <1>3, <2>2, Zenon DEF Delivers
  <2> QED
    BY <2>1, <2>3
\* The server has a DAKE more or less.
<1>4. ASSUME NEW d \in SUBSET (0 .. MaxRequests), server' = [server EXCEPT !.dakes = d]
      PROVE  /\ server' \in ServerUpTo(made) /\ server'.profile = server.profile
             /\ server'.prekeys = server.prekeys
  BY <1>0, <1>4, Zenon DEF ServerUpTo
<1>5. ASSUME NEW id, server' = [server EXCEPT !.prekeys = @ \ {id}]
      PROVE  /\ server' \in ServerUpTo(made) /\ server'.profile = server.profile
             /\ server'.prekeys \subseteq server.prekeys
  <2> DEFINE p == server.prekeys \ {id}
  <2>1. p \in SUBSET (1 .. made) /\ server' = [server EXCEPT !.prekeys = p] /\ p \subseteq server.prekeys
    BY <1>1, <1>5
  <2> HIDE DEF p
  <2>2. /\ server' \in ServerUpTo(made) /\ server'.profile = server.profile
        /\ server'.prekeys = p
    BY <1>0, <2>1, Zenon DEF ServerUpTo
  <2> QED
    BY <2>1, <2>2
<1>6. ASSUME NEW m \in wire, Repeat(m) PROVE TypeInv' /\ NextDoes
  <2> DEFINE x == [m EXCEPT !.copy = TRUE]
  <2>1. x \in MessageUpTo(made) /\ Like(x, m)
    BY <1>0, <1>2, MessageFields, Zenon
  <2>2. /\ wire' \subseteq wire \cup {x} /\ UNCHANGED <<request, requests, accepted, server>>
        /\ UNCHANGED <<client, disk, stage, now, made, used, happened>>
    BY <1>6 DEF Repeat
  <2> HIDE DEF x
  <2>3. x.n <= requests
    BY <1>2, <2>1 DEF Like
  <2>4. ManagerType' /\ Delivers
    BY <1>0, <1>3, <2>1, <2>2, <2>3
  <2>5. AccountType' /\ Stays
    BY <1>0, <2>2, NothingDoes
  <2> QED
    BY <2>4, <2>5, Zenon DEF TypeInv, NextDoes
<1>7. ASSUME NEW m \in wire, ServerReceiveDake1(m) PROVE TypeInv' /\ NextDoes
  <2> DEFINE x == [Msg("dake2", m.n) EXCEPT !.profile = m.profile]
  <2>1. /\ wire' \subseteq wire \cup {x} /\ UNCHANGED <<request, requests, accepted>>
        /\ UNCHANGED <<client, disk, stage, now, made, used, happened>>
        /\ \E d \in SUBSET (0 .. MaxRequests) : server' = [server EXCEPT !.dakes = d]
    <3>1. server.dakes \cup {m.n} \in SUBSET (0 .. MaxRequests)
      BY <1>1, <1>2
    <3>2. server' = [server EXCEPT !.dakes = server.dakes \cup {m.n}]
      BY <1>7, Zenon DEF ServerReceiveDake1
    <3> QED
      BY <1>7, <3>1, <3>2 DEF ServerReceiveDake1, accountVars
  <2>2. \E i \in 0 .. made : x = [Msg("dake2", m.n) EXCEPT !.profile = i]
    BY <1>2
  <2>3. "dake2" \in MessageTypes
    BY DEF MessageTypes
  <2> HIDE DEF x
  <2>4. x \in MessageUpTo(made) /\ x.type = "dake2" /\ x.n = m.n /\ x.body = NoPublication
    <3>1. m.n \in 0 .. MaxRequests /\ made \in Nat /\ now \in 0 .. MaxTime
      BY <1>0, <1>2
    <3> QED
      BY ONLY <2>2, <2>3, <3>1, MsgType
  <2>5. x.n <= requests /\ x.type \notin {"dake3", "success"}
    BY <1>2, <2>4
  <2>6. ManagerType' /\ Delivers
    BY <1>3, <1>4, <2>1, <2>4, <2>5
  <2>7. AccountType' /\ Stays
    BY <1>0, <2>1, NothingDoes
  <2> QED
    BY <2>6, <2>7, Zenon DEF TypeInv, NextDoes
<1>8. ASSUME NEW m \in wire, ServerRefuse(m) \/ ServerReportStorage(m)
      PROVE  TypeInv' /\ NextDoes
  <2>1. PICK x : /\ \/ x = Msg("failure", m.n)
                    \/ \E c \in Nat : x = [Msg("storage_status", m.n) EXCEPT !.stored = c]
                 /\ wire' = (wire \ {m}) \cup {x}
    BY <1>1, <1>8, Zenon DEF ServerRefuse, ServerReportStorage
  <2>2. /\ wire' \subseteq wire \cup {x} /\ UNCHANGED <<request, requests, accepted>>
        /\ UNCHANGED <<client, disk, stage, now, made, used, happened>>
        /\ \E d \in SUBSET (0 .. MaxRequests) : server' = [server EXCEPT !.dakes = d]
    <3>1. server.dakes \ {m.n} \in SUBSET (0 .. MaxRequests)
      BY <1>1, <1>2
    <3>2. server' = [server EXCEPT !.dakes = server.dakes \ {m.n}]
      BY <1>8, Zenon DEF ServerRefuse, ServerReportStorage
    <3> QED
      BY <1>8, <2>1, <3>1, <3>2 DEF ServerRefuse, ServerReportStorage, accountVars
  <2>3. {"failure", "storage_status"} \subseteq MessageTypes
    BY DEF MessageTypes
  <2>4. /\ x \in MessageUpTo(made) /\ x.type \in {"failure", "storage_status"}
        /\ x.n = m.n /\ x.body = NoPublication
    <3>1. m.n \in 0 .. MaxRequests /\ made \in Nat /\ now \in 0 .. MaxTime
      BY <1>0, <1>2
    <3>2. CASE x = Msg("failure", m.n)
      BY ONLY <2>3, <3>1, <3>2, MsgType
    <3>3. CASE \E c \in Nat : x = [Msg("storage_status", m.n) EXCEPT !.stored = c]
      BY ONLY <2>3, <3>1, <3>3, MsgType
    <3> QED
      BY <2>1, <3>2, <3>3
  <2>5. x.n <= requests /\ x.type \notin {"dake3", "success"}
    BY <1>2, <2>4
  <2>6. ManagerType' /\ Delivers
    BY <1>3, <1>4, <2>2, <2>4, <2>5
  <2>7. AccountType' /\ Stays
    BY <1>0, <2>2, NothingDoes
  <2> QED
    BY <2>6, <2>7, Zenon DEF TypeInv, NextDoes
<1>9. ASSUME NEW type \in {"dake2", "success"}, ServerAnswerOther(type)
      PROVE  TypeInv' /\ NextDoes
  <2> DEFINE x == [Msg(type, 0) EXCEPT !.ours = FALSE]
  <2>1. /\ wire' \subseteq wire \cup {x} /\ UNCHANGED <<request, requests, accepted, server>>
        /\ UNCHANGED <<client, disk, stage, now, made, used, happened>>
    BY <1>9 DEF ServerAnswerOther
  <2>2. type \in MessageTypes /\ x = [Msg(type, 0) EXCEPT !.ours = FALSE]
    BY DEF MessageTypes
  <2> HIDE DEF x
  <2>3. x \in MessageUpTo(made) /\ x.n = 0 /\ x.body = NoPublication
    BY ONLY <1>0, <2>2, MsgType
  <2>4. x.n <= requests
    BY <1>0, <2>3 DEF ManagerType
  <2>5. ManagerType' /\ Delivers
    BY <1>0, <1>3, <2>1, <2>3, <2>4
  <2>6. AccountType' /\ Stays
    BY <1>0, <2>1, NothingDoes
  <2> QED
    BY <2>5, <2>6, Zenon DEF TypeInv, NextDoes
<1>10. ASSUME NEW id, PeerUsesPrekey(id) PROVE TypeInv' /\ NextDoes
  <2>1. /\ server' = [server EXCEPT !.prekeys = @ \ {id}]
        /\ UsePrekey(id) /\ UNCHANGED <<request, requests, wire, accepted>>
    BY <1>10 DEF PeerUsesPrekey
  <2>2. AccountType' /\ Uses /\ made' = made
    BY <1>0, <2>1, UseDoes, Zenon DEF Uses
  <2>3. ManagerType'
    BY <1>0, <1>5, <2>1, <2>2, WireType
  <2>4. Delivers
    BY <1>5, <2>1, Zenon DEF Delivers, Like
  <2> QED
    BY <2>2, <2>3, <2>4, Zenon DEF TypeInv, NextDoes
<1>11. ASSUME NEW id, PeerIsRefused(id) PROVE TypeInv' /\ NextDoes
  <2>1. /\ server' = [server EXCEPT !.prekeys = @ \ {id}]
        /\ UNCHANGED <<client, disk, stage, now, made, used, happened>>
        /\ UNCHANGED <<request, requests, wire, accepted>>
    BY <1>11 DEF PeerIsRefused, accountVars
  <2>2. AccountType' /\ Stays
    BY <1>0, <2>1, NothingDoes
  <2>3. ManagerType'
    BY <1>0, <1>5, <2>1, WireType
  <2>4. Delivers
    BY <1>5, <2>1, Zenon DEF Delivers, Like
  <2> QED
    BY <2>2, <2>3, <2>4, Zenon DEF TypeInv, NextDoes
<1>12. ASSUME NEW m \in wire, ServerAccept(m) PROVE TypeInv' /\ NextDoes
  <2> DEFINE x == Msg("success", m.n)
             P == [k \in Kinds |-> IF m.body.profile[k].id # 0
                                     THEN m.body.profile[k] ELSE server.profile[k]]
  <2>1. /\ wire' = (wire \ {m}) \cup {x} /\ UNCHANGED <<request, requests>>
        /\ UNCHANGED <<client, disk, stage, now, made, used, happened>>
        /\ m.type = "dake3" /\ ~m.body.question
        /\ server' = [profile |-> P, prekeys |-> server.prekeys \cup m.body.prekeys,
                      dakes |-> server.dakes \ {m.n}]
        /\ accepted' = accepted \cup m.body.prekeys \cup
                         ({m.body.profile[k].id : k \in Kinds} \ {0})
    BY <1>12 DEF ServerAccept, accountVars
  <2>2. /\ P \in [Kinds -> SentProfile(made)] /\ server.dakes \ {m.n} \in SUBSET (0 .. MaxRequests)
        /\ server.prekeys \cup m.body.prekeys \in SUBSET (1 .. made)
    BY <1>1, <1>2
  <2>3. x = Msg("success", m.n) /\ "success" \in MessageTypes
    BY DEF MessageTypes
  <2> HIDE DEF x, P
  <2>4. x \in MessageUpTo(made) /\ x.type = "success" /\ x.n = m.n /\ x.body = NoPublication
    <3>1. m.n \in 0 .. MaxRequests /\ made \in Nat /\ now \in 0 .. MaxTime
      BY <1>0, <1>2
    <3> QED
      BY ONLY <2>3, <3>1, MsgType
  <2>5. /\ server' \in ServerUpTo(made) /\ server'.profile = P
        /\ server'.prekeys = server.prekeys \cup m.body.prekeys
    BY <2>1, <2>2, Zenon DEF ServerUpTo
  <2>6. Accepts(m)
    BY <2>1, <2>4, <2>5, Zenon DEF Accepts, P
  <2>7. accepted' \subseteq 1 .. made
    <3>1. \A k \in Kinds : m.body.profile[k].id \in 0 .. made
      BY <1>2 DEF SentProfile
    <3>2. {m.body.profile[k].id : k \in Kinds} \ {0} \subseteq 1 .. made
      BY <1>0, <3>1
    <3> QED
      BY <1>0, <1>2, <2>1, <3>2 DEF ManagerType
  <2>8. \A y \in wire' : y \in MessageUpTo(made) /\ y.n <= requests
    BY <1>0, <1>2, <2>1, <2>4
  <2>9. ManagerType'
    BY <1>0, <2>1, <2>5, <2>7, <2>8 DEF ManagerType
  <2>10. AccountType' /\ Stays
    BY <1>0, <2>1, NothingDoes
  <2> QED
    BY <2>6, <2>9, <2>10, Zenon DEF TypeInv, NextDoes
<1> QED
  BY <1>6, <1>7, <1>8, <1>9, <1>10, <1>11, <1>12, Zenon DEF Environment

LEMMA NextStep ==
  ASSUME TypeInv, Next
  PROVE  TypeInv' /\ NextDoes
  BY AloneStep, RequestStep, ReceiveStep, EnvironmentStep, Zenon DEF Next

-----------------------------------------------------------------------------
(***************************************************************************)
(* The types, always.                                                      *)
(***************************************************************************)

LEMMA TypeInit ==
  ASSUME Init
  PROVE  TypeInv
<1>1. /\ client = NewClient /\ disk = NoFiles /\ stage = "idle" /\ now = 0 /\ made = 0
      /\ request = NoRequest /\ requests = 0 /\ wire = {} /\ accepted = {}
      /\ server = [profile |-> [k \in Kinds |-> NothingSent], prekeys |-> {}, dakes |-> {}]
  BY DEF Init, AccountInit
<1>2. now \in 0 .. MaxTime /\ made \in Nat /\ requests \in 0 .. MaxRequests /\ 0 <= MaxMade
  BY <1>1, AccountBounds, RequestAssumption
<1>3. client \in ClientUpTo(made) /\ disk \in FilesUpTo(made)
  BY <1>1, <1>2, NewClientType, NoFilesType, Zenon
<1>4. stage \in Stages \ KeyNames /\ made + Left(stage) <= MaxMade
  BY <1>1, <1>2, LeftValues DEF Stages, KeyNames
<1>5. AccountType
  BY <1>2, <1>3, <1>4 DEF AccountType
<1>6. request \in Request /\ request.n = 0
  <2>1. 0 \in 0 .. MaxRequests /\ 0 \in 0 .. MaxTime
    BY AccountBounds, RequestAssumption
  <2> QED
    BY <1>1, <2>1, Zenon DEF Request, NoRequest
<1>7. server \in ServerUpTo(made)
  <2>1. [k \in Kinds |-> NothingSent] \in [Kinds -> SentProfile(made)]
    BY <1>2, BodyType
  <2>2. {} \in SUBSET (1 .. made) /\ {} \in SUBSET (0 .. MaxRequests)
    OBVIOUS
  <2> QED
    BY <1>1, <2>1, <2>2, Zenon DEF ServerUpTo
<1>8. ManagerType
  BY <1>1, <1>2, <1>6, <1>7 DEF ManagerType
<1> QED
  BY <1>5, <1>8 DEF TypeInv

LEMMA TypeAlways == Spec => []TypeInv
<1>1. Init => TypeInv
  BY TypeInit
<1>2. TypeInv /\ [Next]_vars => TypeInv'
  <2> SUFFICES ASSUME TypeInv, [Next]_vars PROVE TypeInv'
    OBVIOUS
  <2>1. CASE Next
    BY <2>1, NextStep
  <2>2. CASE UNCHANGED vars
    BY <2>2 DEF vars, TypeInv, AccountType, ManagerType
  <2> QED
    BY <2>1, <2>2
<1> QED
  BY <1>1, <1>2, PTL DEF Spec

LEMMA TypeImplied ==
  ASSUME TypeInv
  PROVE  TypeOK
<1>1. /\ made \in Nat /\ made <= MaxMade /\ MaxMade \in Nat /\ stage \in Stages
      /\ client \in ClientUpTo(made) /\ disk \in FilesUpTo(made)
  BY LeftValues, AccountBounds DEF TypeInv, AccountType
<1>2. client \in ClientUpTo(MaxMade) /\ disk \in FilesUpTo(MaxMade)
  BY <1>1, UpToGrows
<1>3. /\ ProfileUpTo(MaxMade) = Profile /\ FileProfileUpTo(MaxMade) = FileProfile
      /\ PrekeyUpTo(MaxMade) = PrekeyMessage /\ FilesUpTo(MaxMade) = Files
  BY Zenon DEF ProfileUpTo, Profile, FileProfileUpTo, FileProfile, PrekeyUpTo,
               PrekeyMessage, FilesUpTo, FilePrekeyUpTo, Files
<1>4. \A m \in wire : m.type \in MessageTypes /\ m.n \in 0 .. MaxRequests
  BY <1>1, MessageFields DEF TypeInv, ManagerType
<1>5. request \in Request /\ server.prekeys \cup accepted \subseteq 1 .. made
  BY <1>1, ServerFields DEF TypeInv, ManagerType
<1> QED
  BY <1>1, <1>2, <1>3, <1>4, <1>5, Zenon DEF TypeOK, ClientUpTo

\* The account in memory and in its files, the request and the messages of the prekey
\* manager have the types of the model: no call of otrng_client_ensure_correct_state
\* makes more than it was allowed when it began, whatever fails in it and whatever is
\* imported, loaded or published before (client_orchestration.c, prekey_manager.c).
THEOREM TypeCorrect == Spec => []TypeOK
  BY TypeAlways, TypeImplied, PTL

-----------------------------------------------------------------------------
(***************************************************************************)
(* Prekey messages.  Once an account has prekey messages in memory, its    *)
(* file has the same, or more if a read has failed; what has left the      *)
(* account is in the file, or used.                                        *)
(***************************************************************************)

InFile(ms) == {PrekeyMessageToFile(m) : m \in ms}

PrekeysInStep ==
  /\ InFile(client.our_prekeys) \subseteq disk.our_prekeys
  /\ "load" \notin happened /\ client.our_prekeys # {}
       => disk.our_prekeys = InFile(client.our_prekeys)
  /\ MinStored = 0 => client.our_prekeys = {} /\ disk.our_prekeys = {}

KeptIds == Ids(disk.our_prekeys) \cup used

PrekeysInv ==
  /\ PrekeysInStep
  /\ "load" \notin happened =>
       /\ server.prekeys \subseteq KeptIds
       /\ \A m \in wire : m.body.prekeys \subseteq KeptIds

LEMMA MarksInFile ==
  ASSUME NEW n \in Nat, NEW ms \in SUBSET PrekeyUpTo(n)
  PROVE  /\ InFile({Marked(m) : m \in ms}) = InFile(ms)
         /\ InFile({Released(m) : m \in ms}) = InFile(ms)
         /\ Ids({Settled(m) : m \in ms}) = Ids(ms)
         /\ (\A m \in ms : ~m.is_publishing) => {Settled(m) : m \in ms} = ms
         /\ Ids(InFile(ms)) = Ids(ms)
<1>1. \A m \in ms : /\ Settled(m).id = m.id /\ (~m.is_publishing => Settled(m) = m)
                    /\ Released(m).id = m.id /\ Released(m).should_publish = m.should_publish
                    /\ Marked(m).id = m.id /\ Marked(m).should_publish = m.should_publish
  <2>1. \A m \in ms : m \in PrekeyUpTo(n)
    OBVIOUS
  <2> QED
    BY <2>1, PrekeyMarks, ZenonT(40)
<1>2. \A m \in ms : /\ PrekeyMessageToFile(Marked(m)) = PrekeyMessageToFile(m)
                    /\ PrekeyMessageToFile(Released(m)) = PrekeyMessageToFile(m)
                    /\ PrekeyMessageToFile(m).id = m.id
  BY <1>1, Zenon DEF PrekeyMessageToFile
<1>3. InFile({Marked(m) : m \in ms}) = InFile(ms) /\ InFile({Released(m) : m \in ms}) = InFile(ms)
  BY <1>2 DEF InFile
<1>4. Ids({Settled(m) : m \in ms}) = Ids(ms) /\ Ids(InFile(ms)) = Ids(ms)
  BY <1>1, <1>2 DEF Ids, InFile
<1>5. (\A m \in ms : ~m.is_publishing) => {Settled(m) : m \in ms} = ms
  BY <1>1, ZenonT(40)
<1> QED
  BY <1>3, <1>4, <1>5

\* A step of the account.
LEMMA PrekeysInStepKept ==
  ASSUME AccountType, AccountType', PrekeysInStep, AccountDoes
  PROVE  /\ PrekeysInStep'
         /\ happened \subseteq happened'
         /\ "load" \notin happened' => KeptIds \subseteq KeptIds'
<1> DEFINE ms == client.our_prekeys
           fs == disk.our_prekeys
<1>1. /\ made \in Nat /\ ms \in SUBSET PrekeyUpTo(made) /\ fs \in SUBSET FilePrekeyUpTo(made)
      /\ disk \in FilesUpTo(made)
  BY ClientFields, FilesFields, Zenon DEF AccountType
<1>2. /\ LoadPrekeyMessages(disk) \in SUBSET PrekeyUpTo(made)
      /\ InFile(LoadPrekeyMessages(disk)) = fs
  BY <1>1, PrekeyFiles, Zenon DEF InFile
<1>3. MinStored = 0 => Enough(ms)
  <2>1. Cardinality(ms) \in Nat
    BY <1>1, PrekeysFinite, Zenon
  <2> QED
    BY <2>1 DEF Enough
<1>4. ASSUME client'.our_prekeys = ms, disk'.our_prekeys = fs, used' = used,
             happened \subseteq happened'
      PROVE  PrekeysInStep' /\ KeptIds' = KeptIds
  BY <1>4 DEF PrekeysInStep, KeptIds, Ids, InFile
<1>5. CASE Stays \/ LoadsKey \/ CreatesKey \/ ExaminesProfile \/ CreatesProfile \/ DropsExpired
  <2>1. /\ client'.our_prekeys = ms /\ disk'.our_prekeys = fs /\ used' = used
        /\ happened \subseteq happened'
    BY <1>5, Zenon
    DEF Stays, LoadsKey, CreatesKey, ExaminesProfile, CreatesProfile, DropsExpired, Examined,
        ClientIs, DiskIs, ClientStays, DiskStays
  <2> QED
    BY <1>4, <2>1
<1>6. CASE LoadsPrekeys
  <2>1. /\ disk'.our_prekeys = fs /\ used' = used /\ happened \subseteq happened'
        /\ client'.our_prekeys \subseteq LoadPrekeyMessages(disk) /\ ~Enough(ms)
        /\ client'.our_prekeys = LoadPrekeyMessages(disk) \/ "load" \in happened'
    BY <1>6 DEF LoadsPrekeys, ClientIs, DiskStays, DiskIs
  <2>2. InFile(client'.our_prekeys) \subseteq InFile(LoadPrekeyMessages(disk))
    BY <2>1 DEF InFile
  <2>3. PrekeysInStep'
    BY <1>2, <1>3, <2>1, <2>2 DEF PrekeysInStep
  <2> QED
    BY <2>1, <2>3 DEF KeptIds, Ids
<1>7. CASE CreatesPrekeys
  <2>1. PICK old \in SUBSET PrekeyUpTo(made) :
          /\ Creates(old) /\ ~Enough(ms) /\ used' = used /\ happened \subseteq happened'
          /\ \/ old = LoadPrekeyMessages(disk)
             \/ "load" \in happened'
    BY <1>7 DEF CreatesPrekeys
  <2>2. PICK new \in SUBSET PrekeyUpTo(made') :
          /\ client'.our_prekeys = old \cup new
          /\ disk'.our_prekeys = {PrekeyMessageToFile(m) : m \in old \cup new}
    BY <2>1 DEF Creates, ClientIs, DiskIs
  <2>3. disk'.our_prekeys = InFile(client'.our_prekeys)
    BY <2>2 DEF InFile
  <2>4. PrekeysInStep'
    BY <1>3, <2>1, <2>3 DEF PrekeysInStep
  <2>5. InFile(old) \subseteq disk'.our_prekeys
    BY <2>2 DEF InFile
  <2>6. "load" \notin happened' => KeptIds \subseteq KeptIds'
    <3> SUFFICES ASSUME "load" \notin happened' PROVE KeptIds \subseteq KeptIds'
      OBVIOUS
    <3>1. fs \subseteq disk'.our_prekeys
      BY <1>2, <2>1, <2>5
    <3> QED
      BY <2>1, <3>1 DEF KeptIds, Ids
  <2> QED
    BY <2>1, <2>4, <2>6
<1>8. CASE Imports
  <2>1. /\ client'.our_prekeys = ms /\ disk'.our_prekeys = fs /\ used' = used
        /\ happened \subseteq happened'
    BY <1>8, Zenon DEF Imports, ClientIs, DiskStays, DiskIs
  <2> QED
    BY <1>4, <2>1
<1>9. CASE Resets
  <2>1. /\ client'.our_prekeys = {} /\ disk'.our_prekeys = fs /\ used' = used
        /\ happened \subseteq happened'
    BY <1>9, Zenon DEF Resets, ClientIs, DiskStays, DiskIs
  <2> QED
    BY <2>1 DEF PrekeysInStep, KeptIds, Ids, InFile
<1>10. CASE Uses
  <2>1. PICK id : /\ client'.our_prekeys = {m \in ms : m.id # id}
                  /\ disk'.our_prekeys = {PrekeyMessageToFile(m) : m \in {x \in ms : x.id # id}}
                  /\ ms # {} /\ used' = used \cup {id} /\ happened' = happened
    BY <1>10 DEF Uses, ClientIs, DiskIs
  <2>2. /\ disk'.our_prekeys = InFile(client'.our_prekeys)
        /\ "load" \notin happened => fs = InFile(ms)
    BY <2>1 DEF InFile, PrekeysInStep
  <2>3. PrekeysInStep'
    BY <2>1, <2>2 DEF PrekeysInStep
  <2>4. Ids(InFile(ms)) = Ids(ms) /\ Ids(InFile(client'.our_prekeys)) = Ids(client'.our_prekeys)
    <3>1. client'.our_prekeys \in SUBSET PrekeyUpTo(made)
      BY <1>1, <2>1
    <3> QED
      BY <1>1, <3>1, MarksInFile
  <2>5. Ids(ms) \subseteq Ids(client'.our_prekeys) \cup {id}
    BY <2>1 DEF Ids
  <2>6. "load" \notin happened => KeptIds \subseteq KeptIds'
    BY <2>1, <2>2, <2>4, <2>5 DEF KeptIds, Ids
  <2> QED
    BY <2>1, <2>3, <2>6
<1>11. CASE Marks \/ Releases
  <2>1. /\ client'.our_prekeys \in {{Marked(m) : m \in ms}, {Released(m) : m \in ms}}
        /\ disk'.our_prekeys = fs /\ used' = used /\ happened' = happened
    BY <1>11, Zenon DEF Marks, Releases, ClientIs, DiskStays, DiskIs
  <2>2. InFile(client'.our_prekeys) = InFile(ms) /\ (ms = {} <=> client'.our_prekeys = {})
    <3>1. /\ InFile({Marked(m) : m \in ms}) = InFile(ms)
          /\ InFile({Released(m) : m \in ms}) = InFile(ms)
      BY <1>1, MarksInFile
    <3>2. /\ ms = {} <=> {Marked(m) : m \in ms} = {}
          /\ ms = {} <=> {Released(m) : m \in ms} = {}
      OBVIOUS
    <3> QED
      BY <2>1, <3>1, <3>2, Zenon
  <2> QED
    BY <2>1, <2>2 DEF PrekeysInStep, KeptIds, Ids
<1>12. CASE Settles
  <2> DEFINE M == {Settled(m) : m \in ms}
  <2>1. /\ client'.our_prekeys = M
        /\ disk'.our_prekeys = IF \E m \in ms : m.is_publishing THEN InFile(M) ELSE fs
        /\ used' = used /\ happened' = happened
    BY <1>12, Zenon DEF Settles, ClientIs, DiskIs, InFile
  <2>2. Ids(M) = Ids(ms) /\ ((\A m \in ms : ~m.is_publishing) => M = ms)
    BY <1>1, MarksInFile
  <2>3. M \in SUBSET PrekeyUpTo(made)
    BY <1>1, MarksType, Zenon DEF AccountType
  <2>4. Ids(InFile(M)) = Ids(M) /\ Ids(InFile(ms)) = Ids(ms)
    BY <1>1, <2>3, MarksInFile
  <2>5. M = {} <=> ms = {}
    OBVIOUS
  <2> HIDE DEF M
  <2>6. CASE \E m \in ms : m.is_publishing
    <3>1. /\ disk'.our_prekeys = InFile(M) /\ ms # {}
          /\ "load" \notin happened => fs = InFile(ms)
      BY <2>1, <2>6 DEF PrekeysInStep
    <3>2. PrekeysInStep'
      BY <2>1, <3>1 DEF PrekeysInStep
    <3>3. "load" \notin happened => Ids(disk'.our_prekeys) = Ids(fs)
      BY <2>2, <2>4, <3>1, Zenon
    <3> QED
      BY <2>1, <3>2, <3>3 DEF KeptIds, Ids
  <2>7. CASE \A m \in ms : ~m.is_publishing
    BY <1>4, <2>1, <2>2, <2>7
  <2> QED
    BY <2>6, <2>7
<1> QED
  BY <1>5, <1>6, <1>7, <1>8, <1>9, <1>10, <1>11, <1>12, Zenon DEF AccountDoes, EnsureDoes

\* What a step does to the messages: a message has an old body, an empty one, the
\* question, or the publication.
Publication == [NoPublication EXCEPT !.profile = ProfilesToPublish(client),
                                     !.prekeys = PrekeysToPublish(client)]

LEMMA BodiesSent ==
  ASSUME NextDoes, NEW x \in wire'
  PROVE  \/ \E m \in wire : x.body = m.body
         \/ x.body \in {NoPublication, [NoPublication EXCEPT !.question = TRUE]}
         \/ Marks /\ SendsPublication /\ x.body = Publication
<1>1. CASE Marks /\ SendsPublication
  BY <1>1, Zenon DEF SendsPublication, Continues, Publication
<1>2. CASE Rests \/ Forgets
  BY <1>2 DEF Rests, Forgets, managerVars
<1>3. CASE Starts \/ SendsQuestion \/ Delivers \/ \E m \in wire : Accepts(m)
  BY <1>3, Zenon DEF Starts, SendsQuestion, Continues, Delivers, Accepts, Like
<1> QED
  BY <1>1, <1>2, <1>3, Zenon DEF NextDoes

\* What a step does to the server: it has what it had, or accepts a publication.
LEMMA ServerHolds ==
  ASSUME NextDoes
  PROVE  \/ server'.profile = server.profile /\ server'.prekeys \subseteq server.prekeys
         \/ \E m \in wire : Stays /\ Accepts(m)
<1>1. CASE Rests \/ Forgets \/ Starts \/ SendsPublication \/ SendsQuestion \/ Delivers
  BY <1>1
  DEF Rests, managerVars, Forgets, Starts, SendsPublication, SendsQuestion, Continues,
      Delivers
<1>2. CASE Stays /\ \E m \in wire : Accepts(m)
  BY <1>2
<1> QED
  BY <1>1, <1>2, Zenon DEF NextDoes

LEMMA AccountStep ==
  ASSUME NextDoes
  PROVE  AccountDoes
  BY Zenon DEF NextDoes, AccountDoes, EnsureDoes

LEMMA PrekeysNext ==
  ASSUME TypeInv, TypeInv', PrekeysInv, NextDoes
  PROVE  PrekeysInv'
<1>0. /\ AccountType /\ AccountType' /\ made \in Nat /\ now \in 0 .. MaxTime
      /\ client.our_prekeys \in SUBSET PrekeyUpTo(made)
  BY ClientFields, Zenon DEF TypeInv, AccountType
<1>1. /\ PrekeysInStep' /\ happened \subseteq happened'
      /\ "load" \notin happened' => KeptIds \subseteq KeptIds'
  BY <1>0, AccountStep, PrekeysInStepKept DEF PrekeysInv
<1> SUFFICES ASSUME "load" \notin happened'
             PROVE  /\ server'.prekeys \subseteq KeptIds'
                    /\ \A x \in wire' : x.body.prekeys \subseteq KeptIds'
  BY <1>1 DEF PrekeysInv
<1>2. /\ KeptIds \subseteq KeptIds' /\ server.prekeys \subseteq KeptIds
      /\ \A m \in wire : m.body.prekeys \subseteq KeptIds
  BY <1>1 DEF PrekeysInv
<1>3. PrekeysToPublish(client) \subseteq KeptIds
  <2>1. PrekeysToPublish(client) \subseteq Ids(client.our_prekeys)
    BY DEF PrekeysToPublish, Ids
  <2>2. client.our_prekeys # {} => Ids(client.our_prekeys) = Ids(disk.our_prekeys)
    BY <1>0, <1>1, MarksInFile DEF PrekeysInv, PrekeysInStep
  <2>3. client.our_prekeys = {} => PrekeysToPublish(client) = {}
    BY DEF PrekeysToPublish
  <2> QED
    BY <2>1, <2>2, <2>3 DEF KeptIds
<1>4. ASSUME NEW x \in wire' PROVE x.body.prekeys \subseteq KeptIds
  <2>1. /\ NoPublication.prekeys = {} /\ [NoPublication EXCEPT !.question = TRUE].prekeys = {}
    BY <1>0, BodyType, Zenon
  <2>2. Publication.prekeys = PrekeysToPublish(client)
    BY <1>0, PublicationType, Zenon DEF Publication
  <2>3. \/ \E m \in wire : x.body = m.body
        \/ x.body.prekeys = {} \/ x.body.prekeys = PrekeysToPublish(client)
    BY <2>1, <2>2, BodiesSent, Zenon
  <2> QED
    BY <1>2, <1>3, <2>3
<1>5. server'.prekeys \subseteq KeptIds
  <2>1. CASE server'.prekeys \subseteq server.prekeys
    BY <1>2, <2>1
  <2>2. ASSUME NEW m \in wire, Accepts(m) PROVE server'.prekeys \subseteq KeptIds
    BY <1>2, <2>2 DEF Accepts
  <2> QED
    BY <2>1, <2>2, ServerHolds
<1> QED
  BY <1>2, <1>4, <1>5

LEMMA PrekeysAlways == Spec => []PrekeysInv
<1>1. Init => PrekeysInv
  <2> SUFFICES ASSUME Init PROVE PrekeysInv
    OBVIOUS
  <2>1. /\ client = NewClient /\ disk = NoFiles /\ wire = {}
        /\ server = [profile |-> [k \in Kinds |-> NothingSent], prekeys |-> {}, dakes |-> {}]
    BY DEF Init, AccountInit
  <2>2. /\ client.our_prekeys = {} /\ disk.our_prekeys = {} /\ server.prekeys = {}
    BY <2>1, Zenon DEF NewClient, NoFiles
  <2> QED
    BY <2>1, <2>2 DEF PrekeysInv, PrekeysInStep, InFile
<1>2. TypeInv /\ TypeInv' /\ PrekeysInv /\ [Next]_vars => PrekeysInv'
  <2> SUFFICES ASSUME TypeInv, TypeInv', PrekeysInv, [Next]_vars PROVE PrekeysInv'
    OBVIOUS
  <2>1. CASE Next
    BY <2>1, NextStep, PrekeysNext
  <2>2. CASE UNCHANGED vars
    BY <2>2, Zenon DEF vars, PrekeysInv, PrekeysInStep, KeptIds, Ids, InFile
  <2> QED
    BY <2>1, <2>2
<1> QED
  BY <1>1, <1>2, TypeAlways, PTL DEF Spec

\* The private part of a prekey message that has left the account stays in its file
\* until a peer has used it, for any number of prekey messages, requests and peers:
\* ensure_enough_prekey_messages (client_orchestration.c) stores what it makes before
\* prekey_manager.c can publish it, and no load, store, crash or late answer loses it,
\* unless a file that is there could not be read.
THEOREM PublishedPrekeysAreKept == Spec => []PrekeysKept
<1>1. PrekeysInv => PrekeysKept
  <2> SUFFICES ASSUME PrekeysInv, "load" \notin happened
               PROVE  server.prekeys \cup UNION {m.body.prekeys : m \in wire} \subseteq KeptIds
    BY DEF PrekeysKept, KeptIds
  <2> QED
    BY DEF PrekeysInv
<1> QED
  BY <1>1, PrekeysAlways, PTL

-----------------------------------------------------------------------------
(***************************************************************************)
(* Marks.  While a publication is under way, what is marked in memory is   *)
(* in the publication that the present request has sent; when the server   *)
(* answers with the keys of that request, it has accepted all of it.       *)
(***************************************************************************)

\* The thing with number i is being published.
IsMarked(i) ==
  \/ \E k \in Kinds : client.profile[k].is_publishing /\ client.profile[k].id = i
  \/ \E m \in client.our_prekeys : m.is_publishing /\ m.id = i

InBody(m, i) ==
  \/ i \in m.body.prekeys
  \/ i # 0 /\ \E k \in Kinds : m.body.profile[k].id = i

RequestInv ==
  /\ request.n = 0 => ~request.ephemeral_ecdh /\ ~request.mac_key
  /\ \A i : IsMarked(i) => client.is_publishing
  /\ request.ephemeral_ecdh /\ request.after_dake = "publication"
       => client.is_publishing /\ \A i : ~IsMarked(i)

\* What m says about the present request.
AnswerInv(m) ==
  m.n = request.n =>
    /\ m.type \in {"dake3", "success"} => ~request.ephemeral_ecdh
    /\ request.mac_key =>
         /\ m.type = "dake3" /\ ~m.body.question => \A i : IsMarked(i) => InBody(m, i)
         /\ m.type = "success" => \A i : IsMarked(i) => i \in accepted

MarksInv == RequestInv /\ \A m \in wire : AnswerInv(m)

\* The steps that do not mark.
LEMMA MarkedLess ==
  ASSUME AccountType, EnsureDoes \/ Imports \/ Uses, NEW i, IsMarked(i)'
  PROVE  IsMarked(i)
<1>1. /\ made \in Nat /\ now \in 0 .. MaxTime /\ disk \in FilesUpTo(made)
      /\ client.profile \in [Kinds -> ProfileUpTo(made)]
      /\ client.our_prekeys \in SUBSET PrekeyUpTo(made)
  BY ClientFields, Zenon DEF AccountType
<1>2. ~NoProfile.is_publishing /\ \A k \in Kinds : ~Loaded(disk, k).is_publishing
  BY <1>1, NoProfileType, LoadedType, Zenon
<1>3. \A m \in LoadPrekeyMessages(disk) : ~m.is_publishing
  BY <1>1, PrekeyFiles, Zenon
<1>4. \A k \in Kinds : ~NewProfile(k).is_publishing
  BY Zenon DEF NewProfile, NewClientProfile, NewPrekeyProfile
<1>5. ASSUME NEW k \in Kinds, client'.profile[k].is_publishing
      PROVE  client.profile[k].is_publishing /\ client.profile[k].id = client'.profile[k].id
  <2>1. CASE client'.profile = client.profile
    BY <1>5, <2>1
  <2>2. CASE CreatesKey
    <3>1. client'.profile[k] = NoProfile \/ client'.profile[k] = client.profile[k]
      BY <2>2 DEF CreatesKey, ClientIs
    <3> QED
      BY <1>2, <1>5, <3>1, Zenon
  <2>3. CASE ExaminesProfile
    <3>1. PICK j \in Kinds, p \in ProfileUpTo(made), next \in Stages :
            /\ p \in {client.profile[j], Loaded(disk, j), NoProfile}
            /\ Examined(j, p, next)
      BY <2>3 DEF ExaminesProfile
    <3>2. \/ client'.profile = [client.profile EXCEPT ![j] = [p EXCEPT !.has_validated = TRUE]]
          \/ client'.profile = [client.profile EXCEPT ![j] = NoProfile]
      BY <3>1 DEF Examined, ClientIs
    <3>3. /\ [p EXCEPT !.has_validated = TRUE].is_publishing = p.is_publishing
          /\ [p EXCEPT !.has_validated = TRUE].id = p.id
      BY Zenon DEF ProfileUpTo
    <3>4. CASE k = j
      <4>1. client'.profile[k] \in {[p EXCEPT !.has_validated = TRUE], NoProfile}
        BY <1>1, <3>2, <3>4, Zenon
      <4> QED
        BY <1>2, <1>5, <3>1, <3>3, <3>4, <4>1, Zenon
    <3>5. CASE k # j
      <4>1. client'.profile[k] = client.profile[k]
        BY <1>1, <3>2, <3>5, Zenon
      <4> QED
        BY <1>5, <4>1
    <3> QED
      BY <3>4, <3>5
  <2>4. CASE CreatesProfile
    <3>1. PICK j \in Kinds : client'.profile = [client.profile EXCEPT ![j] = NewProfile(j)]
      BY <2>4 DEF CreatesProfile, ClientIs
    <3>2. client'.profile[k] = NewProfile(k) \/ client'.profile[k] = client.profile[k]
      BY <1>1, <3>1, Zenon
    <3> QED
      BY <1>4, <1>5, <3>2, Zenon
  <2>5. client'.profile = client.profile \/ CreatesKey \/ ExaminesProfile \/ CreatesProfile
    BY Zenon DEF EnsureDoes, Stays, LoadsKey, DropsExpired, LoadsPrekeys, CreatesPrekeys, Creates,
                 Imports, Uses, ClientIs, ClientStays
  <2> QED
    BY <2>1, <2>2, <2>3, <2>4, <2>5
<1>6. ASSUME NEW m \in client'.our_prekeys, m.is_publishing
      PROVE  m \in client.our_prekeys
  <2>1. CASE CreatesPrekeys
    <3>1. PICK old \in SUBSET PrekeyUpTo(made) :
            /\ Creates(old)
            /\ old = client.our_prekeys \/ old \subseteq LoadPrekeyMessages(disk)
      BY <2>1, Zenon DEF CreatesPrekeys
    <3>2. PICK new \in SUBSET PrekeyUpTo(made') :
            /\ \A x \in new : x.is_publishing = FALSE
            /\ client'.our_prekeys = old \cup new
      BY <3>1, Zenon DEF Creates, ClientIs
    <3>3. m \in old
      BY <1>6, <3>2
    <3> QED
      BY <1>3, <1>6, <3>1, <3>3
  <2>2. CASE LoadsPrekeys
    <3>1. client'.our_prekeys \subseteq LoadPrekeyMessages(disk)
      BY <2>2 DEF LoadsPrekeys, ClientIs
    <3> QED
      BY <1>3, <1>6, <3>1
  <2>3. CASE Uses
    BY <1>6, <2>3 DEF Uses, ClientIs
  <2>4. \/ client'.our_prekeys = client.our_prekeys
        \/ CreatesPrekeys \/ LoadsPrekeys \/ Uses
    BY Zenon DEF EnsureDoes, Stays, LoadsKey, CreatesKey, ExaminesProfile, Examined,
                 CreatesProfile, DropsExpired, Imports, ClientIs, ClientStays
  <2> QED
    BY <2>1, <2>2, <2>3, <2>4
<1> QED
  BY <1>5, <1>6, Zenon DEF IsMarked

\* The answer, an error or a restart takes all marks away.
LEMMA MarkedNone ==
  ASSUME AccountType, Resets \/ Releases \/ Settles, NEW i
  PROVE  ~IsMarked(i)'
<1>1. /\ made \in Nat /\ now \in 0 .. MaxTime
      /\ client.profile \in [Kinds -> ProfileUpTo(made)]
      /\ client.our_prekeys \in SUBSET PrekeyUpTo(made)
  BY ClientFields, Zenon DEF AccountType
<1>2. \A k \in Kinds : /\ ~Settled(client.profile[k]).is_publishing
                       /\ ~Released(client.profile[k]).is_publishing
  <2>1. \A k \in Kinds : client.profile[k] \in ProfileUpTo(made)
    BY <1>1
  <2> QED
    BY <1>1, <2>1, ProfileMarks, ZenonT(40)
<1>3. \A m \in client.our_prekeys : ~Settled(m).is_publishing /\ ~Released(m).is_publishing
  <2>1. \A m \in client.our_prekeys : m \in PrekeyUpTo(made)
    BY <1>1
  <2> QED
    BY <1>1, <2>1, PrekeyMarks, Zenon
<1>4. ~NoProfile.is_publishing
  BY <1>1, NoProfileType, Zenon
<1>5. /\ \A k \in Kinds : client'.profile[k] \in
           {NoProfile, Released(client.profile[k]), Settled(client.profile[k])}
      /\ \A m \in client'.our_prekeys :
           \E x \in client.our_prekeys : m = Released(x) \/ m = Settled(x)
  <2>1. CASE Resets
    BY <2>1 DEF Resets, ClientIs
  <2>2. CASE Releases
    BY <2>2, Zenon DEF Releases, ClientIs
  <2>3. CASE Settles
    BY <2>3, Zenon DEF Settles, ClientIs
  <2> QED
    BY <2>1, <2>2, <2>3
<1> QED
  BY <1>2, <1>3, <1>4, <1>5, Zenon DEF IsMarked

\* What is marked is what is published.
LEMMA MarkedMore ==
  ASSUME AccountType, Marks, \A i : ~IsMarked(i), \A k \in Kinds : client.profile[k].id # 0,
         NEW i, IsMarked(i)', NEW m, m.body = Publication
  PROVE  InBody(m, i)
<1>1. /\ made \in Nat /\ now \in 0 .. MaxTime
      /\ client.profile \in [Kinds -> ProfileUpTo(made)]
      /\ client.our_prekeys \in SUBSET PrekeyUpTo(made)
  BY ClientFields, Zenon DEF AccountType
<1>2. Publication.profile = ProfilesToPublish(client) /\ Publication.prekeys = PrekeysToPublish(client)
  BY PublicationType, Zenon DEF Publication
<1>3. /\ client'.profile = [k \in Kinds |-> Marked(client.profile[k])]
      /\ client'.our_prekeys = {Marked(x) : x \in client.our_prekeys}
  BY DEF Marks, ClientIs
<1>4. CASE \E k \in Kinds : client'.profile[k].is_publishing /\ client'.profile[k].id = i
  <2>1. PICK k \in Kinds : client'.profile[k].is_publishing /\ client'.profile[k].id = i
    BY <1>4
  <2> DEFINE p == client.profile[k]
  <2>2. p \in ProfileUpTo(made) /\ client'.profile[k] = Marked(p)
    BY <1>1, <1>3
  <2>3. p.id = i /\ (p.is_publishing \/ p.should_publish)
    <3> HIDE DEF p
    <3>1. Marked(p).is_publishing /\ Marked(p).id = i
      BY <2>1, <2>2
    <3>2. SameProfile(p, Marked(p)) /\ (Marked(p).is_publishing => p.is_publishing \/ p.should_publish)
      BY <1>1, <2>2, ProfileMarks, Zenon
    <3> QED
      BY <3>1, <3>2 DEF SameProfile
  <2>4. p.should_publish /\ ~p.is_publishing
    BY <2>3, Zenon DEF IsMarked
  <2>5. ProfilesToPublish(client)[k].id = i
    BY <2>3, <2>4, Zenon DEF ProfilesToPublish, Sent
  <2>6. i # 0
    BY <2>3
  <2> QED
    BY <1>2, <2>5, <2>6, Zenon DEF InBody
<1>5. CASE \E x \in client'.our_prekeys : x.is_publishing /\ x.id = i
  <2>1. PICK x \in client.our_prekeys : Marked(x).is_publishing /\ Marked(x).id = i
    BY <1>3, <1>5, Zenon
  <2>2. x \in PrekeyUpTo(made)
    BY <1>1
  <2>3. x.id = i /\ (x.is_publishing \/ x.should_publish)
    BY <1>1, <2>1, <2>2, PrekeyMarks, Zenon
  <2>4. x.should_publish /\ ~x.is_publishing
    BY <2>3, Zenon DEF IsMarked
  <2>5. i \in PrekeysToPublish(client)
    BY <2>3, <2>4, Zenon DEF PrekeysToPublish
  <2> QED
    BY <1>2, <2>5, Zenon DEF InBody
<1> QED
  BY <1>4, <1>5, Zenon DEF IsMarked

LEMMA PublishingStays ==
  ASSUME EnsureDoes \/ Imports \/ Uses \/ Marks, client.is_publishing
  PROVE  client'.is_publishing
<1>1. CASE Stays
  BY <1>1, Zenon DEF Stays, ClientIs
<1>2. CASE ~Stays
  <2>1. client'.is_publishing = client.is_publishing
    BY <1>2, Zenon
    DEF EnsureDoes, LoadsKey, CreatesKey, ExaminesProfile, Examined, CreatesProfile,
        DropsExpired, LoadsPrekeys, CreatesPrekeys, Creates, Imports, Uses, Marks,
        ClientIs, ClientStays
  <2> QED
    BY <2>1
<1> QED
  BY <1>1, <1>2

LEMMA MarksNext ==
  ASSUME TypeInv, MarksInv, NextDoes
  PROVE  MarksInv'
<1>0. /\ AccountType /\ ManagerType /\ RequestInv /\ \A m \in wire : AnswerInv(m)
      /\ requests \in Nat /\ \A m \in wire : m.n <= requests /\ m.n \in Nat
  BY RequestAssumption DEF TypeInv, ManagerType, MarksInv, MessageUpTo
<1>1. /\ NoRequest.n = 0 /\ ~NoRequest.ephemeral_ecdh /\ ~NoRequest.mac_key
  BY <1>0, RequestType
\* A step that marks nothing and leaves the request.
<1>2. ASSUME \A i : IsMarked(i)' => IsMarked(i), request' = request,
             accepted \subseteq accepted', NEW x, x.n = request.n => AnswerInv(x)
      PROVE  AnswerInv(x)'
  BY <1>2 DEF AnswerInv, InBody
<1>3. CASE (EnsureDoes \/ Imports) /\ Rests
  <2>1. request' = request /\ wire' = wire /\ accepted' = accepted
    BY <1>3 DEF Rests, managerVars
  <2>2. /\ \A i : IsMarked(i)' => IsMarked(i)
        /\ client.is_publishing => client'.is_publishing
    BY <1>0, <1>3, MarkedLess, PublishingStays
  <2>3. RequestInv'
    BY <1>0, <2>1, <2>2, Zenon DEF RequestInv
  <2>4. \A x \in wire' : AnswerInv(x)'
    BY <1>0, <1>2, <2>1, <2>2
  <2> QED
    BY <2>3, <2>4 DEF MarksInv
<1>4. CASE (Resets \/ Releases \/ Stays \/ Settles) /\ Forgets
  <2>1. request' = NoRequest
    BY <1>4 DEF Forgets
  <2>2. \A i : IsMarked(i)' => client'.is_publishing
    <3>1. CASE Stays
      BY <1>0, <3>1, MarkedLess, PublishingStays DEF EnsureDoes, RequestInv
    <3>2. CASE Resets \/ Releases \/ Settles
      BY <1>0, <3>2, MarkedNone
    <3> QED
      BY <1>4, <3>1, <3>2
  <2>3. RequestInv'
    BY <1>1, <2>1, <2>2 DEF RequestInv
  <2>4. \A m \in wire' : AnswerInv(m)'
    BY <1>1, <2>1 DEF AnswerInv
  <2> QED
    BY <2>3, <2>4 DEF MarksInv
<1>5. CASE Stays /\ Starts /\ (request'.after_dake = "publication" => client'.is_publishing)
  <2>1. PICK after \in {"publication", "storage"} :
          /\ request' = NewRequest(requests', after)
          /\ after = "publication" => ~client.is_publishing
    BY <1>5 DEF Starts
  <2>2. /\ request'.n = requests + 1 /\ request'.ephemeral_ecdh /\ ~request'.mac_key
        /\ request'.after_dake = after
    BY <1>5, <2>1 DEF Starts, NewRequest
  <2>3. /\ \A i : IsMarked(i)' => IsMarked(i)
        /\ client.is_publishing => client'.is_publishing
    BY <1>0, <1>5, MarkedLess, PublishingStays DEF EnsureDoes
  <2>4. RequestInv'
    <3>1. request'.n # 0
      BY <1>0, <2>2
    <3> QED
      BY <1>0, <1>5, <2>1, <2>2, <2>3, <3>1, Zenon DEF RequestInv
  <2>5. ASSUME NEW x \in wire' PROVE AnswerInv(x)'
    <3>1. x \in wire \/ x.type = "dake1"
      BY <1>5 DEF Starts
    <3>2. x \in wire => x.n # request'.n
      BY <1>0, <2>2
    <3> QED
      BY <2>2, <3>1, <3>2 DEF AnswerInv
  <2> QED
    BY <2>4, <2>5 DEF MarksInv
\* The DAKE ends.
<1>6. ASSUME NEW b, Continues(b)
      PROVE  /\ request.ephemeral_ecdh /\ request'.n = request.n /\ request.n # 0
             /\ ~request'.ephemeral_ecdh /\ request'.mac_key
             /\ \A x \in wire' : \/ x.n # request'.n \/ x.type \notin {"dake3", "success"}
                                 \/ x.type = "dake3" /\ x.body = b
  <2>1. request.ephemeral_ecdh /\ request' = WithMacKeys(request)
    BY <1>6 DEF Continues
  <2>2. request'.n = request.n /\ ~request'.ephemeral_ecdh /\ request'.mac_key
    BY <1>0, <2>1, RequestType
  <2>3. request.n # 0
    BY <1>0, <2>1 DEF RequestInv
  <2>4. ASSUME NEW x \in wire' PROVE \/ x.n # request'.n \/ x.type \notin {"dake3", "success"}
                                     \/ x.type = "dake3" /\ x.body = b
    <3>1. x \in wire \/ (x.type = "dake3" /\ x.body = b)
      BY <1>6 DEF Continues
    <3>2. x \in wire => x.n # request.n \/ x.type \notin {"dake3", "success"}
      BY <1>0, <2>1 DEF AnswerInv
    <3> QED
      BY <2>2, <3>1, <3>2
  <2> QED
    BY <2>1, <2>2, <2>3, <2>4
<1>7. CASE Marks /\ SendsPublication
  <2>1. /\ Continues(Publication) /\ request.after_dake = "publication"
        /\ \A k \in Kinds : client.profile[k].id # 0
    BY <1>7 DEF SendsPublication, Publication
  <2>2. client.is_publishing /\ \A i : ~IsMarked(i)
    BY <1>0, <1>6, <2>1 DEF RequestInv
  <2>3. RequestInv'
    BY <1>6, <1>7, <2>1, <2>2, PublishingStays DEF RequestInv
  <2>4. ASSUME NEW x \in wire' PROVE AnswerInv(x)'
    <3>1. \/ x.n # request'.n \/ x.type \notin {"dake3", "success"}
          \/ x.type = "dake3" /\ x.body = Publication
      BY <1>6, <2>1
    <3>2. ~request'.ephemeral_ecdh
      BY <1>6, <2>1
    <3>3. x.body = Publication => \A i : IsMarked(i)' => InBody(x, i)
      BY <1>0, <1>7, <2>1, <2>2, MarkedMore, Zenon
    <3>4. \A i : InBody(x, i) => InBody(x, i)'
      BY DEF InBody
    <3> QED
      BY <3>1, <3>2, <3>3, <3>4 DEF AnswerInv
  <2> QED
    BY <2>3, <2>4 DEF MarksInv
<1>8. CASE Stays /\ SendsQuestion
  <2> DEFINE b == [NoPublication EXCEPT !.question = TRUE]
  <2>1. Continues(b)
    BY <1>8 DEF SendsQuestion
  <2>2. b.question
    BY <1>0, BodyType, Zenon DEF AccountType
  <2> HIDE DEF b
  <2>3. \A i : IsMarked(i)' => client'.is_publishing
    BY <1>0, <1>8, MarkedLess, PublishingStays DEF EnsureDoes, RequestInv
  <2>4. RequestInv'
    BY <1>6, <2>1, <2>3 DEF RequestInv
  <2>5. ASSUME NEW x \in wire' PROVE AnswerInv(x)'
    <3>1. /\ \/ x.n # request'.n \/ x.type \notin {"dake3", "success"}
             \/ x.type = "dake3" /\ x.body = b
          /\ ~request'.ephemeral_ecdh
      BY <1>6, <2>1
    <3> QED
      BY <2>2, <3>1 DEF AnswerInv
  <2> QED
    BY <2>4, <2>5 DEF MarksInv
<1>9. CASE (Stays \/ Uses) /\ Delivers
  <2>1. request' = request /\ accepted' = accepted
    BY <1>9 DEF Delivers
  <2>2. /\ \A i : IsMarked(i)' => IsMarked(i)
        /\ client.is_publishing => client'.is_publishing
    BY <1>0, <1>9, MarkedLess, PublishingStays DEF EnsureDoes
  <2>3. ASSUME NEW x \in wire' PROVE x.n = request.n => AnswerInv(x)
    <3>1. \/ \E m \in wire : Like(x, m)
          \/ x.type \notin {"dake3", "success"} \/ x.n = 0
      BY <1>9 DEF Delivers
    <3>2. CASE x.type \notin {"dake3", "success"} \/ x.n = 0
      BY <1>0, <3>2 DEF AnswerInv, RequestInv
    <3>3. ASSUME NEW m \in wire, Like(x, m) PROVE AnswerInv(x)
      <4>1. AnswerInv(m) /\ x.n = m.n /\ x.type = m.type /\ x.body = m.body
        BY <1>0, <3>3 DEF Like
      <4> QED
        BY <4>1, Zenon DEF AnswerInv, InBody
    <3> QED
      BY <3>1, <3>2, <3>3
  <2>4. RequestInv'
    BY <1>0, <2>1, <2>2, Zenon DEF RequestInv
  <2>5. \A x \in wire' : AnswerInv(x)'
    BY <1>2, <2>1, <2>2, <2>3
  <2> QED
    BY <2>4, <2>5 DEF MarksInv
<1>10. ASSUME Stays, NEW m \in wire, Accepts(m) PROVE MarksInv'
  <2>1. request' = request /\ accepted \subseteq accepted'
    BY <1>10 DEF Accepts
  <2>2. /\ \A i : IsMarked(i)' => IsMarked(i)
        /\ client.is_publishing => client'.is_publishing
    BY <1>0, <1>10, MarkedLess, PublishingStays DEF EnsureDoes
  <2>3. RequestInv'
    BY <1>0, <2>1, <2>2, Zenon DEF RequestInv
  <2>4. ASSUME NEW x \in wire' PROVE AnswerInv(x)'
    <3>1. CASE x \in wire
      BY <1>0, <1>2, <2>1, <2>2, <3>1
    <3>2. CASE x.type = "success" /\ x.n = m.n
      <4>1. AnswerInv(m) /\ m.type = "dake3" /\ ~m.body.question
        BY <1>0, <1>10 DEF Accepts
      <4>2. \A i : InBody(m, i) => i \in accepted'
        BY <1>10 DEF Accepts, InBody
      <4>3. x.n = request.n => ~request.ephemeral_ecdh
        BY <3>2, <4>1 DEF AnswerInv
      <4>4. x.n = request.n /\ request.mac_key => \A i : IsMarked(i) => InBody(m, i)
        BY <3>2, <4>1 DEF AnswerInv
      <4> QED
        BY <2>1, <2>2, <3>2, <4>2, <4>3, <4>4 DEF AnswerInv
    <3> QED
      BY <1>10, <3>1, <3>2 DEF Accepts
  <2> QED
    BY <2>3, <2>4 DEF MarksInv
<1> QED
  BY <1>3, <1>4, <1>5, <1>7, <1>8, <1>9, <1>10, Zenon DEF NextDoes

\* What x says of itself is true.
Told(x, acc) == x.id # 0 /\ ~x.should_publish => x.id \in acc

TruthInv ==
  /\ \A k \in Kinds : Told(client.profile[k], accepted) /\ Told(disk.profile[k], accepted)
  /\ \A m \in client.our_prekeys : Told(m, accepted)
  /\ \A f \in disk.our_prekeys : Told(f, accepted)

\* The profiles in memory and in the files, after a step.
LEMMA ProfilesNext ==
  ASSUME AccountType, AccountDoes, NEW k \in Kinds
  PROVE  /\ \/ client'.profile[k] = client.profile[k]
            \/ client'.profile[k] = NoProfile
            \/ client'.profile[k] = NewProfile(k)
            \/ client'.profile[k] = [client.profile[k] EXCEPT !.has_validated = TRUE]
            \/ client'.profile[k] = [Loaded(disk, k) EXCEPT !.has_validated = TRUE]
            \/ (Marks \/ Releases) /\ client'.profile[k] \in
                                        {Marked(client.profile[k]), Released(client.profile[k])}
            \/ Settles /\ client'.profile[k] = Settled(client.profile[k])
         /\ \/ disk'.profile[k] = disk.profile[k]
            \/ disk'.profile[k] = ToFile(k, client'.profile[k])
<1>1. /\ client.profile \in [Kinds -> ProfileUpTo(made)] /\ made \in Nat
      /\ disk.profile \in [Kinds -> FileProfileUpTo(made)] /\ now \in 0 .. MaxTime
  BY ClientFields, FilesFields, Zenon DEF AccountType
<1>2. CASE Stays \/ LoadsKey \/ DropsExpired \/ LoadsPrekeys \/ CreatesPrekeys \/ Imports \/ Uses
  <2>1. client'.profile = client.profile /\ disk'.profile = disk.profile
    BY <1>2, Zenon
    DEF Stays, LoadsKey, DropsExpired, LoadsPrekeys, CreatesPrekeys, Creates, Imports, Uses,
        ClientIs, ClientStays, DiskIs, DiskStays
  <2> QED
    BY <2>1
<1>3. CASE CreatesKey \/ Resets
  <2>1. /\ client'.profile[k] = client.profile[k] \/ client'.profile[k] = NoProfile
        /\ disk'.profile = disk.profile
    BY <1>3, Zenon DEF CreatesKey, Resets, ClientIs, DiskIs, DiskStays
  <2> QED
    BY <2>1
<1>4. CASE ExaminesProfile
  <2>1. PICK j \in Kinds, p \in ProfileUpTo(made), next \in Stages :
          /\ p \in {client.profile[j], Loaded(disk, j), NoProfile}
          /\ Examined(j, p, next)
    BY <1>4 DEF ExaminesProfile
  <2>2. /\ \/ client'.profile = [client.profile EXCEPT ![j] = [p EXCEPT !.has_validated = TRUE]]
             /\ IsValid(j, p)
           \/ client'.profile = [client.profile EXCEPT ![j] = NoProfile]
        /\ disk'.profile = disk.profile
    BY <2>1 DEF Examined, ClientIs, DiskIs
  <2>3. IsValid(j, p) => p # NoProfile
    <3>1. NoProfile.id = 0
      BY <1>1, NoProfileType, Zenon
    <3> QED
      BY <3>1 DEF IsValid, VerifyValidClientProfile, VerifyValidPrekeyProfile
  <2>4. CASE k = j
    <3>1. \/ client'.profile[k] = [p EXCEPT !.has_validated = TRUE] /\ p # NoProfile
          \/ client'.profile[k] = NoProfile
      BY <1>1, <2>2, <2>3, <2>4, Zenon
    <3> QED
      BY <2>1, <2>2, <2>4, <3>1, Zenon
  <2>5. CASE k # j
    <3>1. client'.profile[k] = client.profile[k]
      BY <1>1, <2>2, <2>5, Zenon
    <3> QED
      BY <2>2, <3>1
  <2> QED
    BY <2>4, <2>5
<1>5. CASE CreatesProfile
  <2>1. PICK j \in Kinds :
          /\ client'.profile = [client.profile EXCEPT ![j] = NewProfile(j)]
          /\ disk'.profile = [disk.profile EXCEPT ![j] = ToFile(j, NewProfile(j))]
    BY <1>5 DEF CreatesProfile, ClientIs, DiskIs
  <2>2. CASE k = j
    <3>1. client'.profile[k] = NewProfile(k) /\ disk'.profile[k] = ToFile(k, NewProfile(k))
      BY <1>1, <2>1, <2>2, Zenon
    <3> QED
      BY <3>1, Zenon
  <2>3. CASE k # j
    <3>1. client'.profile[k] = client.profile[k] /\ disk'.profile[k] = disk.profile[k]
      BY <1>1, <2>1, <2>3, Zenon
    <3> QED
      BY <3>1
  <2> QED
    BY <2>2, <2>3
<1>6. CASE Marks \/ Releases
  <2>1. /\ client'.profile[k] \in {Marked(client.profile[k]), Released(client.profile[k])}
        /\ disk'.profile = disk.profile
    BY <1>6, Zenon DEF Marks, Releases, ClientIs, DiskIs, DiskStays
  <2> QED
    BY <1>6, <2>1, Zenon
<1>7. CASE Settles
  <2>1. client'.profile = [x \in Kinds |-> Settled(client.profile[x])]
    BY <1>7 DEF Settles, ClientIs
  <2>2. disk'.profile = [x \in Kinds |-> IF client.profile[x].is_publishing
                           THEN ToFile(x, client'.profile[x]) ELSE disk.profile[x]]
    BY <1>7, Zenon DEF Settles, ClientIs, DiskIs
  <2> QED
    BY <1>7, <2>1, <2>2, Zenon
<1> QED
  BY <1>2, <1>3, <1>4, <1>5, <1>6, <1>7, Zenon DEF AccountDoes, EnsureDoes

LEMMA PrekeysAfter ==
  ASSUME AccountType, AccountDoes
  PROVE  /\ \A m \in client'.our_prekeys :
              \/ m \in client.our_prekeys \/ m \in LoadPrekeyMessages(disk)
              \/ m.should_publish
              \/ \E x \in client.our_prekeys :
                   m = Marked(x) \/ m = Released(x) \/ (Settles /\ m = Settled(x))
         /\ \/ disk'.our_prekeys = disk.our_prekeys
            \/ disk'.our_prekeys = InFile(client'.our_prekeys)
<1>1. CASE Stays \/ LoadsKey \/ CreatesKey \/ ExaminesProfile \/ CreatesProfile \/ DropsExpired
             \/ Imports
  <2>1. client'.our_prekeys = client.our_prekeys /\ disk'.our_prekeys = disk.our_prekeys
    BY <1>1, Zenon
    DEF Stays, LoadsKey, CreatesKey, ExaminesProfile, CreatesProfile, DropsExpired, Examined,
        Imports, ClientIs, DiskIs, ClientStays, DiskStays
  <2> QED
    BY <2>1
<1>2. CASE LoadsPrekeys \/ Resets
  <2>1. /\ client'.our_prekeys \subseteq LoadPrekeyMessages(disk)
        /\ disk'.our_prekeys = disk.our_prekeys
    BY <1>2 DEF LoadsPrekeys, Resets, ClientIs, DiskIs, DiskStays
  <2> QED
    BY <2>1
<1>3. CASE CreatesPrekeys
  <2>1. PICK old \in SUBSET PrekeyUpTo(made) :
          /\ Creates(old)
          /\ old = client.our_prekeys \/ old \subseteq LoadPrekeyMessages(disk)
    BY <1>3, Zenon DEF CreatesPrekeys
  <2>2. PICK new \in SUBSET PrekeyUpTo(made') :
          /\ \A x \in new : x.should_publish = TRUE
          /\ client'.our_prekeys = old \cup new
          /\ disk'.our_prekeys = {PrekeyMessageToFile(m) : m \in old \cup new}
    BY <2>1, Zenon DEF Creates, ClientIs, DiskIs
  <2>3. disk'.our_prekeys = InFile(client'.our_prekeys)
    BY <2>2 DEF InFile
  <2> QED
    BY <2>1, <2>2, <2>3
<1>4. CASE Uses
  <2>1. PICK id : /\ client'.our_prekeys = {m \in client.our_prekeys : m.id # id}
                  /\ disk'.our_prekeys = {PrekeyMessageToFile(m) :
                                            m \in {x \in client.our_prekeys : x.id # id}}
    BY <1>4 DEF Uses, ClientIs, DiskIs
  <2>2. disk'.our_prekeys = InFile(client'.our_prekeys)
    BY <2>1 DEF InFile
  <2> QED
    BY <2>1, <2>2
<1>5. CASE Marks \/ Releases
  BY <1>5, Zenon DEF Marks, Releases, ClientIs, DiskIs, DiskStays
<1>6. CASE Settles
  BY <1>6, Zenon DEF Settles, ClientIs, DiskIs, InFile
<1> QED
  BY <1>1, <1>2, <1>3, <1>4, <1>5, <1>6, Zenon DEF AccountDoes, EnsureDoes

LEMMA AcceptedGrows ==
  ASSUME NextDoes
  PROVE  /\ accepted \subseteq accepted'
         /\ Settles /\ Forgets => accepted' = accepted
<1>1. CASE Rests \/ Forgets \/ Starts \/ SendsPublication \/ SendsQuestion \/ Delivers
  BY <1>1
  DEF Rests, managerVars, Forgets, Starts, SendsPublication, SendsQuestion, Continues,
      Delivers
<1>2. CASE \E m \in wire : Accepts(m)
  BY <1>2 DEF Accepts, Forgets
<1> QED
  BY <1>1, <1>2, Zenon DEF NextDoes

LEMMA TruthNext ==
  ASSUME TypeInv, MarksInv, TruthInv, NextDoes
  PROVE  TruthInv'
<1>0. /\ AccountType /\ AccountDoes /\ made \in Nat /\ now \in 0 .. MaxTime
      /\ client.profile \in [Kinds -> ProfileUpTo(made)] /\ disk \in FilesUpTo(made)
      /\ client.our_prekeys \in SUBSET PrekeyUpTo(made)
  BY AccountStep, ClientFields, Zenon DEF TypeInv, AccountType
<1>1. accepted \subseteq accepted'
  BY AcceptedGrows
<1>2. \A i : Settles /\ IsMarked(i) => i \in accepted
  BY Zenon DEF Settles, Answered, MarksInv, AnswerInv
<1>3. ASSUME NEW k \in Kinds PROVE Told(client'.profile[k], accepted)
  <2> DEFINE p == client.profile[k]
             q == client'.profile[k]
  <2>1. /\ p \in ProfileUpTo(made) /\ Told(p, accepted) /\ Told(disk.profile[k], accepted)
    BY <1>0 DEF TruthInv
  <2>2. /\ NoProfile.id = 0 /\ NewProfile(k).should_publish = TRUE
    BY <1>0, NoProfileType, NewProfileType, Zenon
  <2>3. /\ Loaded(disk, k) \in ProfileUpTo(made) /\ Told(Loaded(disk, k), accepted)
    BY <1>0, <2>1, LoadedType, Zenon DEF Told
  <2>4. \A x \in ProfileUpTo(made) :
           Told(x, accepted) => Told([x EXCEPT !.has_validated = TRUE], accepted)
    BY Zenon DEF Told, ProfileUpTo
  <2>5. Told(Marked(p), accepted) /\ Told(Released(p), accepted)
    <3> HIDE DEF p
    <3>1. /\ SameProfile(p, Marked(p)) /\ SameProfile(p, Released(p))
          /\ Marked(p).should_publish = p.should_publish
          /\ Released(p).should_publish = p.should_publish
      BY <1>0, <2>1, ProfileMarks, Zenon
    <3> QED
      BY <2>1, <3>1, Zenon DEF Told, SameProfile
  <2>6. Settles => Told(Settled(p), accepted)
    <3>1. p.is_publishing /\ Settles => p.id \in accepted
      BY <1>2, Zenon DEF IsMarked
    <3> HIDE DEF p
    <3>2. SameProfile(p, Settled(p)) /\ (~p.is_publishing => Settled(p) = p)
      BY <1>0, <2>1, ProfileMarks, Zenon
    <3> QED
      BY <2>1, <3>1, <3>2, Zenon DEF Told, SameProfile
  <2>7. \/ q = p \/ q = NoProfile \/ q = NewProfile(k)
        \/ q = [p EXCEPT !.has_validated = TRUE]
        \/ q = [Loaded(disk, k) EXCEPT !.has_validated = TRUE]
        \/ q \in {Marked(p), Released(p)}
        \/ Settles /\ q = Settled(p)
    BY <1>0, ProfilesNext, Zenon
  <2> HIDE DEF p, q
  <2>8. Told(NoProfile, accepted) /\ Told(NewProfile(k), accepted)
    BY <2>2 DEF Told
  <2>9. Told(q, accepted)
    BY <2>1, <2>3, <2>4, <2>5, <2>6, <2>7, <2>8, Zenon
  <2> QED
    BY <2>9 DEF q
<1>4. ASSUME NEW m \in client'.our_prekeys PROVE Told(m, accepted)
  <2>1. \A f \in LoadPrekeyMessages(disk) : Told(f, accepted)
    <3>1. \A f \in disk.our_prekeys : Told(PrekeyMessageFromFile(f), accepted)
      BY Zenon DEF TruthInv, Told, PrekeyMessageFromFile
    <3> QED
      BY <3>1 DEF LoadPrekeyMessages
  <2>2. ASSUME NEW x \in client.our_prekeys
        PROVE  /\ Told(x, accepted) /\ Told(Marked(x), accepted) /\ Told(Released(x), accepted)
               /\ Settles => Told(Settled(x), accepted)
    <3>1. x \in PrekeyUpTo(made) /\ Told(x, accepted)
      BY <1>0 DEF TruthInv
    <3>2. /\ Marked(x).id = x.id /\ Marked(x).should_publish = x.should_publish
          /\ Released(x).id = x.id /\ Released(x).should_publish = x.should_publish
          /\ Settled(x).id = x.id /\ (~x.is_publishing => Settled(x) = x)
      BY <1>0, <3>1, PrekeyMarks, ZenonT(40)
    <3>3. x.is_publishing /\ Settles => x.id \in accepted
      BY <1>2, Zenon DEF IsMarked
    <3> QED
      BY <3>1, <3>2, <3>3, Zenon DEF Told
  <2>3. \/ m \in client.our_prekeys \/ m \in LoadPrekeyMessages(disk)
        \/ m.should_publish
        \/ \E x \in client.our_prekeys :
             m = Marked(x) \/ m = Released(x) \/ (Settles /\ m = Settled(x))
    BY <1>0, PrekeysAfter, Zenon
  <2>4. m.should_publish => Told(m, accepted)
    BY DEF Told
  <2> QED
    BY <2>1, <2>2, <2>3, <2>4, Zenon
<1>5. ASSUME NEW k \in Kinds PROVE Told(disk'.profile[k], accepted)
  <2>1. disk'.profile[k] = disk.profile[k] \/ disk'.profile[k] = ToFile(k, client'.profile[k])
    BY <1>0, ProfilesNext, Zenon
  <2>2. Told(client'.profile[k], accepted) /\ Told(disk.profile[k], accepted)
    BY <1>3 DEF TruthInv
  <2>3. Told(ToFile(k, client'.profile[k]), accepted)
    BY <2>2, Zenon DEF ToFile, ClientProfileToFile, PrekeyProfileToFile, NoFileProfile, Told
  <2> QED
    BY <2>1, <2>2, <2>3, Zenon
<1>6. ASSUME NEW f \in disk'.our_prekeys PROVE Told(f, accepted)
  <2>1. disk'.our_prekeys = disk.our_prekeys \/ disk'.our_prekeys = InFile(client'.our_prekeys)
    BY <1>0, PrekeysAfter, Zenon
  <2>2. CASE f \in disk.our_prekeys
    BY <2>2 DEF TruthInv
  <2>3. CASE f \in InFile(client'.our_prekeys)
    <3>1. PICK m \in client'.our_prekeys : f = PrekeyMessageToFile(m)
      BY <2>3, Zenon DEF InFile
    <3>2. Told(m, accepted)
      BY <1>4
    <3> QED
      BY <3>1, <3>2, Zenon DEF Told, PrekeyMessageToFile
  <2> QED
    BY <2>1, <2>2, <2>3
<1>7. \A x : Told(x, accepted) => Told(x, accepted')
  BY <1>1 DEF Told
<1> QED
  BY <1>3, <1>4, <1>5, <1>6, <1>7, Zenon DEF TruthInv

LEMMA TruthAlways == Spec => [](MarksInv /\ TruthInv)
<1>1. Init => MarksInv /\ TruthInv
  <2> SUFFICES ASSUME Init PROVE MarksInv /\ TruthInv
    OBVIOUS
  <2>1. /\ client = NewClient /\ disk = NoFiles /\ wire = {} /\ request = NoRequest
        /\ now \in 0 .. MaxTime
    BY AccountBounds DEF Init, AccountInit
  <2>2. /\ client.our_prekeys = {} /\ disk.our_prekeys = {}
        /\ client.profile = [k \in Kinds |-> NoProfile]
        /\ disk.profile = [k \in Kinds |-> NoFileProfile]
    BY <2>1, Zenon DEF NewClient, NoFiles
  <2>3. NoProfile.id = 0 /\ ~NoProfile.is_publishing /\ NoFileProfile.id = 0
    BY Zenon DEF NoProfile, NoFileProfile
  <2>4. ~NoRequest.ephemeral_ecdh /\ ~NoRequest.mac_key
    BY Zenon DEF NoRequest
  <2>5. \A i : ~IsMarked(i)
    BY <2>2, <2>3, Zenon DEF IsMarked
  <2>6. MarksInv
    BY <2>1, <2>4, <2>5 DEF MarksInv, RequestInv
  <2>7. TruthInv
    BY <2>2, <2>3 DEF TruthInv, Told
  <2> QED
    BY <2>6, <2>7
<1>2. TypeInv /\ MarksInv /\ TruthInv /\ [Next]_vars => (MarksInv /\ TruthInv)'
  <2> SUFFICES ASSUME TypeInv, MarksInv, TruthInv, [Next]_vars PROVE MarksInv' /\ TruthInv'
    OBVIOUS
  <2>1. CASE Next
    BY <2>1, NextStep, MarksNext, TruthNext
  <2>2. CASE UNCHANGED vars
    <3>1. /\ client' = client /\ disk' = disk /\ request' = request /\ wire' = wire
          /\ accepted' = accepted
      BY <2>2 DEF vars
    <3>2. \A i : IsMarked(i)' <=> IsMarked(i)
      BY <3>1 DEF IsMarked
    <3>3. RequestInv'
      BY <3>1, <3>2, Zenon DEF MarksInv, RequestInv
    <3>4. \A m \in wire' : AnswerInv(m)'
      BY <3>1, <3>2 DEF MarksInv, AnswerInv, InBody
    <3>5. TruthInv'
      BY <3>1 DEF TruthInv, Told
    <3> QED
      BY <3>3, <3>4, <3>5 DEF MarksInv
  <2> QED
    BY <2>1, <2>2
<1> QED
  BY <1>1, <1>2, TypeAlways, PTL DEF Spec

\* What is marked as published, in memory or in the files, the server has accepted, for
\* any number of requests and in any order of renewals, restarts and lost, repeated and
\* late answers: otrng_client_published (client.c) clears the marks of what was sent
\* with the request whose key the answer was made with, and of nothing else.
THEOREM PublicationsAreTruthful == Spec => []Truthful
<1>1. TypeInv /\ TruthInv => Truthful
  <2> SUFFICES ASSUME TypeInv, TruthInv PROVE Truthful
    OBVIOUS
  <2>1. /\ client.our_prekeys \in SUBSET PrekeyUpTo(made) /\ made \in Nat
        /\ disk.our_prekeys \in SUBSET FilePrekeyUpTo(made)
    BY ClientFields, FilesFields, Zenon DEF TypeInv, AccountType
  <2>2. /\ \A m \in client.our_prekeys : m.id # 0
        /\ \A m \in disk.our_prekeys : m.id # 0
    BY <2>1 DEF PrekeyUpTo, FilePrekeyUpTo
  <2>3. /\ \A k \in Kinds : /\ Told(client.profile[k], accepted)
                            /\ Told(disk.profile[k], accepted)
        /\ Ids({m \in client.our_prekeys : ~m.should_publish}) \subseteq accepted
        /\ Ids({m \in disk.our_prekeys : ~m.should_publish}) \subseteq accepted
    BY <2>2 DEF TruthInv, Told, Ids
  <2> QED
    BY <2>3, Zenon DEF Truthful, Told
<1> QED
  BY <1>1, TypeAlways, TruthAlways, PTL

-----------------------------------------------------------------------------
(***************************************************************************)
(* A call of otrng_client_ensure_correct_state.  What it has settled in    *)
(* one step is not undone by a later one, and what is in memory is in the  *)
(* files.                                                                  *)
(***************************************************************************)

AllKeys == \A name \in KeyNames : client.key[name] # 0

AfterKeys == Stages \ {"idle", "keypair", "privkey_v3", "forging_key"}

AfterClient ==
  {"expired_client", "check_prekey", "load_prekey", "create_prekey", "expired_prekey",
   "prekeys", "fingerprints"}

AfterPrekey == {"expired_prekey", "prekeys", "fingerprints"}

SyncInv ==
  /\ \A k \in Kinds : client.profile[k].id # 0 =>
       disk.profile[k] = ToFile(k, client.profile[k]) /\ AllKeys
  /\ client.profile["prekey"].has_validated => client.profile["prekey"].id # 0
  /\ disk.profile["prekey"].forging_key = 0 /\ ~disk.profile["client"].keys
  /\ stage \in AfterKeys => AllKeys
  /\ "import" \notin happened =>
       /\ \A name \in KeyNames : client.key[name] \in {0, disk.key[name]}
       /\ client.profile["prekey"].has_validated
            => client.profile["prekey"].keypair = client.key["keypair"]

\* IsValid(k, p) /\ ~IsCloseToExpiry(p), for the keys key and at the time t.
GoodFor(k, p, key, t) ==
  /\ p.id # 0 /\ ~(p.expires <= t) /\ ~(p.expires - Buffer <= t)
  /\ k = "client" => /\ p.keypair = key["keypair"]
                     /\ p.forging_key = key["forging_key"]
                     /\ p.has_validated \/ p.keypair # 0
  /\ k = "prekey" => p.has_validated \/ p.keypair = key["keypair"]

ProgressInv ==
  /\ stage \in AfterClient => GoodFor("client", client.profile["client"], client.key, now)
  /\ stage \in AfterPrekey => GoodFor("prekey", client.profile["prekey"], client.key, now)
  /\ stage = "fingerprints" => Enough(client.our_prekeys)

LEMMA StagesOf ==
  ASSUME NEW k \in Kinds
  PROVE  /\ {Check(k), Load(k), Create(k), Expired(k), AfterExpired(k)} \subseteq AfterKeys
         /\ k = "client" =>
              /\ {Check(k), Load(k), Create(k)} \cap AfterClient = {}
              /\ {Check(k), Load(k), Create(k)} \cap AfterPrekey = {}
              /\ Expired(k) \in AfterClient \ AfterPrekey
              /\ AfterExpired(k) \in AfterClient \ AfterPrekey
         /\ k = "prekey" =>
              /\ {Check(k), Load(k), Create(k)} \subseteq AfterClient
              /\ {Check(k), Load(k), Create(k)} \cap AfterPrekey = {}
              /\ Expired(k) \in AfterClient \cap AfterPrekey
              /\ AfterExpired(k) \in AfterClient \cap AfterPrekey
         /\ "fingerprints" \notin {Check(k), Load(k), Create(k), Expired(k), AfterExpired(k)}
         /\ "idle" \notin {Check(k), Load(k), Create(k), Expired(k), AfterExpired(k)}
         /\ KeyNames \cap {Check(k), Load(k), Create(k), Expired(k), AfterExpired(k)} = {}
<1>1. k = "client" \/ k = "prekey"
  BY DEF Kinds
<1>2. CASE k = "client"
  BY <1>2 DEF Check, Load, Create, Expired, AfterExpired, Stages, AfterKeys, AfterClient,
              AfterPrekey, KeyNames
<1>3. CASE k = "prekey"
  BY <1>3 DEF Check, Load, Create, Expired, AfterExpired, Stages, AfterKeys, AfterClient,
              AfterPrekey, KeyNames
<1> QED
  BY <1>1, <1>2, <1>3

LEMMA OtherStages ==
  /\ AfterClient \subseteq AfterKeys /\ AfterPrekey \subseteq AfterClient
  /\ {"prekeys", "fingerprints"} \subseteq AfterPrekey
  /\ "idle" \notin AfterKeys /\ KeyNames \cap AfterKeys = {} /\ "check_client" \notin AfterClient
  /\ "idle" \notin KeyNames
  BY DEF Stages, AfterKeys, AfterClient, AfterPrekey, KeyNames

\* What a file holds of a profile does not depend on its other marks.
LEMMA SameInFile ==
  ASSUME NEW n \in Nat, NEW p \in ProfileUpTo(n), NEW k \in Kinds
  PROVE  /\ ToFile(k, [p EXCEPT !.has_validated = TRUE]) = ToFile(k, p)
         /\ ToFile(k, Marked(p)) = ToFile(k, p)
         /\ ToFile(k, Released(p)) = ToFile(k, p)
         /\ LET q == [p EXCEPT !.has_validated = TRUE] IN
            /\ q \in ProfileUpTo(n) /\ q.id = p.id /\ q.keypair = p.keypair
            /\ q.forging_key = p.forging_key /\ q.expires = p.expires /\ q.has_validated
            /\ q.should_publish = p.should_publish /\ q.keys = p.keys
<1> DEFINE q == [p EXCEPT !.has_validated = TRUE]
<1>1. /\ q \in ProfileUpTo(n) /\ q.id = p.id /\ q.keypair = p.keypair
      /\ q.forging_key = p.forging_key /\ q.expires = p.expires /\ q.has_validated
      /\ q.should_publish = p.should_publish /\ q.keys = p.keys
  BY Zenon DEF ProfileUpTo
<1>2. /\ SameProfile(p, Marked(p)) /\ Marked(p).should_publish = p.should_publish
      /\ SameProfile(p, Released(p)) /\ Released(p).should_publish = p.should_publish
  BY ProfileMarks, Zenon
<1> HIDE DEF q
<1>3. ASSUME NEW r, r.id = p.id, r.keypair = p.keypair, r.forging_key = p.forging_key,
             r.expires = p.expires, r.keys = p.keys, r.should_publish = p.should_publish
      PROVE  ToFile(k, r) = ToFile(k, p)
  BY <1>3, Zenon DEF ToFile, ClientProfileToFile, PrekeyProfileToFile
<1> QED
  BY <1>1, <1>2, <1>3 DEF SameProfile, q

\* A profile that was read is the one in the file.
LEMMA LoadedInFile ==
  ASSUME NEW n \in Nat, NEW d \in FilesUpTo(n), NEW k \in Kinds,
         d.profile["prekey"].forging_key = 0, ~d.profile["client"].keys
  PROVE  ToFile(k, Loaded(d, k)) = d.profile[k]
<1> DEFINE f == d.profile[k]
           g == ToFile(k, Loaded(d, k))
<1>1. f \in FileProfileUpTo(n) /\ (k = "client" \/ (k = "prekey" /\ k # "client"))
  BY FilesFields DEF Kinds
<1>2. /\ Loaded(d, k) \in ProfileUpTo(n) /\ Loaded(d, k).id = f.id
      /\ Loaded(d, k).keypair = f.keypair /\ Loaded(d, k).expires = f.expires
      /\ Loaded(d, k).should_publish = f.should_publish
      /\ k = "client" => Loaded(d, k).forging_key = f.forging_key
      /\ k = "prekey" => Loaded(d, k).keys = f.keys
  BY LoadedType, Zenon
<1>3. /\ g \in FileProfileUpTo(n) /\ g.id = f.id /\ g.keypair = f.keypair
      /\ g.expires = f.expires /\ g.should_publish = f.should_publish
      /\ g.forging_key = IF k = "client" THEN Loaded(d, k).forging_key ELSE 0
      /\ k = "client" => g.keys = FALSE
      /\ k = "prekey" => g.keys = Loaded(d, k).keys
  BY <1>2, ToFileType, ToFileKeys, Zenon
<1>4. g.forging_key = f.forging_key /\ g.keys = f.keys
  <2>1. g.forging_key = f.forging_key
    BY <1>1, <1>2, <1>3
  <2>2. f.keys \in BOOLEAN
    BY <1>1, Zenon DEF FileProfileUpTo
  <2>3. g.keys = f.keys
    <3> HIDE DEF f, g
    <3>1. CASE k = "client"
      <4>1. ~f.keys
        BY <3>1 DEF f
      <4> QED
        BY <1>3, <2>2, <3>1, <4>1, Zenon
    <3>2. CASE k = "prekey" /\ k # "client"
      BY <1>2, <1>3, <3>2, Zenon
    <3> QED
      BY <1>1, <3>1, <3>2
  <2> QED
    BY <2>1, <2>3
<1> HIDE DEF g, f
<1>5. ASSUME NEW r \in FileProfileUpTo(n)
      PROVE  r = [id |-> r.id, keypair |-> r.keypair, forging_key |-> r.forging_key,
                  expires |-> r.expires, keys |-> r.keys,
                  should_publish |-> r.should_publish]
  BY Zenon DEF FileProfileUpTo
<1>6. /\ g = [id |-> f.id, keypair |-> f.keypair, forging_key |-> f.forging_key,
              expires |-> f.expires, keys |-> f.keys,
              should_publish |-> f.should_publish]
      /\ f = [id |-> f.id, keypair |-> f.keypair, forging_key |-> f.forging_key,
              expires |-> f.expires, keys |-> f.keys,
              should_publish |-> f.should_publish]
  <2>1. g = [id |-> g.id, keypair |-> g.keypair, forging_key |-> g.forging_key,
             expires |-> g.expires, keys |-> g.keys,
             should_publish |-> g.should_publish]
    BY <1>3, <1>5, Zenon
  <2> QED
    BY <1>1, <1>3, <1>4, <1>5, <2>1, Zenon
<1> QED
  BY <1>6, Zenon DEF f, g

LEMMA SyncNext ==
  ASSUME AccountType, SyncInv, AccountDoes
  PROVE  SyncInv'
<1>0. /\ made \in Nat /\ now \in 0 .. MaxTime /\ disk \in FilesUpTo(made)
      /\ client.key \in [KeyNames -> 0 .. made] /\ disk.key \in [KeyNames -> 0 .. made]
      /\ client.profile \in [Kinds -> ProfileUpTo(made)]
      /\ disk.profile \in [Kinds -> FileProfileUpTo(made)]
      /\ "prekey" \in Kinds /\ "client" \in Kinds
      /\ {"keypair", "privkey_v3", "forging_key"} = KeyNames
  BY ClientFields, FilesFields, Zenon DEF AccountType, Kinds, KeyNames
<1>1. NoProfile.id = 0 /\ ~NoProfile.has_validated
  BY <1>0, NoProfileType, Zenon
<1>2. \A k \in Kinds : client.profile[k] \in ProfileUpTo(made)
  BY <1>0
<1>3. \A k \in Kinds : client.profile[k].id # 0 =>
         disk.profile[k] = ToFile(k, client.profile[k]) /\ AllKeys
  BY DEF SyncInv
\* Neither keys nor profiles change.
<1>4. ASSUME client'.key = client.key, client'.profile = client.profile,
             disk'.key = disk.key, disk'.profile = disk.profile, happened \subseteq happened',
             stage' \in AfterKeys => AllKeys
      PROVE  SyncInv'
  <2>1. AllKeys' <=> AllKeys
    BY <1>4 DEF AllKeys
  <2> QED
    BY <1>4, <2>1 DEF SyncInv
<1>5. CASE Stays
  <2>1. /\ client'.key = client.key /\ client'.profile = client.profile
        /\ disk'.key = disk.key /\ disk'.profile = disk.profile /\ happened \subseteq happened'
    BY <1>5, Zenon DEF Stays, ClientIs, DiskStays, DiskIs
  <2>2. \/ stage' = stage \/ stage' = "idle" \/ stage' \in KeyNames
        \/ stage' = "check_client" /\ AllKeys
        \/ \E k \in Kinds : stage = Expired(k)
        \/ stage = "prekeys"
    BY <1>5, Zenon DEF Stays, AllKeys
  <2>3. stage' \in AfterKeys => stage \in AfterKeys \/ AllKeys
    BY <2>2, StagesOf, OtherStages
  <2> QED
    BY <1>4, <2>1, <2>3 DEF SyncInv
<1>6. CASE DropsExpired \/ LoadsPrekeys \/ CreatesPrekeys \/ Uses
  <2>1. /\ client'.key = client.key /\ client'.profile = client.profile
        /\ disk'.key = disk.key /\ disk'.profile = disk.profile /\ happened \subseteq happened'
    BY <1>6, Zenon DEF DropsExpired, LoadsPrekeys, CreatesPrekeys, Creates, Uses, ClientIs,
                       ClientStays, DiskStays, DiskIs
  <2>2. \/ stage' = "idle"
        \/ \E k \in Kinds : stage = Expired(k)
        \/ stage = "prekeys"
    BY <1>6, Zenon DEF DropsExpired, LoadsPrekeys, CreatesPrekeys, Uses
  <2>3. stage' \in AfterKeys => stage \in AfterKeys \/ AllKeys
    BY <2>2, StagesOf, OtherStages
  <2> QED
    BY <1>4, <2>1, <2>3 DEF SyncInv
<1>7. CASE LoadsKey \/ CreatesKey
  <2>1. PICK name \in KeyNames, v \in 0 .. made + 1 :
          /\ client.key[name] = 0 /\ stage' = FirstMissing(client'.key)
          /\ client'.key = [client.key EXCEPT ![name] = v]
          /\ \A k \in Kinds : client'.profile[k] \in {client.profile[k], NoProfile}
          /\ disk'.key = [disk.key EXCEPT ![name] = v] /\ disk'.profile = disk.profile
          /\ happened \subseteq happened'
    <3>1. CASE LoadsKey
      <4>1. PICK name \in KeyNames :
          /\ client.key[name] = 0 /\ stage' = FirstMissing(client'.key)
          /\ client'.key = [client.key EXCEPT ![name] = disk.key[name]]
          /\ client'.profile = client.profile
          /\ disk'.key = disk.key /\ disk'.profile = disk.profile
          /\ happened' = happened
        BY <3>1 DEF LoadsKey, ClientIs, DiskStays, DiskIs
      <4>2. /\ disk.key = [disk.key EXCEPT ![name] = disk.key[name]]
            /\ disk.key[name] \in 0 .. made + 1
        BY <1>0
      <4> QED
        BY <4>1, <4>2
    <3>2. CASE CreatesKey
      <4>1. made + 1 \in 0 .. made + 1
        BY <1>0
      <4> QED
        BY <3>2, <4>1 DEF CreatesKey, ClientIs, DiskIs
    <3> QED
      BY <1>7, <3>1, <3>2
  <2>2. \A k \in Kinds : client.profile[k].id = 0 /\ client'.profile[k].id = 0
    BY <1>1, <1>3, <2>1 DEF AllKeys
  <2>3. ~client'.profile["prekey"].has_validated
    BY <1>0, <1>1, <2>1, <2>2 DEF SyncInv
  <2>4. stage' \in AfterKeys => AllKeys'
    <3> DEFINE key == client'.key
    <3>1. key \in [KeyNames -> 0 .. made + 1] /\ made + 1 \in Nat
      BY <1>0, <2>1
    <3>2. stage' = FirstMissing(key)
      BY <2>1
    <3> HIDE DEF key
    <3>3. /\ stage' \in {"keypair", "privkey_v3", "forging_key", "check_client"}
          /\ stage' = "check_client" => \A x \in KeyNames : key[x] # 0
      BY ONLY <3>1, <3>2, FirstMissingStage
    <3> QED
      BY <1>0, <3>3, OtherStages DEF AllKeys, key
  <2>5. "import" \notin happened' => \A x \in KeyNames : client'.key[x] \in {0, disk'.key[x]}
    BY <1>0, <2>1 DEF SyncInv
  <2> QED
    BY <2>1, <2>2, <2>3, <2>4, <2>5 DEF SyncInv
<1>8. CASE Imports
  <2>1. /\ client'.profile = client.profile /\ AllKeys'
        /\ disk'.profile = disk.profile /\ "import" \in happened'
    BY <1>8 DEF Imports, ClientIs, DiskStays, DiskIs, AllKeys
  <2> QED
    BY <2>1 DEF SyncInv
<1>9. CASE Resets
  <2>1. /\ client'.profile = [k \in Kinds |-> NoProfile] /\ stage' = "idle"
        /\ client'.key = [x \in KeyNames |-> 0] /\ disk'.profile = disk.profile
    BY <1>9 DEF Resets, ClientIs, DiskStays, DiskIs
  <2> QED
    BY <1>0, <1>1, <2>1, OtherStages DEF SyncInv
\* One profile changes, after the keys.
<1>10. ASSUME NEW j \in Kinds, NEW q, client'.key = client.key, disk'.key = disk.key,
              client'.profile = [client.profile EXCEPT ![j] = q],
              happened \subseteq happened', AllKeys,
              \A k \in Kinds \ {j} : disk'.profile[k] = disk.profile[k],
              q.id # 0 => disk'.profile[j] = ToFile(j, q),
              j = "client" => ~disk'.profile[j].keys,
              j = "prekey" => /\ q.has_validated => q.id # 0
                              /\ disk'.profile[j].forging_key = 0
                              /\ "import" \notin happened /\ q.has_validated
                                   => q.keypair = client.key["keypair"]
       PROVE  SyncInv'
  <2>1. AllKeys'
    BY <1>10 DEF AllKeys
  <2>2. client'.profile[j] = q /\ \A k \in Kinds \ {j} : client'.profile[k] = client.profile[k]
    BY <1>0, <1>10
  <2> QED
    BY <1>0, <1>10, <2>1, <2>2 DEF SyncInv
<1>11. CASE ExaminesProfile
  <2>1. PICK j \in Kinds, p \in ProfileUpTo(made), next \in Stages :
          /\ stage \in {Check(j), Load(j)}
          /\ p \in {client.profile[j], Loaded(disk, j), NoProfile}
          /\ Examined(j, p, next) /\ happened \subseteq happened'
    BY <1>11 DEF ExaminesProfile
  <2> DEFINE r == [p EXCEPT !.has_validated = TRUE]
  <2>2. /\ client'.key = client.key /\ disk'.key = disk.key /\ disk'.profile = disk.profile
        /\ \/ client'.profile = [client.profile EXCEPT ![j] = r] /\ IsValid(j, p)
           \/ client'.profile = [client.profile EXCEPT ![j] = NoProfile]
    BY <2>1 DEF Examined, ClientIs, DiskIs
  <2>3. AllKeys
    BY <2>1, StagesOf DEF SyncInv
  <2>4. CASE client'.profile = [client.profile EXCEPT ![j] = NoProfile]
    BY <1>1, <1>10, <2>1, <2>2, <2>3, <2>4 DEF SyncInv
  <2>5. CASE client'.profile = [client.profile EXCEPT ![j] = r] /\ IsValid(j, p)
    <3>1. /\ ToFile(j, r) = ToFile(j, p) /\ r.id = p.id /\ r.keypair = p.keypair
      BY <1>0, SameInFile
    <3>2. /\ p.id # 0
          /\ j = "prekey" => p.has_validated \/ p.keypair = client.key["keypair"]
      BY <2>5 DEF IsValid, VerifyValidClientProfile, VerifyValidPrekeyProfile,
                  PrekeyProfileFastValid, PrekeyProfileSigned
    <3>3. ToFile(j, p) = disk.profile[j]
      <4>1. ToFile(j, Loaded(disk, j)) = disk.profile[j]
        BY <1>0, LoadedInFile DEF SyncInv
      <4> QED
        BY <1>1, <1>3, <2>1, <3>2, <4>1
    <3>4. j = "prekey" /\ "import" \notin happened => p.keypair = client.key["keypair"]
      <4>1. ~Loaded(disk, j).has_validated
        BY <1>0, LoadedType, Zenon
      <4>2. CASE p.keypair = client.key["keypair"]
        BY <4>2
      <4>3. CASE j = "prekey" /\ p.has_validated /\ "import" \notin happened
        <5>1. p = client.profile["prekey"]
          BY <1>1, <2>1, <4>1, <4>3, Zenon
        <5> QED
          BY <4>3, <5>1 DEF SyncInv
      <4> QED
        BY <3>2, <4>2, <4>3
    <3> HIDE DEF r
    <3> QED
      BY <1>10, <2>1, <2>2, <2>3, <2>5, <3>1, <3>2, <3>3, <3>4 DEF SyncInv
  <2> QED
    BY <2>2, <2>4, <2>5
<1>12. CASE CreatesProfile
  <2>1. PICK j \in Kinds :
          /\ stage = Create(j) /\ client'.key = client.key /\ disk'.key = disk.key
          /\ client'.profile = [client.profile EXCEPT ![j] = NewProfile(j)]
          /\ disk'.profile = [disk.profile EXCEPT ![j] = ToFile(j, NewProfile(j))]
          /\ happened' = happened
    BY <1>12 DEF CreatesProfile, ClientIs, DiskIs
  <2> DEFINE q == NewProfile(j)
  <2>2. AllKeys
    BY <2>1, StagesOf DEF SyncInv
  <2>3. /\ q \in ProfileUpTo(made + 1) /\ q.id = made + 1
        /\ q.keypair = client.key["keypair"]
    BY NewProfileType, Zenon
  <2>4. /\ j = "prekey" => ToFile(j, q).forging_key = 0
        /\ j = "client" => ~ToFile(j, q).keys
    <3> HIDE DEF q
    <3>1. made + 1 \in Nat
      BY <1>0
    <3>2. /\ ToFile(j, q).forging_key = IF j = "client" THEN q.forging_key ELSE 0
          /\ j = "client" => ToFile(j, q).keys = FALSE
      BY <2>3, <3>1, ToFileType, ToFileKeys, Zenon
    <3> QED
      BY <3>2, Zenon
  <2>5. /\ disk'.profile[j] = ToFile(j, q)
        /\ \A k \in Kinds \ {j} : disk'.profile[k] = disk.profile[k]
    BY <1>0, <2>1
  <2>6. q.id # 0
    BY <1>0, <2>3
  <2> HIDE DEF q
  <2>7. client'.profile = [client.profile EXCEPT ![j] = q]
    BY <2>1 DEF q
  <2> QED
    BY <1>10, <2>1, <2>2, <2>3, <2>4, <2>5, <2>6, <2>7
\* Marks.
<1>13. ASSUME client'.key = client.key, disk'.key = disk.key, happened' = happened,
              stage' = "idle",
              \A k \in Kinds : /\ SameProfile(client.profile[k], client'.profile[k])
                               /\ client'.profile[k].id # 0 =>
                                    disk'.profile[k] = ToFile(k, client'.profile[k]),
              disk'.profile["prekey"].forging_key = 0, ~disk'.profile["client"].keys
       PROVE  SyncInv'
  <2>1. AllKeys' <=> AllKeys
    BY <1>13 DEF AllKeys
  <2>2. \A k \in Kinds : /\ client'.profile[k].id = client.profile[k].id
                         /\ client'.profile[k].keypair = client.profile[k].keypair
                         /\ client'.profile[k].has_validated = client.profile[k].has_validated
    BY <1>13, Zenon DEF SameProfile
  <2> QED
    BY <1>0, <1>13, <2>1, <2>2, OtherStages DEF SyncInv
<1>14. CASE Marks \/ Releases
  <2>1. /\ client'.key = client.key /\ disk'.key = disk.key /\ happened' = happened
        /\ stage' = "idle" /\ disk'.profile = disk.profile
        /\ \/ client'.profile = [k \in Kinds |-> Marked(client.profile[k])]
           \/ client'.profile = [k \in Kinds |-> Released(client.profile[k])]
    BY <1>14 DEF Marks, Releases, ClientIs, DiskStays, DiskIs
  <2>2. ASSUME NEW k \in Kinds
        PROVE  /\ SameProfile(client.profile[k], client'.profile[k])
               /\ ToFile(k, client'.profile[k]) = ToFile(k, client.profile[k])
    <3> DEFINE p == client.profile[k]
    <3>1. client'.profile[k] = Marked(p) \/ client'.profile[k] = Released(p)
      BY <2>1, Zenon
    <3>2. p \in ProfileUpTo(made)
      BY <1>2
    <3> HIDE DEF p
    <3>3. /\ SameProfile(p, Marked(p)) /\ SameProfile(p, Released(p))
          /\ ToFile(k, Marked(p)) = ToFile(k, p) /\ ToFile(k, Released(p)) = ToFile(k, p)
      <4>1. SameProfile(p, Marked(p)) /\ SameProfile(p, Released(p))
        BY <1>0, <3>2, ProfileMarks, Zenon
      <4>2. ToFile(k, Marked(p)) = ToFile(k, p) /\ ToFile(k, Released(p)) = ToFile(k, p)
        BY <1>0, <3>2, SameInFile, ZenonT(40)
      <4> QED
        BY <4>1, <4>2
    <3>4. SameProfile(p, client'.profile[k]) /\ ToFile(k, client'.profile[k]) = ToFile(k, p)
      BY <3>1, <3>3, Zenon
    <3> QED
      BY <3>4 DEF p
  <2>3. \A k \in Kinds : client'.profile[k].id # 0 => disk'.profile[k] = ToFile(k, client'.profile[k])
    BY <1>3, <2>1, <2>2 DEF SameProfile
  <2> QED
    BY <1>13, <2>1, <2>2, <2>3 DEF SyncInv
<1>15. CASE Settles
  <2>1. /\ client'.key = client.key /\ disk'.key = disk.key /\ happened' = happened
        /\ stage' = "idle"
        /\ client'.profile = [k \in Kinds |-> Settled(client.profile[k])]
        /\ disk'.profile = [k \in Kinds |-> IF client.profile[k].is_publishing
                               THEN ToFile(k, client'.profile[k]) ELSE disk.profile[k]]
    BY <1>15, Zenon DEF Settles, ClientIs, DiskIs
  <2>2. ASSUME NEW k \in Kinds
        PROVE  /\ SameProfile(client.profile[k], client'.profile[k])
               /\ client'.profile[k] \in ProfileUpTo(made)
               /\ client'.profile[k].id # 0 => disk'.profile[k] = ToFile(k, client'.profile[k])
    <3> DEFINE p == client.profile[k]
    <3>1. client'.profile[k] = Settled(p)
      BY <2>1, Zenon
    <3>2. p \in ProfileUpTo(made) /\ (p.id # 0 => disk.profile[k] = ToFile(k, p))
      BY <1>2, <1>3
    <3>3. disk'.profile[k] = ToFile(k, client'.profile[k])
          \/ (disk'.profile[k] = disk.profile[k] /\ ~p.is_publishing)
      BY <2>1, Zenon
    <3> HIDE DEF p
    <3>4. /\ SameProfile(p, Settled(p)) /\ Settled(p) \in ProfileUpTo(made)
          /\ ~p.is_publishing => Settled(p) = p
      BY <1>0, <3>2, ProfileMarks, Zenon
    <3>5. /\ SameProfile(p, client'.profile[k]) /\ client'.profile[k] \in ProfileUpTo(made)
          /\ client'.profile[k].id # 0 => disk'.profile[k] = ToFile(k, client'.profile[k])
      BY <3>1, <3>2, <3>3, <3>4, Zenon
    <3> QED
      BY <3>5 DEF p
  <2>3. disk'.profile["prekey"].forging_key = 0 /\ ~disk'.profile["client"].keys
    <3>1. /\ ToFile("prekey", client'.profile["prekey"]).forging_key = 0
          /\ ~ToFile("client", client'.profile["client"]).keys
      <4>1. /\ client'.profile["prekey"] \in ProfileUpTo(made)
            /\ client'.profile["client"] \in ProfileUpTo(made)
        BY <1>0, <2>2
      <4> QED
        BY <1>0, <4>1, ToFileType, ToFileKeys
    <3> QED
      BY <1>0, <2>1, <3>1 DEF SyncInv
  <2> QED
    BY <1>13, <2>1, <2>2, <2>3
<1> QED
  BY <1>5, <1>6, <1>7, <1>8, <1>9, <1>11, <1>12, <1>14, <1>15, Zenon DEF AccountDoes, EnsureDoes

\* What makes a profile good.
LEMMA GoodMeans ==
  ASSUME NEW k \in Kinds, NEW p
  PROVE  IsValid(k, p) /\ ~IsCloseToExpiry(p) <=> GoodFor(k, p, client.key, now)
<1>1. k = "client" \/ (k = "prekey" /\ k # "client")
  BY DEF Kinds
<1> QED
  BY <1>1, Zenon
  DEF GoodFor, IsValid, IsCloseToExpiry, VerifyValidClientProfile, VerifyValidPrekeyProfile,
      HasOurKeys, ClientProfileFastValid, PrekeyProfileFastValid, ClientProfileSigned,
      PrekeyProfileSigned, IsExpired

\* A new profile is good.
LEMMA NewIsGood ==
  ASSUME AccountType, NEW k \in Kinds
  PROVE  GoodFor(k, NewProfile(k), client.key, now)
<1> DEFINE p == NewProfile(k)
<1>1. /\ p.id = made + 1 /\ p.keypair = client.key["keypair"]
      /\ p.forging_key = IF k = "client" THEN client.key["forging_key"] ELSE 0
      /\ p.expires = now + Life[k] /\ p.has_validated
  BY NewProfileType, Zenon
<1>2. now \in Nat /\ Life[k] \in Nat /\ Buffer \in Nat /\ Buffer < Life[k] /\ made \in Nat
  BY LifeAssumption, TimesAssumption, AccountBounds DEF AccountType
<1> HIDE DEF p
<1>3. p.id # 0 /\ ~(p.expires <= now) /\ ~(p.expires - Buffer <= now)
  BY <1>1, <1>2
<1>4. k = "client" => p.forging_key = client.key["forging_key"]
  BY <1>1
<1>5. GoodFor(k, p, client.key, now)
  BY <1>1, <1>3, <1>4, Zenon DEF GoodFor
<1> QED
  BY <1>5 DEF p

LEMMA ProgressNext ==
  ASSUME AccountType, ProgressInv, AccountDoes
  PROVE  ProgressInv'
<1>0. /\ made \in Nat /\ now \in 0 .. MaxTime /\ "prekey" \in Kinds /\ "client" \in Kinds
      /\ client.profile \in [Kinds -> ProfileUpTo(made)] /\ Kinds = {"client", "prekey"}
      /\ KeyNames = {"keypair", "privkey_v3", "forging_key"}
  BY ClientFields, Zenon DEF AccountType, Kinds, KeyNames
\* Nothing but the stage changes.
<1>1. ASSUME client'.key = client.key, client'.profile = client.profile, now' = now,
             stage' \in AfterClient => stage \in AfterClient,
             stage' \in AfterPrekey => stage \in AfterPrekey,
             stage' = "fingerprints" => Enough(client'.our_prekeys)
      PROVE  ProgressInv'
  <2>1. \A k \in Kinds : GoodFor(k, client'.profile[k], client'.key, now')
                           = GoodFor(k, client.profile[k], client.key, now)
    BY <1>1
  <2>2. \A S : Enough(S)' <=> Enough(S)
    BY DEF Enough
  <2> QED
    BY <1>0, <1>1, <2>1, <2>2 DEF ProgressInv, Enough
<1>2. CASE stage' \notin AfterClient
  BY <1>2, OtherStages DEF ProgressInv
<1>3. CASE Stays /\ stage' \in AfterClient
  <2>1. /\ client'.key = client.key /\ client'.profile = client.profile
        /\ client'.our_prekeys = client.our_prekeys
    BY <1>3, Zenon DEF Stays, ClientIs
  <2>2. \/ UNCHANGED <<stage, now>>
        \/ \E k \in Kinds : stage = Expired(k) /\ stage' = AfterExpired(k) /\ now' = now
        \/ /\ stage = "prekeys" /\ stage' = "fingerprints" /\ now' = now
           /\ Enough(client.our_prekeys)
    BY <1>0, <1>3, OtherStages DEF Stays
  <2>3. now' = now
    BY <2>2
  <2>4. /\ stage' \in AfterClient => stage \in AfterClient
        /\ stage' \in AfterPrekey => stage \in AfterPrekey
        /\ stage' = "fingerprints" => Enough(client'.our_prekeys)
    <3>1. CASE UNCHANGED <<stage, now>>
      BY <2>1, <3>1 DEF ProgressInv
    <3>2. CASE \E k \in Kinds : stage = Expired(k) /\ stage' = AfterExpired(k) /\ now' = now
      BY <1>0, <3>2, StagesOf
    <3>3. CASE stage = "prekeys" /\ stage' = "fingerprints" /\ Enough(client.our_prekeys)
      BY <2>1, <3>3, OtherStages
    <3> QED
      BY <2>2, <3>1, <3>2, <3>3
  <2> QED
    BY <1>1, <2>1, <2>3, <2>4
<1>4. CASE DropsExpired
  <2>1. /\ client'.key = client.key /\ client'.profile = client.profile /\ now' = now
        /\ \E k \in Kinds : stage = Expired(k) /\ stage' = AfterExpired(k)
    BY <1>4 DEF DropsExpired, ClientIs, ClientStays
  <2> QED
    BY <1>0, <1>1, <2>1, StagesOf
<1>5. CASE LoadsPrekeys \/ CreatesPrekeys
  <2>1. /\ client'.key = client.key /\ client'.profile = client.profile /\ now' = now
        /\ stage = "prekeys" /\ stage' = "fingerprints" /\ Enough(client'.our_prekeys)
    <3>1. CASE LoadsPrekeys
      BY <3>1 DEF LoadsPrekeys, ClientIs
    <3>2. CASE CreatesPrekeys
      BY <3>2 DEF CreatesPrekeys, Creates, ClientIs
    <3> QED
      BY <1>5, <3>1, <3>2
  <2> QED
    BY <1>1, <2>1, OtherStages
<1>6. CASE LoadsKey \/ CreatesKey
  <2>1. PICK key : stage' = FirstMissing(key)
    BY <1>6 DEF LoadsKey, CreatesKey
  <2>2. stage' \in {"keypair", "privkey_v3", "forging_key", "check_client"}
    BY <2>1 DEF FirstMissing
  <2> QED
    BY <1>0, <1>2, <2>2, OtherStages
\* One profile is settled.
<1>7. ASSUME NEW j \in Kinds, client'.key = client.key, now' = now,
             stage \in {Check(j), Load(j), Create(j)},
             \A k \in Kinds \ {j} : client'.profile[k] = client.profile[k],
             \/ stage' = Expired(j) /\ GoodFor(j, client'.profile[j], client'.key, now')
             \/ stage' \in {Load(j), Create(j)}
      PROVE  ProgressInv'
  <2>1. CASE j = "client"
    <3>1. \/ stage' \notin AfterClient
          \/ /\ stage' \in AfterClient \ AfterPrekey /\ stage' # "fingerprints"
             /\ GoodFor("client", client'.profile["client"], client'.key, now')
      BY <1>7, <2>1, StagesOf
    <3> QED
      BY <1>2, <3>1 DEF ProgressInv
  <2>2. CASE j = "prekey"
    <3>1. stage \in AfterClient /\ "client" # j
      BY <1>7, <2>2, StagesOf
    <3>2. client'.profile["client"] = client.profile["client"]
      BY <1>0, <1>7, <3>1
    <3>3. GoodFor("client", client'.profile["client"], client'.key, now')
      BY <1>0, <1>7, <3>1, <3>2 DEF ProgressInv
    <3>4. stage' # "fingerprints"
          /\ (stage' \in AfterPrekey =>
                GoodFor("prekey", client'.profile["prekey"], client'.key, now'))
      BY <1>7, <2>2, StagesOf
    <3> QED
      BY <3>3, <3>4 DEF ProgressInv
  <2> QED
    BY <1>0, <2>1, <2>2
<1>8. CASE ExaminesProfile
  <2>1. PICK j \in Kinds, p \in ProfileUpTo(made), next \in Stages :
          /\ \/ stage = Check(j) /\ next = Load(j)
             \/ stage = Load(j) /\ next = Create(j)
          /\ Examined(j, p, next) /\ now' = now
    BY <1>8, Zenon DEF ExaminesProfile
  <2> DEFINE r == [p EXCEPT !.has_validated = TRUE]
  <2>2. /\ client'.key = client.key
        /\ \/ /\ client'.profile = [client.profile EXCEPT ![j] = r] /\ stage' = Expired(j)
              /\ IsValid(j, p) /\ ~IsCloseToExpiry(p)
           \/ client'.profile = [client.profile EXCEPT ![j] = NoProfile] /\ stage' = next
    BY <2>1 DEF Examined, ClientIs
  <2>3. /\ r.id = p.id /\ r.keypair = p.keypair /\ r.forging_key = p.forging_key
        /\ r.expires = p.expires /\ r.has_validated
    BY <1>0, SameInFile
  <2> HIDE DEF r
  <2>4. IsValid(j, p) /\ ~IsCloseToExpiry(p) => GoodFor(j, r, client.key, now)
    BY <2>3, GoodMeans, Zenon DEF GoodFor
  <2>5. \A k \in Kinds \ {j} : client'.profile[k] = client.profile[k]
    BY <1>0, <2>2
  <2>6. \/ /\ client'.profile[j] = r /\ stage' = Expired(j)
           /\ IsValid(j, p) /\ ~IsCloseToExpiry(p)
        \/ stage' \in {Load(j), Create(j)}
    BY <1>0, <2>1, <2>2
  <2>7. \/ stage' = Expired(j) /\ GoodFor(j, client'.profile[j], client'.key, now')
        \/ stage' \in {Load(j), Create(j)}
    BY <2>1, <2>2, <2>4, <2>6
  <2> QED
    BY <1>7, <2>1, <2>2, <2>5, <2>7
<1>9. CASE CreatesProfile
  <2>1. PICK j \in Kinds :
          /\ stage = Create(j) /\ stage' = Expired(j) /\ client'.key = client.key /\ now' = now
          /\ client'.profile = [client.profile EXCEPT ![j] = NewProfile(j)]
    BY <1>9 DEF CreatesProfile, ClientIs
  <2>2. /\ client'.profile[j] = NewProfile(j)
        /\ \A k \in Kinds \ {j} : client'.profile[k] = client.profile[k]
    BY <1>0, <2>1
  <2>3. GoodFor(j, client'.profile[j], client'.key, now')
    BY <2>1, <2>2, NewIsGood
  <2> QED
    BY <1>7, <2>1, <2>2, <2>3
<1>10. CASE Imports \/ Resets \/ Uses \/ Marks \/ Settles \/ Releases
  <2>1. stage' = "idle"
    BY <1>10, Zenon DEF Imports, Resets, Uses, Marks, Settles, Releases
  <2> QED
    BY <1>2, <2>1, OtherStages
<1> QED
  BY <1>2, <1>3, <1>4, <1>5, <1>6, <1>8, <1>9, <1>10, Zenon DEF AccountDoes, EnsureDoes


LEMMA SyncAlways == Spec => [](SyncInv /\ ProgressInv)
<1>1. Init => SyncInv /\ ProgressInv
  <2> SUFFICES ASSUME Init PROVE SyncInv /\ ProgressInv
    OBVIOUS
  <2>1. client = NewClient /\ disk = NoFiles /\ stage = "idle"
    BY DEF Init, AccountInit
  <2>2. /\ client.key = [n \in KeyNames |-> 0] /\ client.profile = [k \in Kinds |-> NoProfile]
        /\ disk.profile = [k \in Kinds |-> NoFileProfile]
    BY <2>1, Zenon DEF NewClient, NoFiles
  <2>3. /\ NoProfile.id = 0 /\ ~NoProfile.has_validated
        /\ NoFileProfile.forging_key = 0 /\ ~NoFileProfile.keys
    BY DEF NoProfile, NoFileProfile
  <2>4. "prekey" \in Kinds /\ "client" \in Kinds
    BY DEF Kinds
  <2> QED
    BY <2>1, <2>2, <2>3, <2>4, OtherStages DEF SyncInv, ProgressInv
<1>2. TypeInv /\ SyncInv /\ ProgressInv /\ [Next]_vars => SyncInv' /\ ProgressInv'
  <2> SUFFICES ASSUME TypeInv, SyncInv, ProgressInv, [Next]_vars
               PROVE  SyncInv' /\ ProgressInv'
    OBVIOUS
  <2>1. CASE Next
    BY <2>1, NextStep, AccountStep, SyncNext, ProgressNext DEF TypeInv
  <2>2. CASE UNCHANGED vars
    BY <2>2, Zenon DEF vars, SyncInv, ProgressInv, AllKeys, Enough
  <2> QED
    BY <2>1, <2>2
<1> QED
  BY <1>1, <1>2, TypeAlways, PTL DEF Spec

\* InOrder, field by field.
Orderly(key, profile, ms, t, filekey, fileprofile, filems, lost) ==
  /\ \A k \in Kinds : /\ GoodFor(k, profile[k], key, t)
                      /\ profile[k].keypair = key["keypair"]
                      /\ fileprofile[k] = ToFile(k, profile[k])
  /\ Enough(ms)
  /\ InFile(ms) \subseteq filems /\ (filems = InFile(ms) \/ lost)
  /\ key = filekey

OrderlyNow ==
  Orderly(client.key, client.profile, client.our_prekeys, now,
          disk.key, disk.profile, disk.our_prekeys, "load" \in happened)

LEMMA OrderlyMeans ==
  ASSUME AccountType, OrderlyNow
  PROVE  InOrder
<1>1. /\ disk \in FilesUpTo(made)
      /\ \A k \in Kinds : /\ GoodFor(k, client.profile[k], client.key, now)
                          /\ client.profile[k].keypair = client.key["keypair"]
                          /\ disk.profile[k] = ToFile(k, client.profile[k])
      /\ Enough(client.our_prekeys) /\ client.key = disk.key
      /\ {PrekeyMessageToFile(m) : m \in client.our_prekeys} \subseteq disk.our_prekeys
      /\ \/ disk.our_prekeys = {PrekeyMessageToFile(m) : m \in client.our_prekeys}
         \/ "load" \in happened
  BY DEF AccountType, OrderlyNow, Orderly, InFile
<1>2. disk = [key |-> disk.key, profile |-> disk.profile, expired |-> disk.expired,
              our_prekeys |-> disk.our_prekeys, fingerprints |-> disk.fingerprints]
  BY <1>1, Zenon DEF FilesUpTo
<1>3. disk.profile = [k \in Kinds |-> disk.profile[k]]
  BY <1>1, Zenon DEF FilesUpTo
<1>4. \/ StorePrekeyMessages(disk, client.our_prekeys) = disk
      \/ "load" \in happened
  <2> DEFINE S == {PrekeyMessageToFile(m) : m \in client.our_prekeys}
  <2>1. StorePrekeyMessages(disk, client.our_prekeys) = [disk EXCEPT !.our_prekeys = S]
    BY DEF StorePrekeyMessages
  <2>2. disk.our_prekeys = S \/ "load" \in happened
    BY <1>1
  <2> HIDE DEF S
  <2> QED
    BY <1>1, <2>1, <2>2, Zenon DEF FilesUpTo
<1>5. ASSUME NEW k \in Kinds
      PROVE  StoreProfile(disk, k, client.profile[k]) = disk
  <2> DEFINE f == ToFile(k, client.profile[k])
  <2>1. StoreProfile(disk, k, client.profile[k]) = [disk EXCEPT !.profile[k] = f]
    BY <1>5 DEF StoreProfile, StoreClientProfile, StorePrekeyProfile, ToFile, Kinds
  <2>2. disk.profile[k] = f
    BY <1>1
  <2> HIDE DEF f
  <2>3. [disk.profile EXCEPT ![k] = f] = disk.profile
    BY <1>3, <2>2
  <2>4. [disk EXCEPT !.profile[k] = f] = disk
    BY <1>1, <2>3, Zenon DEF FilesUpTo
  <2> QED
    BY <2>1, <2>4
<1>6. \A k \in Kinds : /\ IsValid(k, client.profile[k])
                       /\ ~IsCloseToExpiry(client.profile[k])
  BY <1>1, GoodMeans
<1> QED
  BY <1>1, <1>4, <1>5, <1>6 DEF InOrder

\* The end of a call.
LEMMA EnsureEnds ==
  ASSUME AccountType, AccountType', SyncInv, ProgressInv, PrekeysInStep, AccountDoes,
         stage = "fingerprints", stage' = "idle", client' # NewClient,
         "import" \notin happened
  PROVE  OrderlyNow'
<1>1. Stays
  <2>1. stage \notin {"idle"} \cup KeyNames \cup {"prekeys"}
    BY DEF KeyNames
  <2>2. ~(Marks \/ Settles \/ Releases \/ Uses \/ Imports \/ Resets)
    BY <2>1, Zenon DEF Marks, Settles, Releases, Uses, Imports, Resets
  <2>3. ~(LoadsKey \/ CreatesKey \/ LoadsPrekeys \/ CreatesPrekeys)
    BY <2>1 DEF LoadsKey, CreatesKey, LoadsPrekeys, CreatesPrekeys
  <2>4. ~(ExaminesProfile \/ CreatesProfile \/ DropsExpired)
    <3>1. \A k \in Kinds : stage \notin {Check(k), Load(k), Create(k), Expired(k)}
      BY StagesOf
    <3> QED
      BY <3>1 DEF ExaminesProfile, CreatesProfile, DropsExpired
  <2> QED
    BY <2>2, <2>3, <2>4, Zenon DEF AccountDoes, EnsureDoes
<1>2. /\ client'.key = client.key /\ client'.profile = client.profile
      /\ client'.our_prekeys = client.our_prekeys /\ now' = now
      /\ disk'.key = disk.key /\ disk'.profile = disk.profile
      /\ disk'.our_prekeys = disk.our_prekeys /\ happened \subseteq happened'
  <2>1. now' = now
    BY <1>1 DEF Stays
  <2> QED
    BY <1>1, <2>1, Zenon DEF Stays, ClientIs, DiskStays, DiskIs
<1>3. /\ client.key \in [KeyNames -> 0 .. made] /\ disk.key \in [KeyNames -> 0 .. made]
      /\ Kinds = {"client", "prekey"} /\ "keypair" \in KeyNames
  BY ClientFields, FilesFields, Zenon DEF AccountType, Kinds, KeyNames
<1>4. /\ \A k \in Kinds : GoodFor(k, client.profile[k], client.key, now)
      /\ Enough(client.our_prekeys) /\ AllKeys
  BY <1>3, OtherStages DEF ProgressInv, SyncInv
<1>5. \A k \in Kinds : disk.profile[k] = ToFile(k, client.profile[k])
  BY <1>4 DEF GoodFor, SyncInv
<1>6. client.key = disk.key
  <2>1. \A name \in KeyNames : client.key[name] = disk.key[name]
    BY <1>4 DEF SyncInv, AllKeys
  <2> QED
    BY <1>3, <2>1
<1>7. \A k \in Kinds : client.profile[k].keypair = client.key["keypair"]
  BY <1>3, <1>4 DEF GoodFor, SyncInv
<1>8. /\ InFile(client.our_prekeys) \subseteq disk.our_prekeys
      /\ disk.our_prekeys = InFile(client.our_prekeys) \/ "load" \in happened
  <2>1. CASE client.our_prekeys # {}
    BY <2>1 DEF PrekeysInStep
  <2>2. CASE client.our_prekeys = {}
    <3>1. Cardinality(client.our_prekeys) = 0
      BY <2>2, FS_EmptySet
    <3>2. MinStored = 0
      BY <1>4, <3>1, PrekeysAssumption DEF Enough
    <3> QED
      BY <2>2, <3>2 DEF PrekeysInStep, InFile
  <2> QED
    BY <2>1, <2>2
<1>9. OrderlyNow
  BY <1>4, <1>5, <1>6, <1>7, <1>8 DEF OrderlyNow, Orderly
<1> QED
  BY <1>2, <1>9 DEF OrderlyNow, Orderly, Enough, InFile

\* A call of otrng_client_ensure_correct_state (client_orchestration.c) that runs to its
\* end leaves valid profiles for the present keys, far enough from their end, and enough
\* prekey messages, and the files hold the same account: no later step of the call undoes
\* what an earlier one has settled, whatever was loaded, created, published or lost before
\* it.  An identity that was imported is excepted: its keys are in no file.
THEOREM CallsRepairTheAccount == Spec => EnsureRepairs
<1> DEFINE Inv == TypeInv /\ SyncInv /\ ProgressInv /\ PrekeysInv
<1>1. Spec => []Inv
  BY TypeAlways, SyncAlways, PrekeysAlways, PTL
<1>2. Inv => (OrderlyNow => InOrder)
  BY OrderlyMeans DEF TypeInv
<1>3. Inv /\ Inv' /\ [Next]_vars =>
        [stage = "fingerprints" /\ stage' = "idle" /\ client' # NewClient
           /\ "import" \notin happened => OrderlyNow']_vars
  <2> SUFFICES ASSUME Inv, Inv', Next, stage = "fingerprints", stage' = "idle",
                      client' # NewClient, "import" \notin happened
               PROVE  OrderlyNow'
    OBVIOUS
  <2>1. AccountDoes
    BY NextStep, AccountStep
  <2> QED
    BY <2>1, EnsureEnds DEF TypeInv, PrekeysInv
<1> HIDE DEF Inv
<1>4. Inv' /\ [stage = "fingerprints" /\ stage' = "idle" /\ client' # NewClient
                 /\ "import" \notin happened => OrderlyNow']_vars
        => [stage = "fingerprints" /\ stage' = "idle" /\ client' # NewClient
              /\ "import" \notin happened => InOrder']_vars
  BY <1>2, PTL
<1>5. Inv /\ Inv' /\ [Next]_vars =>
        [stage = "fingerprints" /\ stage' = "idle" /\ client' # NewClient
           /\ "import" \notin happened => InOrder']_vars
  BY <1>3, <1>4
<1> QED
  BY <1>1, <1>5, PTL DEF Spec, EnsureRepairs


-----------------------------------------------------------------------------
(***************************************************************************)
(* Profiles that peers are given.  The files hold a current and an expired *)
(* profile of each kind, made for the keys in the files.  A new current    *)
(* profile takes the place of one that has expired or that was kept as the *)
(* expired one; that one takes the place of a profile that expired before  *)
(* it.  So a profile that was published leaves the files only after its    *)
(* end, provided that a profile lives at least twice as long as the time   *)
(* before its end at which it is renewed.                                  *)
(***************************************************************************)

\* A profile that is not there has no key.
EmptyInv ==
  \A k \in Kinds : /\ client.profile[k].id = 0 => client.profile[k].keypair = 0
                   /\ disk.profile[k].id = 0 => disk.profile[k].keypair = 0

\* The profile f in the files is made for the keys key.
Own(k, f, key) ==
  f.id # 0 => /\ f.keypair = key["keypair"] /\ f.keypair # 0
              /\ k = "client" => f.forging_key = key["forging_key"] /\ f.forging_key # 0

\* The current profile f and the expired profile e of one kind.
Paired(f, e) ==
  e.id # 0 => /\ f.id # 0
              /\ e.id = f.id => e.expires = f.expires
              /\ e.id # f.id => e.expires + Buffer <= f.expires

\* At the time t a new profile may take the place of f.
Replaceable(f, e, t) ==
  f.id # 0 => f.expires - Buffer <= t /\ (f.expires <= t \/ e.id = f.id)

\* The profile s that peers are given has expired or is one of f and e.
Found(s, f, e, t) ==
  s.id # 0 /\ ~(s.expires <= t) =>
    \/ s.id = f.id /\ s.expires = f.expires
    \/ s.id = e.id /\ s.expires = e.expires

FilesInv(k, f, e, key, st, t) ==
  /\ Own(k, f, key) /\ Own(k, e, key) /\ Paired(f, e)
  /\ st = Create(k) => Replaceable(f, e, t)

ServedInv ==
  happened \subseteq {"create", "crash"} =>
    \A k \in Kinds :
      /\ FilesInv(k, disk.profile[k], disk.expired[k], disk.key, stage, now)
      /\ Found(server.profile[k], disk.profile[k], disk.expired[k], now)
      /\ \A m \in wire : Found(m.body.profile[k], disk.profile[k], disk.expired[k], now)

\* A profile that is about to end is kept as the expired one.
LEMMA OutdatedIsKept ==
  ASSUME NEW f, NEW e, NEW g, NEW t \in Int, Paired(f, e), f.id # 0,
         f.expires \in Int, e.expires \in Int, f.expires - Buffer <= t,
         g.id = f.id, g.expires = f.expires
  PROVE  Paired(f, g) /\ \A s : Found(s, f, e, t) => Found(s, f, g, t)
<1>1. Buffer \in Nat
  BY TimesAssumption
<1>2. Paired(f, g)
  BY DEF Paired
<1>3. e.id # 0 /\ e.id # f.id => e.expires <= t
  BY <1>1 DEF Paired
<1>4. ASSUME NEW s, Found(s, f, e, t) PROVE Found(s, f, g, t)
  <2>1. e.id # 0 /\ e.id = f.id => e.expires = f.expires
    BY DEF Paired
  <2> QED
    BY <1>3, <1>4, <2>1 DEF Found
<1> QED
  BY <1>2, <1>4

\* A new profile takes the place of f.
LEMMA NewReplaces ==
  ASSUME NEW f, NEW e, NEW g, NEW t \in Int, NEW life \in Nat, Paired(f, e),
         Replaceable(f, e, t), f.expires \in Int, e.expires \in Int,
         g.id # 0, g.id # e.id, g.expires = t + life, 2 * Buffer <= life
  PROVE  Paired(g, e) /\ \A s : Found(s, f, e, t) => Found(s, g, e, t)
<1>1. Buffer \in Nat
  BY TimesAssumption
<1>2. Paired(g, e)
  <2> SUFFICES ASSUME e.id # 0 PROVE e.expires + Buffer <= g.expires
    BY DEF Paired
  <2>1. f.id # 0 /\ f.expires - Buffer <= t
    BY DEF Paired, Replaceable
  <2>2. e.expires <= f.expires
    BY <1>1 DEF Paired
  <2> QED
    BY <1>1, <2>1, <2>2
<1>3. ASSUME NEW s, Found(s, f, e, t) PROVE Found(s, g, e, t)
  BY <1>3 DEF Found, Paired, Replaceable
<1> QED
  BY <1>2, <1>3

\* A profile for the present keys that has not expired is valid.
LEMMA OwnIsValid ==
  ASSUME NEW k \in Kinds, NEW f, NEW p, Own(k, f, client.key), f.id # 0,
         p.id = f.id, p.keypair = f.keypair, p.expires = f.expires, ~(f.expires <= now),
         k = "client" => p.forging_key = f.forging_key
  PROVE  IsValid(k, p) /\ IsValidExpired(k, p)
<1>1. /\ p.id # 0 /\ p.keypair = client.key["keypair"] /\ p.keypair # 0 /\ ~(p.expires <= now)
      /\ k = "client" => p.forging_key = client.key["forging_key"]
  BY DEF Own
<1>2. k = "client" \/ (k = "prekey" /\ k # "client")
  BY DEF Kinds
<1> QED
  BY <1>1, <1>2, Zenon
  DEF IsValid, IsValidExpired, VerifyValidClientProfile, VerifyValidPrekeyProfile,
      VerifyValidExpiredClientProfile, VerifyValidExpiredPrekeyProfile,
      HasOurKeys, ClientProfileFastValid, PrekeyProfileFastValid, ClientProfileSigned,
      PrekeyProfileSigned, IsExpired

\* What is kept as the expired profile is there and is about to end.
LEMMA OutdatedMeans ==
  ASSUME NEW k \in Kinds, NEW p, Outdated(k, p), AllKeys, p.expires \in Int, now \in Int
  PROVE  (p.id # 0 \/ p.keypair # 0) /\ p.expires - Buffer <= now
<1>1. client.key["keypair"] # 0 /\ Buffer \in Nat
  BY TimesAssumption DEF AllKeys, KeyNames
<1>2. IsValid(k, p) => p.id # 0
  BY Zenon DEF IsValid, VerifyValidClientProfile, VerifyValidPrekeyProfile
<1>3. IsExpiredButValid(k, p) => p.keypair # 0 /\ p.expires <= now
  BY <1>1 DEF IsExpiredButValid, ClientProfileIsExpiredButValid,
              PrekeyProfileIsExpiredButValid, ClientProfileSigned, PrekeyProfileSigned,
              IsExpired
<1> QED
  BY <1>1, <1>2, <1>3 DEF Outdated, IsCloseToExpiry

LEMMA EmptyNext ==
  ASSUME AccountType, AccountType', EmptyInv, AccountDoes
  PROVE  EmptyInv'
<1>0. /\ made \in Nat /\ disk \in FilesUpTo(made) /\ NoProfile.keypair = 0
      /\ client.profile \in [Kinds -> ProfileUpTo(made)]
      /\ disk.profile \in [Kinds -> FileProfileUpTo(made)]
  BY ClientFields, FilesFields, Zenon DEF AccountType, NoProfile
\* Each profile stays or is dropped or is there.
<1>1. ASSUME \A k \in Kinds :
               /\ \/ client'.profile[k].id = client.profile[k].id
                     /\ client'.profile[k].keypair = client.profile[k].keypair
                  \/ client'.profile[k].keypair = 0 \/ client'.profile[k].id # 0
               /\ \/ disk'.profile[k] = disk.profile[k]
                  \/ disk'.profile[k].id = client'.profile[k].id
                     /\ disk'.profile[k].keypair = client'.profile[k].keypair
      PROVE  EmptyInv'
  BY <1>1 DEF EmptyInv
<1>2. CASE Stays \/ LoadsKey \/ DropsExpired \/ LoadsPrekeys \/ CreatesPrekeys \/ Imports \/ Uses
  <2>1. client'.profile = client.profile /\ disk'.profile = disk.profile
    BY <1>2, Zenon DEF Stays, LoadsKey, DropsExpired, LoadsPrekeys, CreatesPrekeys, Creates,
                       Imports, Uses, ClientIs, ClientStays, DiskIs, DiskStays
  <2> QED
    BY <1>1, <2>1
<1>3. CASE CreatesKey \/ Resets
  <2>1. /\ disk'.profile = disk.profile
        /\ \A k \in Kinds : client'.profile[k] \in {client.profile[k], NoProfile}
    <3>1. CASE CreatesKey
      BY <3>1 DEF CreatesKey, ClientIs, DiskIs
    <3>2. CASE Resets
      BY <3>2 DEF Resets, ClientIs, DiskStays, DiskIs
    <3> QED
      BY <1>3, <3>1, <3>2
  <2> QED
    BY <1>0, <1>1, <2>1
<1>4. CASE ExaminesProfile
  <2>1. PICK j \in Kinds, p \in ProfileUpTo(made), next \in Stages : Examined(j, p, next)
    BY <1>4, Zenon DEF ExaminesProfile
  <2> DEFINE r == [p EXCEPT !.has_validated = TRUE]
  <2>2. r.id = p.id
    BY <1>0, SameInFile
  <2> HIDE DEF r
  <2>3. /\ disk'.profile = disk.profile
        /\ \/ client'.profile = [client.profile EXCEPT ![j] = r]
              /\ IsValid(j, p) /\ ~IsCloseToExpiry(p)
           \/ client'.profile = [client.profile EXCEPT ![j] = NoProfile]
    BY <2>1 DEF Examined, ClientIs, DiskIs, r
  <2>4. IsValid(j, p) /\ ~IsCloseToExpiry(p) => r.id # 0
    BY <2>2, GoodMeans DEF GoodFor
  <2>5. \A k \in Kinds : \/ client'.profile[k] = client.profile[k]
                         \/ client'.profile[k].id # 0 \/ client'.profile[k].keypair = 0
    BY <1>0, <2>3, <2>4
  <2> QED
    BY <1>1, <2>3, <2>5
<1>5. CASE CreatesProfile
  <2>1. PICK j \in Kinds :
          /\ client'.profile = [client.profile EXCEPT ![j] = NewProfile(j)]
          /\ disk'.profile = [disk.profile EXCEPT ![j] = ToFile(j, NewProfile(j))]
    BY <1>5 DEF CreatesProfile, ClientIs, DiskIs
  <2> DEFINE q == NewProfile(j)
  <2>2. q \in ProfileUpTo(made + 1) /\ q.id = made + 1
    BY NewProfileType, Zenon
  <2>3. client'.profile = [client.profile EXCEPT ![j] = q]
        /\ disk'.profile = [disk.profile EXCEPT ![j] = ToFile(j, q)]
    BY <2>1
  <2> HIDE DEF q
  <2>4. ToFile(j, q).id = q.id /\ ToFile(j, q).keypair = q.keypair
    <3>1. made + 1 \in Nat
      BY <1>0
    <3> QED
      BY <2>2, <3>1, ToFileType, Zenon
  <2>5. q.id # 0
    BY <1>0, <2>2
  <2> QED
    BY <1>0, <1>1, <2>3, <2>4, <2>5
<1>6. CASE Marks \/ Releases \/ Settles
  <2>1. \A k \in Kinds :
          /\ \/ client'.profile[k] = Marked(client.profile[k])
             \/ client'.profile[k] = Released(client.profile[k])
             \/ client'.profile[k] = Settled(client.profile[k])
          /\ disk'.profile[k] \in {disk.profile[k], ToFile(k, client'.profile[k])}
    BY <1>6 DEF Marks, Releases, Settles, ClientIs, DiskIs, DiskStays
  <2>2. ASSUME NEW k \in Kinds
        PROVE  /\ client'.profile[k] \in ProfileUpTo(made)
               /\ client'.profile[k].id = client.profile[k].id
               /\ client'.profile[k].keypair = client.profile[k].keypair
    <3> DEFINE p == client.profile[k]
    <3>1. p \in ProfileUpTo(made)
      BY <1>0
    <3>2. client'.profile[k] \in {Marked(p), Released(p), Settled(p)}
      BY <2>1
    <3> HIDE DEF p
    <3>3. /\ Marked(p) \in ProfileUpTo(made) /\ SameProfile(p, Marked(p))
          /\ Released(p) \in ProfileUpTo(made) /\ SameProfile(p, Released(p))
          /\ Settled(p) \in ProfileUpTo(made) /\ SameProfile(p, Settled(p))
      BY <1>0, <3>1, ProfileMarks, Zenon
    <3>4. client'.profile[k] \in ProfileUpTo(made) /\ SameProfile(p, client'.profile[k])
      BY <3>2, <3>3
    <3> QED
      BY <3>4, Zenon DEF SameProfile, p
  <2>3. \A k \in Kinds : /\ ToFile(k, client'.profile[k]).id = client'.profile[k].id
                         /\ ToFile(k, client'.profile[k]).keypair = client'.profile[k].keypair
    BY <1>0, <2>2, ToFileType
  <2> QED
    BY <1>1, <2>1, <2>2, <2>3
<1> QED
  BY <1>2, <1>3, <1>4, <1>5, <1>6, Zenon DEF AccountDoes, EnsureDoes


\* What a step of the account does to the files.
FilesKept(k) ==
  /\ FilesInv(k, disk'.profile[k], disk'.expired[k], disk'.key, stage', now')
  /\ \A s : s.expires \in Int /\ Found(s, disk.profile[k], disk.expired[k], now)
              => Found(s, disk'.profile[k], disk'.expired[k], now')

LEMMA FilesNext ==
  ASSUME AccountType, AccountType', SyncInv, EmptyInv, AccountDoes,
         \A k \in Kinds : 2 * Buffer <= Life[k],
         happened \subseteq {"create", "crash"}, happened' \subseteq {"create", "crash"},
         Settles => \A k \in Kinds : client.profile[k].is_publishing => client.profile[k].id # 0,
         \A k \in Kinds : FilesInv(k, disk.profile[k], disk.expired[k], disk.key, stage, now)
  PROVE  \A k \in Kinds : FilesKept(k)
<1>0. /\ made \in Nat /\ now \in 0 .. MaxTime /\ now' \in 0 .. MaxTime
      /\ now \in Int /\ now' \in Int /\ Buffer \in Nat
      /\ disk \in FilesUpTo(made)
      /\ client.profile \in [Kinds -> ProfileUpTo(made)]
      /\ disk.profile \in [Kinds -> FileProfileUpTo(made)]
      /\ disk.expired \in [Kinds -> FileProfileUpTo(made)]
      /\ client.key \in [KeyNames -> 0 .. made] /\ disk.key \in [KeyNames -> 0 .. made]
      /\ "keypair" \in KeyNames /\ "forging_key" \in KeyNames
      /\ KeyNames = {"keypair", "privkey_v3", "forging_key"}
      /\ "import" \notin happened
  <2>1. now \in Int /\ now' \in Int /\ Buffer \in Nat
    BY AccountBounds, TimesAssumption DEF AccountType
  <2> QED
    BY <2>1, ClientFields, FilesFields, Zenon DEF AccountType, KeyNames
<1>1. \A k \in Kinds :
        /\ disk.profile[k].expires \in Int /\ disk.expired[k].expires \in Int
        /\ disk.profile[k].id \in 0 .. made /\ disk.expired[k].id \in 0 .. made
  <2>1. \A f \in FileProfileUpTo(made) : f.expires \in Expiries /\ f.id \in 0 .. made
    BY Zenon DEF FileProfileUpTo
  <2>2. Expiries \subseteq Int
    <3>1. Expiries \subseteq Nat
      BY <1>0, NewExpiry DEF Kinds
    <3> QED
      BY <3>1
  <2>3. ASSUME NEW k \in Kinds
        PROVE  disk.profile[k] \in FileProfileUpTo(made) /\ disk.expired[k] \in FileProfileUpTo(made)
    BY <1>0
  <2> QED
    BY <2>1, <2>2, <2>3, Zenon
<1>2. AllKeys => \A name \in KeyNames : client.key[name] = disk.key[name] /\ disk.key[name] # 0
  BY <1>0 DEF SyncInv, AllKeys
\* The files of one kind stay, up to the mark.
<1>3. ASSUME NEW k \in Kinds, disk'.expired[k] = disk.expired[k],
             disk'.profile[k].id = disk.profile[k].id,
             disk'.profile[k].keypair = disk.profile[k].keypair,
             disk'.profile[k].expires = disk.profile[k].expires,
             k = "client" => disk'.profile[k].forging_key = disk.profile[k].forging_key,
             Own(k, disk.profile[k], disk'.key), Own(k, disk.expired[k], disk'.key),
             now <= now', stage' = Create(k) => stage = Create(k) /\ now' = now
      PROVE  FilesKept(k)
  <2>1. Own(k, disk'.profile[k], disk'.key)
    BY <1>3 DEF Own
  <2>2. Paired(disk'.profile[k], disk'.expired[k])
    BY <1>3 DEF Paired, FilesInv
  <2>3. stage' = Create(k) => Replaceable(disk'.profile[k], disk'.expired[k], now')
    BY <1>3 DEF Replaceable, FilesInv
  <2>4. ASSUME NEW s, s.expires \in Int, Found(s, disk.profile[k], disk.expired[k], now)
        PROVE  Found(s, disk'.profile[k], disk'.expired[k], now')
    <3>1. s.expires <= now => s.expires <= now'
      BY <1>0, <1>3, <2>4
    <3> QED
      BY <1>3, <2>4, <3>1, Zenon DEF Found
  <2> QED
    BY <1>3, <2>1, <2>2, <2>3, <2>4 DEF FilesKept, FilesInv
<1>4. \A k \in Kinds : Own(k, disk.profile[k], disk.key) /\ Own(k, disk.expired[k], disk.key)
  BY DEF FilesInv
<1>5. \A k \in Kinds : Create(k) \notin {"idle", "fingerprints", "check_client"} \cup KeyNames
  BY StagesOf, OtherStages DEF Kinds, Create, KeyNames
<1>6. ASSUME disk'.key = disk.key, disk'.profile = disk.profile, disk'.expired = disk.expired,
             now <= now',
             \A k \in Kinds : stage' = Create(k) => stage = Create(k) /\ now' = now
      PROVE  \A k \in Kinds : FilesKept(k)
  BY <1>3, <1>4, <1>6
<1>7. CASE Stays
  <2>1. disk'.key = disk.key /\ disk'.profile = disk.profile /\ disk'.expired = disk.expired
    BY <1>7, Zenon DEF Stays, DiskStays, DiskIs
  <2>2. \A j \in Kinds, k \in Kinds : AfterExpired(j) # Create(k)
    BY DEF AfterExpired, Create, Kinds
  <2>3. /\ now <= now'
        /\ \A k \in Kinds : stage' = Create(k) => stage = Create(k) /\ now' = now
    BY <1>0, <1>5, <1>7, <2>2 DEF Stays
  <2> QED
    BY <1>6, <2>1, <2>3
<1>8. CASE LoadsKey
  <2>1. disk'.key = disk.key /\ disk'.profile = disk.profile /\ disk'.expired = disk.expired
        /\ now' = now
    BY <1>8, Zenon DEF LoadsKey, DiskStays, DiskIs
  <2>2. PICK key : stage' = FirstMissing(key)
    BY <1>8 DEF LoadsKey
  <2>3. stage' \in {"check_client"} \cup KeyNames
    BY <2>2 DEF FirstMissing, KeyNames
  <2> QED
    BY <1>0, <1>5, <1>6, <2>1, <2>3
<1>9. CASE LoadsPrekeys \/ CreatesPrekeys \/ Uses \/ Marks \/ Releases \/ Resets
  <2>1. /\ disk'.key = disk.key /\ disk'.profile = disk.profile /\ disk'.expired = disk.expired
        /\ now' = now /\ stage' \in {"idle", "fingerprints"}
    BY <1>9, Zenon DEF LoadsPrekeys, CreatesPrekeys, Creates, Uses, Marks, Releases, Resets,
                       DiskStays, DiskIs
  <2> QED
    BY <1>0, <1>5, <1>6, <2>1
<1>10. CASE CreatesKey
  <2>1. PICK name \in KeyNames :
          /\ stage' = FirstMissing(client'.key) /\ now' = now
          /\ disk'.key = [disk.key EXCEPT ![name] = made + 1]
          /\ disk'.profile = disk.profile /\ disk'.expired = disk.expired
          /\ disk.key[name] = 0
    BY <1>10 DEF CreatesKey, DiskIs
  <2>2. stage' \in {"check_client"} \cup KeyNames
    BY <2>1 DEF FirstMissing, KeyNames
  <2>3. ASSUME NEW k \in Kinds, NEW f, Own(k, f, disk.key)
        PROVE  Own(k, f, disk'.key)
    BY <1>0, <2>1, <2>3 DEF Own
  <2> QED
    BY <1>0, <1>3, <1>4, <1>5, <2>1, <2>2, <2>3
<1>11. CASE ExaminesProfile
  <2>1. PICK j \in Kinds : \E p \in ProfileUpTo(made), next \in Stages :
          /\ \/ stage = Check(j) /\ next = Load(j) /\ p = client.profile[j]
             \/ stage = Load(j) /\ next = Create(j) /\ p = Loaded(disk, j)
          /\ Examined(j, p, next) /\ now' = now
    BY <1>11 DEF ExaminesProfile
  <2>2. PICK p \in ProfileUpTo(made), next \in Stages :
          /\ \/ stage = Check(j) /\ next = Load(j) /\ p = client.profile[j]
             \/ stage = Load(j) /\ next = Create(j) /\ p = Loaded(disk, j)
          /\ Examined(j, p, next) /\ now' = now
    BY <2>1
  <2>3. AllKeys
    BY <2>2, StagesOf DEF SyncInv
  \* p is what the file holds.
  <2>4. /\ p.id = 0 => p.keypair = 0
        /\ p.id # 0 \/ p = Loaded(disk, j) =>
             /\ p.id = disk.profile[j].id /\ p.keypair = disk.profile[j].keypair
             /\ p.expires = disk.profile[j].expires
             /\ j = "client" => p.forging_key = disk.profile[j].forging_key
    <3>1. CASE p = Loaded(disk, j)
      <4>1. /\ p.id = disk.profile[j].id /\ p.keypair = disk.profile[j].keypair
            /\ p.expires = disk.profile[j].expires
            /\ j = "client" => p.forging_key = disk.profile[j].forging_key
        <5>1. made \in Nat /\ disk \in FilesUpTo(made)
          BY <1>0
        <5> QED
          BY ONLY <3>1, <5>1, LoadedType, j \in Kinds, Zenon
      <4> QED
        BY <4>1 DEF EmptyInv
    <3>2. CASE p = client.profile[j] /\ p # Loaded(disk, j)
      <4>1. LET f == ToFile(j, p) IN
            /\ f.id = p.id /\ f.keypair = p.keypair /\ f.expires = p.expires
            /\ j = "client" => f.forging_key = p.forging_key
        BY <1>0, ToFileType
      <4>2. p.id # 0 => disk.profile[j] = ToFile(j, p)
        BY <3>2 DEF SyncInv
      <4> QED
        BY <3>2, <4>1, <4>2 DEF EmptyInv
    <3> QED
      BY <2>2, <3>1, <3>2
  <2> DEFINE g == ToFile(j, p)
  <2>5. /\ g.id = p.id /\ g.keypair = p.keypair /\ g.expires = p.expires
        /\ j = "client" => g.forging_key = p.forging_key
    BY <1>0, ToFileType
  <2>6. p.expires \in Int
    <3>1. p.expires \in Expiries
      BY Zenon DEF ProfileUpTo
    <3> QED
      BY <1>0, <3>1, NewExpiry
  <2>7. /\ disk'.key = disk.key /\ disk'.profile = disk.profile
        /\ disk'.expired = IF Outdated(j, p) THEN [disk.expired EXCEPT ![j] = g]
                                             ELSE disk.expired
        /\ stage' \in {Expired(j), next}
        /\ stage' = next => ~(IsValid(j, p) /\ ~IsCloseToExpiry(p)) \/ next = Expired(j)
    BY <2>2 DEF Examined, DiskIs
  <2> HIDE DEF g
  <2>8. ASSUME NEW k \in Kinds, k # j PROVE FilesKept(k)
    <3>1. stage' # Create(k)
      BY <2>2, <2>7, <2>8 DEF Create, Load, Expired, Kinds
    <3>2. disk'.expired[k] = disk.expired[k]
      BY <1>0, <2>7, <2>8
    <3> QED
      BY <1>0, <1>3, <1>4, <2>2, <2>7, <3>1, <3>2
  <2>9. FilesKept(j)
    <3> DEFINE f == disk.profile[j]
               e == disk.expired[j]
    <3>1. /\ f.expires \in Int /\ e.expires \in Int /\ Own(j, f, disk.key) /\ Own(j, e, disk.key)
          /\ Paired(f, e)
      BY <1>1, <1>4 DEF FilesInv
    <3>2. disk'.profile[j] = f /\ disk'.expired[j] = IF Outdated(j, p) THEN g ELSE e
      BY <1>0, <2>7
    <3>3. Outdated(j, p) => /\ p.id # 0 /\ p.expires - Buffer <= now
                            /\ p.id = f.id /\ p.expires = f.expires /\ p.keypair = f.keypair
                            /\ j = "client" => p.forging_key = f.forging_key
      BY <1>0, <2>3, <2>4, <2>6, OutdatedMeans
    \* The last profile that may be loaded is of no use.
    <3>4. stage' = Create(j) /\ f.id # 0 =>
            f.expires - Buffer <= now /\ (f.expires <= now \/ Outdated(j, p))
      <4> SUFFICES ASSUME stage' = Create(j), f.id # 0
                   PROVE  f.expires - Buffer <= now /\ (f.expires <= now \/ Outdated(j, p))
        OBVIOUS
      <4>1. p = Loaded(disk, j) /\ next = Create(j) /\ Create(j) # Expired(j)
        BY <2>2, <2>7 DEF Create, Load, Expired, Kinds
      <4>2. ~(IsValid(j, p) /\ ~IsCloseToExpiry(p))
        BY <2>7, <4>1
      <4>3. /\ p.id = f.id /\ p.keypair = f.keypair /\ p.expires = f.expires
            /\ j = "client" => p.forging_key = f.forging_key
        BY <2>4, <4>1
      <4>4. Own(j, f, client.key)
        BY <1>0, <1>2, <2>3, <3>1 DEF Own
      <4>5. CASE f.expires <= now
        BY <1>0, <3>1, <4>5
      <4>6. CASE ~(f.expires <= now)
        <5> HIDE DEF f
        <5>1. IsValid(j, p)
          BY <4>3, <4>4, <4>6, OwnIsValid
        <5>2. IsCloseToExpiry(p)
          BY <4>2, <5>1
        <5> QED
          BY <4>3, <5>1, <5>2 DEF Outdated, IsCloseToExpiry
      <4> QED
        BY <4>5, <4>6
    <3> HIDE DEF f, e
    <3>5. CASE Outdated(j, p)
      <4>1. g.id = f.id /\ g.expires = f.expires /\ Own(j, g, disk.key)
        BY <2>5, <3>1, <3>3, <3>5 DEF Own
      <4>2. Paired(f, g) /\ \A s : Found(s, f, e, now) => Found(s, f, g, now)
        BY <1>0, <3>1, <3>3, <3>5, <4>1, OutdatedIsKept
      <4>3. stage' = Create(j) => Replaceable(f, g, now)
        BY <3>4, <4>1 DEF Replaceable
      <4>4. disk'.profile[j] = f /\ disk'.expired[j] = g
        BY <3>2, <3>5
      <4>5. FilesInv(j, f, g, disk.key, stage', now)
        BY <3>1, <4>1, <4>2, <4>3 DEF FilesInv
      <4> QED
        BY <2>2, <2>7, <4>2, <4>4, <4>5 DEF FilesKept, f, e
    <3>6. CASE ~Outdated(j, p)
      <4>1. stage' = Create(j) => Replaceable(f, e, now)
        BY <3>4, <3>6 DEF Replaceable
      <4>2. FilesInv(j, f, e, disk.key, stage', now)
        BY <3>1, <4>1 DEF FilesInv
      <4> QED
        BY <2>2, <2>7, <3>2, <3>6, <4>2 DEF FilesKept, f, e
    <3> QED
      BY <3>5, <3>6
  <2> QED
    BY <2>8, <2>9
<1>12. CASE CreatesProfile
  <2>1. PICK j \in Kinds :
          /\ stage = Create(j) /\ stage' = Expired(j) /\ now' = now /\ disk'.key = disk.key
          /\ disk'.profile = [disk.profile EXCEPT ![j] = ToFile(j, NewProfile(j))]
          /\ disk'.expired = disk.expired
    BY <1>12 DEF CreatesProfile, DiskIs
  <2>2. AllKeys /\ \A k \in Kinds : stage' # Create(k)
    BY <2>1, StagesOf DEF SyncInv, Create, Expired, Kinds
  <2> DEFINE q == NewProfile(j)
             g == ToFile(j, q)
             f == disk.profile[j]
             e == disk.expired[j]
  <2>3. /\ q \in ProfileUpTo(made + 1) /\ q.id = made + 1
        /\ q.keypair = client.key["keypair"]
        /\ q.forging_key = IF j = "client" THEN client.key["forging_key"] ELSE 0
        /\ q.expires = now + Life[j]
    BY NewProfileType, Zenon
  <2>4. disk'.profile = [disk.profile EXCEPT ![j] = g]
    BY <2>1
  <2> HIDE DEF q
  <2>5. /\ g.id = q.id /\ g.keypair = q.keypair /\ g.expires = q.expires
        /\ g.forging_key = IF j = "client" THEN q.forging_key ELSE 0
    <3>1. made + 1 \in Nat
      BY <1>0
    <3> QED
      BY <2>3, <3>1, ToFileType, Zenon
  <2> HIDE DEF g
  <2>6. /\ g.id # 0 /\ g.id # e.id /\ g.expires = now + Life[j]
        /\ Own(j, g, disk.key)
    <3>1. g.id # 0 /\ g.id # e.id
      BY <1>0, <1>1, <2>3, <2>5
    <3> QED
      BY <1>0, <1>2, <2>2, <2>3, <2>5, <3>1 DEF Own
  <2>7. /\ f.expires \in Int /\ e.expires \in Int /\ Paired(f, e) /\ Replaceable(f, e, now)
        /\ Own(j, e, disk.key) /\ Life[j] \in Nat /\ 2 * Buffer <= Life[j]
    BY <1>1, <1>4, <2>1, LifeAssumption DEF FilesInv
  <2>8. disk'.profile[j] = g /\ disk'.expired[j] = e
    BY <1>0, <2>1, <2>4
  <2> HIDE DEF f, e
  <2>9. Paired(g, e) /\ \A s : Found(s, f, e, now) => Found(s, g, e, now)
    BY <1>0, <2>6, <2>7, NewReplaces
  <2>10. FilesInv(j, g, e, disk.key, stage', now)
    BY <2>2, <2>6, <2>7, <2>9 DEF FilesInv
  <2>11. FilesKept(j)
    BY <2>1, <2>8, <2>9, <2>10 DEF FilesKept, f, e
  <2>12. ASSUME NEW k \in Kinds, k # j PROVE FilesKept(k)
    <3>1. disk'.profile[k] = disk.profile[k] /\ disk'.expired[k] = disk.expired[k]
      BY <1>0, <2>1, <2>4, <2>12
    <3> QED
      BY <1>0, <1>3, <1>4, <2>1, <2>2, <3>1
  <2> QED
    BY <2>11, <2>12
<1>13. CASE DropsExpired
  <2>1. PICK j \in Kinds :
          /\ stage = Expired(j) /\ stage' = AfterExpired(j) /\ now' = now
          /\ ~IsValidExpired(j, LoadedExpired(disk, j))
          /\ disk'.key = disk.key /\ disk'.profile = disk.profile
          /\ disk'.expired = [disk.expired EXCEPT ![j] = NoFileProfile]
    BY <1>13 DEF DropsExpired, DiskIs
  <2>2. AllKeys /\ \A k \in Kinds : stage' # Create(k)
    BY <2>1, StagesOf DEF SyncInv, Create, AfterExpired, Kinds
  <2> DEFINE f == disk.profile[j]
             e == disk.expired[j]
             q == LoadedExpired(disk, j)
  <2>3. /\ q.id = e.id /\ q.keypair = e.keypair /\ q.expires = e.expires
        /\ j = "client" => q.forging_key = e.forging_key
    <3>1. made \in Nat /\ disk \in FilesUpTo(made)
      BY <1>0
    <3> QED
      BY ONLY <3>1, LoadedExpiredType, j \in Kinds, Zenon
  <2>4. Own(j, e, client.key) /\ Own(j, f, disk.key) /\ ~IsValidExpired(j, q)
    BY <1>0, <1>2, <1>4, <2>1, <2>2 DEF Own
  <2>5. disk'.profile[j] = f /\ disk'.expired[j] = NoFileProfile /\ NoFileProfile.id = 0
    BY <1>0, <2>1 DEF NoFileProfile
  <2> HIDE DEF f, e, q
  <2>6. e.id # 0 => e.expires <= now
    BY <2>3, <2>4, OwnIsValid
  <2>7. \A s : Found(s, f, e, now) => Found(s, f, NoFileProfile, now)
    BY <2>6 DEF Found
  <2>8. FilesInv(j, f, NoFileProfile, disk.key, stage', now)
    BY <2>2, <2>4, <2>5 DEF FilesInv, Own, Paired
  <2>9. FilesKept(j)
    BY <2>1, <2>5, <2>7, <2>8 DEF FilesKept, f, e
  <2>10. ASSUME NEW k \in Kinds, k # j PROVE FilesKept(k)
    <3>1. disk'.profile[k] = disk.profile[k] /\ disk'.expired[k] = disk.expired[k]
      BY <1>0, <2>1, <2>10
    <3> QED
      BY <1>0, <1>3, <1>4, <2>1, <2>2, <3>1
  <2> QED
    BY <2>9, <2>10
<1>14. CASE Settles
  <2>1. /\ disk'.key = disk.key /\ disk'.expired = disk.expired /\ now' = now
        /\ stage' = "idle"
        /\ \A k \in Kinds :
             \/ disk'.profile[k] = disk.profile[k]
             \/ /\ client.profile[k].is_publishing
                /\ disk'.profile[k] = ToFile(k, Settled(client.profile[k]))
    BY <1>14 DEF Settles, DiskIs
  <2>2. ASSUME NEW k \in Kinds PROVE FilesKept(k)
    <3> DEFINE p == client.profile[k]
               q == Settled(p)
               f == disk'.profile[k]
    <3>1. f # disk.profile[k] => f = ToFile(k, q) /\ disk.profile[k] = ToFile(k, p)
      BY <1>14, <2>1 DEF SyncInv
    <3>2. p \in ProfileUpTo(made)
      BY <1>0
    <3> HIDE DEF p
    <3>3. q \in ProfileUpTo(made) /\ SameProfile(p, q)
      BY <1>0, <3>2, ProfileMarks, Zenon
    <3> HIDE DEF q
    <3>4. /\ ToFile(k, q).id = q.id /\ ToFile(k, q).keypair = q.keypair
          /\ ToFile(k, q).expires = q.expires
          /\ k = "client" => ToFile(k, q).forging_key = q.forging_key
      BY <1>0, <3>3, ToFileType
    <3>5. /\ ToFile(k, p).id = p.id /\ ToFile(k, p).keypair = p.keypair
          /\ ToFile(k, p).expires = p.expires
          /\ k = "client" => ToFile(k, p).forging_key = p.forging_key
      BY <1>0, <3>2, ToFileType
    <3>6. /\ q.id = p.id /\ q.keypair = p.keypair /\ q.expires = p.expires
          /\ q.forging_key = p.forging_key
      BY <3>3, Zenon DEF SameProfile
    <3>7. /\ f.id = disk.profile[k].id /\ f.keypair = disk.profile[k].keypair
          /\ f.expires = disk.profile[k].expires
          /\ k = "client" => f.forging_key = disk.profile[k].forging_key
      <4> HIDE DEF f
      <4> QED
        BY <3>1, <3>4, <3>5, <3>6
    <3> QED
      BY <1>0, <1>3, <1>4, <1>5, <2>1, <3>7
  <2> QED
    BY <2>2
<1>15. CASE Imports
  BY <1>15 DEF Imports
<1> QED
  BY <1>7, <1>8, <1>9, <1>10, <1>11, <1>12, <1>13, <1>14, <1>15, Zenon
  DEF AccountDoes, EnsureDoes


LEMMA ServedNext ==
  ASSUME TypeInv, TypeInv', SyncInv, EmptyInv, PrekeysInv, MarksInv, ServedInv, NextDoes,
         \A k \in Kinds : 2 * Buffer <= Life[k]
  PROVE  ServedInv'
<1>0. /\ AccountType /\ AccountType' /\ made \in Nat /\ now \in 0 .. MaxTime
      /\ client.profile \in [Kinds -> ProfileUpTo(made)]
      /\ AccountDoes
  BY ClientFields, AccountStep, Zenon DEF TypeInv, AccountType
<1>1. happened \subseteq happened'
  BY <1>0, PrekeysInStepKept DEF PrekeysInv
<1> SUFFICES ASSUME happened' \subseteq {"create", "crash"}
             PROVE  \A k \in Kinds :
                      /\ FilesInv(k, disk'.profile[k], disk'.expired[k], disk'.key, stage', now')
                      /\ Found(server'.profile[k], disk'.profile[k], disk'.expired[k], now')
                      /\ \A x \in wire' :
                           Found(x.body.profile[k], disk'.profile[k], disk'.expired[k], now')
  BY DEF ServedInv
<1>2. \A k \in Kinds :
        /\ FilesInv(k, disk.profile[k], disk.expired[k], disk.key, stage, now)
        /\ Found(server.profile[k], disk.profile[k], disk.expired[k], now)
        /\ \A m \in wire : Found(m.body.profile[k], disk.profile[k], disk.expired[k], now)
  BY <1>1 DEF ServedInv
<1>3. Settles => \A k \in Kinds : client.profile[k].is_publishing => client.profile[k].id # 0
  <2> SUFFICES ASSUME Settles, NEW k \in Kinds, client.profile[k].is_publishing
               PROVE  client.profile[k].id # 0
    OBVIOUS
  <2>1. PICK m \in wire : m.type = "success" /\ m.n = request.n /\ request.mac_key
    BY DEF Settles, Answered
  <2>2. IsMarked(client.profile[k].id)
    BY DEF IsMarked
  <2>3. client.profile[k].id \in accepted
    BY <2>1, <2>2 DEF MarksInv, AnswerInv
  <2> QED
    BY <2>3 DEF TypeInv, ManagerType
<1>4. \A k \in Kinds : FilesKept(k)
  <2>1. happened \subseteq {"create", "crash"}
    BY <1>1
  <2> QED
    BY <1>0, <1>2, <1>3, <2>1, FilesNext
\* What is sent is in the files.
<1>5. ASSUME NEW x \in wire', NEW k \in Kinds
      PROVE  Found(x.body.profile[k], disk.profile[k], disk.expired[k], now)
  <2>1. CASE \E m \in wire : x.body = m.body
    BY <1>2, <2>1
  <2>2. CASE x.body \in {NoPublication, [NoPublication EXCEPT !.question = TRUE]}
    <3>1. x.body.profile[k].id = 0
      <4>1. /\ NoPublication.profile = [i \in Kinds |-> NothingSent]
            /\ [NoPublication EXCEPT !.question = TRUE].profile = [i \in Kinds |-> NothingSent]
        BY Zenon DEF NoPublication
      <4>2. x.body.profile = [i \in Kinds |-> NothingSent]
        BY <2>2, <4>1, Zenon
      <4> QED
        BY <4>2 DEF NothingSent
    <3> QED
      BY <3>1 DEF Found
  <2>3. CASE x.body = Publication
    <3> DEFINE p == client.profile[k]
    <3>1. x.body.profile = ProfilesToPublish(client)
      BY <1>0, <2>3, PublicationType, Zenon DEF Publication
    <3>2. x.body.profile[k] \in {Sent(p), NothingSent}
      BY <3>1 DEF ProfilesToPublish
    <3>3. p \in ProfileUpTo(made) /\ (p.id # 0 => disk.profile[k] = ToFile(k, p))
      BY <1>0 DEF SyncInv
    <3> HIDE DEF p
    <3>4. Sent(p).id = p.id /\ Sent(p).expires = p.expires /\ NothingSent.id = 0
      BY DEF Sent, NothingSent
    <3>5. ToFile(k, p).id = p.id /\ ToFile(k, p).expires = p.expires
      BY <1>0, <3>3, ToFileType
    <3> QED
      BY <3>2, <3>3, <3>4, <3>5 DEF Found
  <2> QED
    BY <2>1, <2>2, <2>3, BodiesSent
<1>6. ASSUME NEW k \in Kinds
      PROVE  Found(server'.profile[k], disk.profile[k], disk.expired[k], now)
  <2>1. CASE server'.profile = server.profile
    BY <1>2, <2>1
  <2>2. ASSUME NEW m \in wire, Accepts(m)
        PROVE  Found(server'.profile[k], disk.profile[k], disk.expired[k], now)
    <3>1. server'.profile[k] \in {server.profile[k], m.body.profile[k]}
      BY <2>2 DEF Accepts
    <3> QED
      BY <1>2, <3>1
  <2> QED
    BY <2>1, <2>2, ServerHolds
\* The times are numbers.
<1>7. /\ \A k \in Kinds : server'.profile[k].expires \in Int
      /\ \A k \in Kinds : \A x \in wire' : x.body.profile[k].expires \in Int
  <2>1. made' \in Nat /\ server' \in ServerUpTo(made') /\ wire' \subseteq MessageUpTo(made')
    BY <1>0 DEF TypeInv, ManagerType, AccountType
  <2>2. \A s \in SentProfile(made') : s.expires \in Int
    <3>1. \A s \in SentProfile(made') : s.expires \in Expiries
      BY Zenon DEF SentProfile
    <3>2. Expiries \subseteq Int
      <4>1. Expiries \subseteq Nat
        BY <1>0, NewExpiry DEF Kinds
      <4> QED
        BY <4>1
    <3> QED
      BY <3>1, <3>2, Zenon
  <2>3. server'.profile \in [Kinds -> SentProfile(made')]
    BY <2>1, Zenon DEF ServerUpTo
  <2>4. \A x \in wire' : x.body.profile \in [Kinds -> SentProfile(made')]
    <3>1. \A x \in MessageUpTo(made') : x.body \in BodyUpTo(made')
      BY Zenon DEF MessageUpTo
    <3>2. \A b \in BodyUpTo(made') : b.profile \in [Kinds -> SentProfile(made')]
      BY Zenon DEF BodyUpTo
    <3> QED
      BY <2>1, <3>1, <3>2
  <2> QED
    BY <2>2, <2>3, <2>4
<1> QED
  BY <1>4, <1>5, <1>6, <1>7 DEF FilesKept

\* The private part of a prekey profile: it is in the files as long as the profile is.
Private(p) == p.id # 0 => p.keys

PrivateInv ==
  /\ Private(client.profile["prekey"])
  /\ Private(disk.profile["prekey"]) /\ Private(disk.expired["prekey"])

LEMMA PrivateNext ==
  ASSUME AccountType, PrivateInv, AccountDoes
  PROVE  PrivateInv'
<1>0. /\ made \in Nat /\ disk \in FilesUpTo(made) /\ "prekey" \in Kinds
      /\ client.profile \in [Kinds -> ProfileUpTo(made)]
      /\ disk.profile \in [Kinds -> FileProfileUpTo(made)]
      /\ disk.expired \in [Kinds -> FileProfileUpTo(made)]
  BY ClientFields, FilesFields, Zenon DEF AccountType, Kinds
<1>1. Private(NoProfile) /\ Private(NoFileProfile)
  BY Zenon DEF Private, NoProfile, NoFileProfile
\* It is kept when a profile is written or read.
<1>2. ASSUME NEW n \in Nat, NEW p \in ProfileUpTo(n), Private(p)
      PROVE  Private(ToFile("prekey", p))
  <2>1. ToFile("prekey", p).id = p.id /\ ToFile("prekey", p).keys = p.keys
    BY <1>0, ToFileType, ToFileKeys, Zenon
  <2> QED
    BY <1>2, <2>1 DEF Private
<1>3. Private(Loaded(disk, "prekey"))
  <2>1. /\ Loaded(disk, "prekey").id = disk.profile["prekey"].id
        /\ Loaded(disk, "prekey").keys = disk.profile["prekey"].keys
    BY <1>0, LoadedType, Zenon
  <2> QED
    BY <2>1 DEF PrivateInv, Private
<1>4. CASE \/ Stays \/ LoadsKey \/ DropsExpired \/ LoadsPrekeys \/ CreatesPrekeys
           \/ Imports \/ Uses
  <2>1. /\ client'.profile = client.profile /\ disk'.profile = disk.profile
        /\ \/ disk'.expired = disk.expired
           \/ \E k \in Kinds : disk'.expired = [disk.expired EXCEPT ![k] = NoFileProfile]
    BY <1>4, Zenon DEF Stays, LoadsKey, DropsExpired, LoadsPrekeys, CreatesPrekeys, Creates,
                       Imports, Uses, ClientIs, ClientStays, DiskIs, DiskStays
  <2>2. disk'.expired["prekey"] \in {disk.expired["prekey"], NoFileProfile}
    BY <1>0, <2>1
  <2> QED
    BY <1>1, <2>1, <2>2 DEF PrivateInv
<1>5. CASE CreatesKey \/ Resets
  <2>1. /\ disk'.profile = disk.profile /\ disk'.expired = disk.expired
        /\ client'.profile["prekey"] \in {client.profile["prekey"], NoProfile}
    <3>1. CASE CreatesKey
      BY <1>0, <3>1 DEF CreatesKey, ClientIs, DiskIs
    <3>2. CASE Resets
      BY <1>0, <3>2 DEF Resets, ClientIs, DiskStays, DiskIs
    <3> QED
      BY <1>5, <3>1, <3>2
  <2> QED
    BY <1>1, <2>1 DEF PrivateInv
<1>6. CASE ExaminesProfile
  <2>1. PICK j \in Kinds, p \in ProfileUpTo(made), next \in Stages :
          /\ p \in {client.profile[j], Loaded(disk, j), NoProfile}
          /\ Examined(j, p, next)
    BY <1>6 DEF ExaminesProfile
  <2> DEFINE r == [p EXCEPT !.has_validated = TRUE]
  <2>2. r.id = p.id /\ r.keys = p.keys
    BY <1>0, SameInFile
  <2> HIDE DEF r
  <2>3. /\ disk'.profile = disk.profile
        /\ \/ client'.profile = [client.profile EXCEPT ![j] = r]
           \/ client'.profile = [client.profile EXCEPT ![j] = NoProfile]
        /\ \/ disk'.expired = disk.expired
           \/ disk'.expired = [disk.expired EXCEPT ![j] = ToFile(j, p)]
    BY <2>1 DEF Examined, ClientIs, DiskIs, r
  <2>4. CASE j = "prekey"
    <3>1. Private(p)
      BY <1>1, <1>3, <2>1, <2>4, Zenon DEF PrivateInv
    <3>2. Private(r) /\ Private(ToFile("prekey", p))
      <4>1. Private(r)
        BY <2>2, <3>1 DEF Private
      <4> QED
        BY <1>0, <1>2, <3>1, <4>1
    <3>3. /\ client'.profile["prekey"] \in {r, NoProfile}
          /\ disk'.expired["prekey"] \in {disk.expired["prekey"], ToFile("prekey", p)}
      BY <1>0, <2>3, <2>4, Zenon
    <3> QED
      BY <1>1, <2>3, <3>2, <3>3, Zenon DEF PrivateInv
  <2>5. CASE j # "prekey"
    <3>1. /\ client'.profile["prekey"] = client.profile["prekey"]
          /\ disk'.expired["prekey"] = disk.expired["prekey"]
      BY <1>0, <2>3, <2>5, Zenon
    <3> QED
      BY <2>3, <3>1 DEF PrivateInv
  <2> QED
    BY <2>4, <2>5
<1>7. CASE CreatesProfile
  <2>1. PICK j \in Kinds :
          /\ client'.profile = [client.profile EXCEPT ![j] = NewProfile(j)]
          /\ disk'.profile = [disk.profile EXCEPT ![j] = ToFile(j, NewProfile(j))]
          /\ disk'.expired = disk.expired
    BY <1>7 DEF CreatesProfile, ClientIs, DiskIs
  <2> DEFINE q == NewProfile("prekey")
  <2>2. Private(q) /\ Private(ToFile("prekey", q))
    <3>1. q \in ProfileUpTo(made + 1) /\ made + 1 \in Nat
      <4>1. q \in ProfileUpTo(made + 1)
        BY <1>0, NewProfileType, Zenon
      <4> QED
        BY <1>0, <4>1
    <3>2. Private(q)
      BY Zenon DEF Private, NewProfile, NewPrekeyProfile
    <3> HIDE DEF q
    <3> QED
      BY <1>2, <3>1, <3>2
  <2>3. /\ client'.profile["prekey"] \in {client.profile["prekey"], q}
        /\ disk'.profile["prekey"] \in {disk.profile["prekey"], ToFile("prekey", q)}
    BY <1>0, <2>1, Zenon
  <2> HIDE DEF q
  <2> QED
    BY <2>1, <2>2, <2>3, Zenon DEF PrivateInv
<1>8. CASE Marks \/ Releases \/ Settles
  <2> DEFINE p == client.profile["prekey"]
  <2>1. /\ client'.profile["prekey"] \in {Marked(p), Released(p), Settled(p)}
        /\ disk'.profile["prekey"] \in
             {disk.profile["prekey"], ToFile("prekey", client'.profile["prekey"])}
        /\ disk'.expired = disk.expired
    BY <1>0, <1>8 DEF Marks, Releases, Settles, ClientIs, DiskIs, DiskStays
  <2>2. p \in ProfileUpTo(made) /\ Private(p)
    BY <1>0 DEF PrivateInv
  <2> HIDE DEF p
  <2>3. /\ Marked(p) \in ProfileUpTo(made) /\ SameProfile(p, Marked(p))
        /\ Released(p) \in ProfileUpTo(made) /\ SameProfile(p, Released(p))
        /\ Settled(p) \in ProfileUpTo(made) /\ SameProfile(p, Settled(p))
    BY <1>0, <2>2, ProfileMarks, Zenon
  <2>4. /\ client'.profile["prekey"] \in ProfileUpTo(made)
        /\ SameProfile(p, client'.profile["prekey"])
    BY <2>1, <2>3
  <2>5. Private(client'.profile["prekey"])
    BY <2>2, <2>4, Zenon DEF Private, SameProfile
  <2>6. Private(ToFile("prekey", client'.profile["prekey"]))
    BY <1>0, <1>2, <2>4, <2>5
  <2> QED
    BY <2>1, <2>5, <2>6, Zenon DEF PrivateInv
<1> QED
  BY <1>4, <1>5, <1>6, <1>7, <1>8, Zenon DEF AccountDoes, EnsureDoes

\* A profile that the prekey server gives to peers is in the account's files, as the
\* current or the expired one, until it expires, and a prekey profile with its private part: check_if_expired_...,
\* move_..._profile_to_expired and ensure_valid_expired_... (client_orchestration.c) renew
\* and move profiles in several steps, between which the application may crash, and a
\* publication may arrive long after it was made.  It holds if a profile lives at least
\* twice as long as the time before its end at which it is renewed (client.c has 2 weeks
\* and 57 minutes): otherwise a profile could be renewed twice before the first one ends.
THEOREM ServedProfilesAreKept ==
  ASSUME \A k \in Kinds : 2 * Buffer <= Life[k]
  PROVE  Spec => []ServedProfilesKept
<1>1. Init => EmptyInv /\ ServedInv /\ PrivateInv
  <2> SUFFICES ASSUME Init PROVE EmptyInv /\ ServedInv /\ PrivateInv
    OBVIOUS
  <2>1. /\ client = NewClient /\ disk = NoFiles /\ stage = "idle" /\ wire = {}
        /\ server = [profile |-> [k \in Kinds |-> NothingSent], prekeys |-> {}, dakes |-> {}]
    BY DEF Init, AccountInit
  <2>2. /\ client.profile = [k \in Kinds |-> NoProfile]
        /\ disk.profile = [k \in Kinds |-> NoFileProfile]
        /\ disk.expired = [k \in Kinds |-> NoFileProfile]
        /\ server.profile = [k \in Kinds |-> NothingSent]
    BY <2>1, Zenon DEF NewClient, NoFiles
  <2>3. /\ NoProfile.keypair = 0 /\ NoFileProfile.keypair = 0 /\ NoFileProfile.id = 0
        /\ NothingSent.id = 0 /\ NoProfile.id = 0 /\ "prekey" \in Kinds
    BY DEF NoProfile, NoFileProfile, NothingSent, Kinds
  <2>4. \A k \in Kinds : stage # Create(k)
    BY <2>1, StagesOf
  <2>5. PrivateInv
    BY <2>2, <2>3 DEF PrivateInv, Private
  <2> QED
    BY <2>1, <2>2, <2>3, <2>4, <2>5 DEF EmptyInv, ServedInv, FilesInv, Own, Paired, Found
<1> DEFINE Inv == TypeInv /\ SyncInv /\ PrekeysInv /\ MarksInv
<1>2. Inv /\ Inv' /\ EmptyInv /\ ServedInv /\ PrivateInv /\ [Next]_vars
        => EmptyInv' /\ ServedInv' /\ PrivateInv'
  <2> SUFFICES ASSUME Inv, Inv', EmptyInv, ServedInv, PrivateInv, [Next]_vars
               PROVE  EmptyInv' /\ ServedInv' /\ PrivateInv'
    OBVIOUS
  <2>1. CASE Next
    <3>1. NextDoes /\ AccountDoes
      BY <2>1, NextStep, AccountStep
    <3> QED
      BY <3>1, EmptyNext, ServedNext, PrivateNext DEF TypeInv
  <2>2. CASE UNCHANGED vars
    BY <2>2, Zenon DEF vars, EmptyInv, ServedInv, PrivateInv
  <2> QED
    BY <2>1, <2>2
<1>3. ServedInv /\ PrivateInv => ServedProfilesKept
  <2> SUFFICES ASSUME ServedInv, PrivateInv, happened \subseteq {"create", "crash"},
                      NEW k \in Kinds, server.profile[k].id # 0,
                      ~IsExpired(server.profile[k])
               PROVE  \E f \in {disk.profile[k], disk.expired[k]} :
                        f.id = server.profile[k].id /\ (k = "prekey" => f.keys)
    BY DEF ServedProfilesKept
  <2>1. PICK f \in {disk.profile[k], disk.expired[k]} : f.id = server.profile[k].id
    BY DEF ServedInv, Found, IsExpired
  <2>2. k = "prekey" => f.keys
    BY <2>1, Zenon DEF PrivateInv, Private
  <2> QED
    BY <2>1, <2>2
<1>4. Spec => []Inv
  BY TypeAlways, SyncAlways, PrekeysAlways, TruthAlways, PTL
<1> HIDE DEF Inv
<1> QED
  BY <1>1, <1>2, <1>3, <1>4, PTL DEF Spec
=============================================================================

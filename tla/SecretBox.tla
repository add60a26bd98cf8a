------------------------------ MODULE SecretBox ------------------------------
(***************************************************************************)
(* The secrets of openring.yml at rest (shared/secret_box.py): the key     *)
(* file, which the web service creates on its first start, the encryption  *)
(* on every save, the migration of plaintext at a start                    *)
(* (web/src/main.py), and the decryption in the web service and in the     *)
(* notifier.  A secret in the file is what was entered and the key it is   *)
(* sealed with.                                                            *)
(***************************************************************************)
EXTENDS Integers, Sequences, SequencesExt

CONSTANTS
    Secrets,         \* the sensitive fields, in the order the walk takes them
    MaxKeys,         \* bound: keys generated
    MaxEntries,      \* bound: secrets entered
    MaxWebStarts     \* bound: starts of the web service

ASSUME BoxAssumption == MaxKeys \in Nat /\ MaxEntries \in Nat \ {0} /\ MaxWebStarts \in Nat

VARIABLES
    keyFile,    \* /data/secret_key: a key, NoKey or EmptyKey
    keys,       \* how many keys have been generated
    sealed,     \* sealed[s] = [value, key]: the field s in openring.yml
    starting,   \* where the web service is: "down", "key", "migrate", "up"
    webStarts,  \* how often it was started
    entered,    \* history: the value entered last for each field
    entries,    \* how many values have been entered
    notifier,   \* what the notifier read from the file last, or NotRead
    handmade,   \* history: the file was edited by hand since the last start
    lost,       \* history: a key was lost
    resaved     \* history: a start saved a file in which nothing was plaintext

boxVars == <<keyFile, keys, sealed, starting, webStarts, entered, entries, notifier,
             handmade, lost, resaved>>

Fields == ToSet(Secrets)
NoKey == 0
EmptyKey == -1
Key == 1..MaxKeys
Plaintext == 0                       \* the field is not sealed
Unset == [value |-> 0, key |-> Plaintext]
NotRead == [s \in Fields |-> Unset]
Sealing == [value : 0..MaxEntries, key : {Plaintext} \union Key]

BoxInit ==
    /\ keyFile = NoKey /\ keys = 0
    /\ sealed \in [Fields -> {Unset, [value |-> 1, key |-> Plaintext]}]
    /\ starting = "down" /\ webStarts = 0
    /\ entered = [s \in Fields |-> sealed[s].value] /\ entries = 1
    /\ notifier = NotRead /\ handmade = FALSE /\ lost = FALSE /\ resaved = FALSE

----------------------------------------------------------------------------
(* secret_box.py.                                                          *)

Usable == keyFile \in Key            \* try_load_key is not None
IsEncrypted(f) == f.key # Plaintext

\* encrypt: empty and sealed values pass through.
Encrypt(f) == IF f.value = 0 \/ IsEncrypted(f) THEN f ELSE [f EXCEPT !.key = keyFile]

EncryptInPlace(cfg) == [s \in Fields |-> IF Usable THEN Encrypt(cfg[s]) ELSE cfg[s]]

\* decrypt_in_place walks the fields in order and raises at the first one
\* that is sealed with another key; those behind it stay as they are.
DecryptInPlace(cfg) ==
    LET wrong == {i \in DOMAIN Secrets : /\ IsEncrypted(cfg[Secrets[i]])
                                         /\ cfg[Secrets[i]].key # keyFile}
        reached(s) == \A i \in wrong : \E j \in 1..(i - 1) : Secrets[j] = s
    IN [s \in Fields |-> IF IsEncrypted(cfg[s]) /\ reached(s)
                         THEN [cfg[s] EXCEPT !.key = Plaintext]
                         ELSE cfg[s]]

\* _decrypt_secrets_in_place, _decrypt_secrets: without a key nothing is done.
Opened(cfg) == IF Usable THEN DecryptInPlace(cfg) ELSE cfg

HasPlaintext(cfg) == \E s \in Fields : cfg[s].value # 0 /\ ~IsEncrypted(cfg[s])

----------------------------------------------------------------------------
(* A start of the web service.                                             *)

WebStarts ==
    /\ starting = "down" /\ webStarts < MaxWebStarts
    /\ webStarts' = webStarts + 1 /\ starting' = "key"
    /\ handmade' = FALSE
    /\ UNCHANGED <<keyFile, keys, sealed, entered, entries, notifier, lost, resaved>>

\* write_key_if_missing: the file is created ...
CreateKeyFile ==
    /\ starting = "key" /\ keyFile = NoKey /\ keys < MaxKeys
    /\ keyFile' = EmptyKey /\ starting' = "write"
    /\ UNCHANGED <<keys, sealed, webStarts, entered, entries, notifier, handmade, lost, resaved>>

\* ... and then written.
WriteKey ==
    /\ starting = "write"
    /\ keys' = keys + 1 /\ keyFile' = keys + 1 /\ starting' = "migrate"
    /\ UNCHANGED <<sealed, webStarts, entered, entries, notifier, handmade, lost, resaved>>

\* A mutant: every start writes a key.
KeyIsThereRegenerates ==
    /\ starting = "key" /\ keyFile # NoKey /\ keys < MaxKeys
    /\ starting' = "write"
    /\ UNCHANGED <<keyFile, keys, sealed, webStarts, entered, entries, notifier, handmade,
                   lost, resaved>>

\* The file is there, empty or not: nothing is created.
KeyIsThere ==
    /\ starting = "key" /\ keyFile # NoKey
    /\ starting' = "migrate"
    /\ UNCHANGED <<keyFile, keys, sealed, webStarts, entered, entries, notifier, handmade,
                   lost, resaved>>

\* A mutant: the migration is left out.
MigrateNothing ==
    /\ starting = "migrate" /\ starting' = "up"
    /\ UNCHANGED <<keyFile, keys, sealed, webStarts, entered, entries, notifier, handmade,
                   lost, resaved>>

\* _encrypt_plaintext_secrets: looks for plaintext in what load() returns,
\* which has been decrypted, and saves it again.
EncryptPlaintextSecrets ==
    /\ starting = "migrate" /\ starting' = "up"
    /\ IF Usable /\ HasPlaintext(Opened(sealed))
       THEN /\ sealed' = EncryptInPlace(Opened(sealed))
            /\ resaved' = (resaved \/ ~HasPlaintext(sealed))
       ELSE UNCHANGED <<sealed, lost, resaved>>
    /\ UNCHANGED <<keyFile, keys, webStarts, entered, entries, notifier, handmade, lost>>

WebCrashes ==
    /\ starting # "down"
    /\ starting' = "down"
    /\ UNCHANGED <<keyFile, keys, sealed, webStarts, entered, entries, notifier, handmade,
                   lost, resaved>>

----------------------------------------------------------------------------
(* Saves, and what else happens to the files.                              *)

\* A page is saved with a new value for s; the others come from load().
SaveSecret(s) ==
    /\ starting = "up" /\ entries < MaxEntries
    /\ entries' = entries + 1
    /\ entered' = [entered EXCEPT ![s] = entries + 1]
    /\ sealed' = EncryptInPlace(
          [Opened(sealed) EXCEPT ![s] = [value |-> entries + 1, key |-> Plaintext]])
    /\ UNCHANGED <<keyFile, keys, starting, webStarts, notifier, handmade, lost, resaved>>

\* An operator writes the secret into openring.yml.
HandEdit(s) ==
    /\ entries < MaxEntries
    /\ entries' = entries + 1
    /\ entered' = [entered EXCEPT ![s] = entries + 1]
    /\ sealed' = [sealed EXCEPT ![s] = [value |-> entries + 1, key |-> Plaintext]]
    /\ handmade' = TRUE
    /\ UNCHANGED <<keyFile, keys, starting, webStarts, notifier, lost, resaved>>

\* /data is lost or replaced; the configuration volume is not.
KeyIsLost ==
    /\ starting = "down" /\ Usable /\ keys < MaxKeys
    /\ keyFile' = NoKey /\ lost' = TRUE
    /\ UNCHANGED <<keys, sealed, starting, webStarts, entered, entries, notifier, handmade,
                   resaved>>

\* The notifier loads the file, at its start or after a change of the file.
NotifierLoads ==
    /\ notifier' = Opened(sealed) /\ notifier' # notifier
    /\ UNCHANGED <<keyFile, keys, sealed, starting, webStarts, entered, entries, handmade,
                   lost, resaved>>

BoxNext ==
    \/ WebStarts \/ CreateKeyFile \/ WriteKey \/ KeyIsThere \/ EncryptPlaintextSecrets
    \/ WebCrashes \/ KeyIsLost \/ NotifierLoads
    \/ \E s \in Fields : SaveSecret(s) \/ HandEdit(s)

BoxSpec == BoxInit /\ [][BoxNext]_boxVars

----------------------------------------------------------------------------

BoxTypeOK ==
    /\ keyFile \in {NoKey, EmptyKey} \union Key /\ keys \in 0..MaxKeys
    /\ sealed \in [Fields -> Sealing] /\ notifier \in [Fields -> Sealing]
    /\ starting \in {"down", "key", "write", "migrate", "up"}
    /\ webStarts \in 0..MaxWebStarts /\ entries \in 0..MaxEntries

\* Once the service is up with a usable key, the file holds no secret in
\* plaintext, whatever the crashes before, until somebody writes one by hand.
NothingPlainOnDisk == starting = "up" /\ Usable /\ ~handmade => ~HasPlaintext(sealed)

\* Sealing loses no secret: the file holds the value entered last, and as
\* long as no key was lost every service that loads it reads the value back.
SecretsAreReadBack ==
    /\ \A s \in Fields : sealed[s].value = entered[s]
    /\ Usable /\ ~lost =>
          \A s \in Fields : Opened(sealed)[s] = [value |-> entered[s], key |-> Plaintext]

\* The secrets as a whole.
SecretsHold == BoxTypeOK /\ NothingPlainOnDisk /\ SecretsAreReadBack

\* "re-save once so they get encrypted": a start leaves a file alone in which
\* every secret is sealed already.
\* The code does not keep this; TLC refutes it (README, section 3).
SealedFileIsLeftAlone == ~resaved

\* A secret that is entered again after the key was lost is read back, though
\* others are still sealed with the lost one.
\* The code does not keep this; TLC refutes it (README, section 3).
EnteredAgainIsReadBack ==
    Usable => \A s \in Fields : sealed[s].key = keyFile => Opened(sealed)[s].key = Plaintext
=============================================================================

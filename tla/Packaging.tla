------------------------------ MODULE Packaging ------------------------------
(* Statements, trust stores and the two checks over them: the decision of the  *)
(* Python seat (certify/) and the one the wrapper makes at boot                *)
(* (native/wrap/wrap_activate.c).  A digest is the thing it is the digest of;  *)
(* a signature is the seed it was made with and the bytes it was made over; a  *)
(* public word names its seed.                                                 *)
(*                                                                             *)
(* And the files of a certified build: `rxf certify issue`, `verify`, `revoke`     *)
(* (certify/cli.py) and `rxf binary build` (binary/cli.py, builder.py,         *)
(* package.py).  Between the calls the source changes, a file is damaged, the  *)
(* deployment pins another now; a call may be cut off between two writes.      *)
EXTENDS Integers, Sequences, FiniteSets, SequencesExt, FiniteSetsExt

CONSTANTS
  WordMax, None,
  Worlds,      \* the words of the sources there are: [image, text, block]
  KeyPaths, Ids,
  LongIds,     \* the ids that do not fit the fields of a package
  Seeds, MaxOuts, MaxAge, Skew, Quorum, MaxCalls

VARIABLES
  source,      \* the words of the source as it is now
  keyFile,     \* by path, None when there is no file
  outs,        \* the statement files, in the order they were written
  storeFile,
  artifact,    \* what OUT holds: the package and the anchor of its wrapper
  outcome, calls

vars == <<source, keyFile, outs, storeFile, artifact, outcome, calls>>

Words == 0..WordMax  \* the 64-bit words

----------------------------------------------------------------------------
(* Values, and the files they are kept in; a file whose shape is not the one   *)
(* its reader asks for, or with a field of another kind, is no value.          *)

Canonical(words, id, issued) == <<words, id, issued>>
Statement(words, id, issued, signature) ==
  [words |-> words, id |-> id, issued |-> issued, signature |-> signature]
IsStatement(s) == s.issued \in Words
Signable(s) == Canonical(s.words, s.id, s.issued)

PublicOf(seed) == seed
Sign(seed, bytes) == [seed |-> seed, over |-> bytes]
SignatureHolds(public, bytes, signature) == signature = Sign(public, bytes)

Issue(words, id, seed, issued) ==
  Statement(words, id, issued, Sign(seed, Canonical(words, id, issued)))

Policy(now, max_age, skew, quorum) ==
  [now |-> now, max_age |-> max_age, skew |-> skew, quorum |-> quorum]
IsPolicy(p) == {p.now, p.max_age, p.skew} \subseteq Words /\ p.quorum >= 1
TrustStore(policy, keys, revoked) == [policy |-> policy, keys |-> keys, revoked |-> revoked]

Wire(format, value) == [format |-> format, value |-> value]
Garbled == Wire("garbled", None)

StatementOf(data) ==
  IF data.format # "statement" THEN None
  ELSE IF IsStatement(data.value) THEN data.value ELSE None
KeyOf(data) == IF data.format # "key" THEN None ELSE data.value
StoreOf(data) ==
  IF data.format # "store" THEN None
  ELSE IF IsPolicy(data.value.policy)
          /\ IsInjective([k \in DOMAIN data.value.keys |-> data.value.keys[k].id])
       THEN data.value ELSE None

----------------------------------------------------------------------------
(* The trust store *)

Voice(store, id) ==
  LET held == {k \in DOMAIN store.keys : store.keys[k].id = id}
  IN IF held = {} THEN None ELSE store.keys[CHOOSE k \in held : \A j \in held : k <= j]

\* None: the store already names the id with another key.
Admit(store, key) ==
  LET held == Voice(store, key.id)
  IN IF held = None THEN [store EXCEPT !.keys = Append(@, key)]
     ELSE IF held.public = key.public THEN store ELSE None

Revoke(store, id) ==
  IF Voice(store, id) = None THEN None
  ELSE IF id \in store.revoked THEN None
  ELSE [store EXCEPT !.revoked = @ \cup {id}]

----------------------------------------------------------------------------
(* The decision: every statement alone, then the distinct voices *)

Fresh(s, policy) ==
  s.issued <= policy.now + policy.skew /\ policy.now <= s.issued + policy.max_age

Verify(words, s, store) ==
  IF s.words # words THEN "WrongDigest"
  ELSE IF Voice(store, s.id) = None THEN "UnknownKey"
  ELSE IF s.id \in store.revoked THEN "RevokedKey"
  ELSE IF s.issued > store.policy.now + store.policy.skew THEN "NotYetValid"
  ELSE IF ~Fresh(s, store.policy) THEN "Expired"
  ELSE IF SignatureHolds(Voice(store, s.id).public, Signable(s), s.signature) THEN "Ok"
  ELSE "BadSignature"

Voices(words, statements, store) ==
  SelectSeq([k \in DOMAIN statements |-> k],
            LAMBDA k : /\ Verify(words, statements[k], store) = "Ok"
                       /\ \A j \in 1..k - 1 : Verify(words, statements[j], store) = "Ok"
                                              => statements[j].id # statements[k].id)
VerifyQuorum(words, statements, store) ==
  Len(Voices(words, statements, store)) >= store.policy.quorum

----------------------------------------------------------------------------
(* The activation check of a wrapper: the anchor it was built with, the block  *)
(* it is about to run, and the records behind it.  The words the voices must   *)
(* agree on are those the first one to verify spoke for.                       *)

\* The stamp by differences that cannot wrap.
InPolicy(s, policy) ==
  /\ s.issued > policy.now => s.issued - policy.now <= policy.skew
  /\ policy.now > s.issued => policy.now - s.issued <= policy.max_age

SameWorld(a, b) == a.image = b.image /\ a.text = b.text

Credit(block, records, anchor, sofar, key) ==
  LET Counts(k) == /\ records[k].id = key.id
                   /\ InPolicy(records[k], anchor.policy)
                   /\ records[k].words.block = block
                   /\ sofar.words # None => SameWorld(records[k].words, sofar.words)
                   /\ SignatureHolds(key.public, Signable(records[k]), records[k].signature)
      first == SelectSeq([k \in DOMAIN records |-> k], Counts)
  IN IF key.id \in anchor.revoked \/ first = <<>> THEN sofar
     ELSE [words |-> IF sofar.words = None THEN records[first[1]].words ELSE sofar.words,
           voices |-> sofar.voices + 1]

Activate(block, records, anchor) ==
  IF records = <<>> THEN IF anchor.keys = <<>> THEN "ok" ELSE "no cert"
  ELSE LET heard == FoldLeft(LAMBDA sofar, key : Credit(block, records, anchor, sofar, key),
                             [words |-> None, voices |-> 0], anchor.keys)
       IN IF heard.voices = 0 THEN "no voice"
          ELSE IF heard.voices < anchor.policy.quorum THEN "no quorum" ELSE "ok"

----------------------------------------------------------------------------
(* The files *)

Says(word) == outcome' = word

----------------------------------------------------------------------------
(* The package: a header, the linked image, a record per statement behind it. *)

\* cert_block: the id has its field, zero-padded; None when it does not fit.
CertBlock(statements) ==
  IF \E k \in DOMAIN statements : statements[k].id \in LongIds THEN None
  ELSE [k \in DOMAIN statements |-> [words |-> statements[k].words, id |-> statements[k].id,
                                     issued |-> statements[k].issued,
                                     signature |-> statements[k].signature]]
\* statements: the records as values again; None when one is no statement.
Statements(package) ==
  IF \A k \in DOMAIN package.cert : IsStatement(package.cert[k])
  THEN [k \in DOMAIN package.cert |-> package.cert[k]] ELSE None
Package(words, statements) ==
  [block |-> words.block, cert |-> CertBlock(statements)]
BlockDigest(package) == package.block

\* trust_block: without a store the anchor admits no voice.
TrustBlock(store) == IF store = None THEN TrustStore(Policy(0, 0, 0, 1), <<>>, {}) ELSE store
Fits(store) == store = None \/ (Ids \cap LongIds) \cap
                 ({store.keys[k].id : k \in DOMAIN store.keys} \cup store.revoked) = {}

----------------------------------------------------------------------------
(* issue: the key file when there is none, the statement, then the store.  The  *)
(* block is named by the caller: the one a link makes now, or a built package's. *)
(* The call may end after any of its writes.                                    *)

HeldKey(path, named) ==
  IF keyFile[path] = None
  THEN IF named = None THEN {}
       ELSE {[id |-> named, seed |-> seed] :
               seed \in {s \in Seeds : \A p \in KeyPaths :
                          IF keyFile[p] = None THEN TRUE
                          ELSE IF KeyOf(keyFile[p]) = None THEN TRUE ELSE keyFile[p].value.seed # s}}
  ELSE LET held == KeyOf(keyFile[path])
       IN IF held = None THEN {} ELSE IF named \in {None, held.id} THEN {held} ELSE {}

Base(issued) ==
  IF storeFile = None THEN TrustStore(Policy(issued, MaxAge, Skew, Quorum), <<>>, {})
  ELSE StoreOf(storeFile)

IssueFile(path, named, at, withStore, block) ==
  /\ Len(outs) < MaxOuts
  /\ IF HeldKey(path, named) = {} THEN Says("unusable") /\ UNCHANGED <<keyFile, outs, storeFile>>
     ELSE \E key \in {CHOOSE k \in HeldKey(path, named) : TRUE}, writes \in 1..3 :
       LET base == IF withStore THEN Base(at) ELSE None
           admitted == IF base = None THEN None
                       ELSE Admit(base, [id |-> key.id, public |-> PublicOf(key.seed)])
       IN /\ keyFile' = [keyFile EXCEPT ![path] = Wire("key", key)]
          /\ outs' = IF writes = 1 THEN outs
                     ELSE Append(outs, Wire("statement", Issue([source EXCEPT !.block = block], key.id, key.seed, at)))
          /\ storeFile' = IF writes = 3 /\ admitted # None THEN Wire("store", admitted)
                          ELSE storeFile
          /\ Says(IF writes < 3 THEN "cut off"
                  ELSE IF withStore /\ admitted = None THEN "unusable" ELSE "ok")
  /\ UNCHANGED <<source, artifact>>

RevokeVoice(id) ==
  /\ LET base == IF storeFile = None THEN None ELSE StoreOf(storeFile)
         updated == IF base = None THEN None ELSE Revoke(base, id)
     IN IF updated = None THEN Says("unusable") /\ UNCHANGED storeFile
        ELSE storeFile' = Wire("store", updated) /\ Says("ok")
  /\ UNCHANGED <<source, keyFile, outs, artifact>>

----------------------------------------------------------------------------
(* verify and build read the store and the statement files alike (activation). *)

Read(names) == [k \in DOMAIN names |-> StatementOf(outs[names[k]])]
Usable(names) ==
  /\ storeFile # None
  /\ StoreOf(storeFile) # None
  /\ \A k \in DOMAIN names : StatementOf(outs[names[k]]) # None

VerifyFiles(names) ==
  /\ Says(IF ~Usable(names) THEN "unusable"
          ELSE IF VerifyQuorum(source, Read(names), StoreOf(storeFile)) THEN "ok" ELSE "refused")
  /\ UNCHANGED <<source, keyFile, outs, storeFile, artifact>>

\* The quorum is judged over what was packed, before anything is linked.
Holds(package, statements, trust) ==
  trust = None \/ VerifyQuorum([source EXCEPT !.block = BlockDigest(package)], statements, trust)

Build(withStore, names, links) ==
  /\ LET trust == IF withStore THEN StoreOf(storeFile) ELSE None
         voices == IF withStore THEN Read(names) ELSE <<>>
         package == Package(source, voices)
     IN IF package.cert = None \/ ~Fits(trust) THEN Says("failed") /\ UNCHANGED artifact
        ELSE IF ~Holds(package, voices, trust) THEN Says("refused") /\ UNCHANGED artifact
        ELSE IF ~links THEN Says("failed") /\ UNCHANGED artifact  \* the toolchain refuses
        ELSE /\ artifact' = [package |-> package, anchor |-> TrustBlock(trust),
                             words |-> source, certified |-> withStore]
             /\ Says("ok")
  /\ UNCHANGED <<source, keyFile, outs, storeFile>>

----------------------------------------------------------------------------
(* Around the calls *)

Edit(words) ==
  /\ source' = words /\ Says("ok") /\ UNCHANGED <<keyFile, outs, storeFile, artifact>>
Repin(now) ==
  /\ storeFile # None /\ StoreOf(storeFile) # None
  /\ storeFile' = [storeFile EXCEPT !.value.policy.now = now] /\ Says("ok")
  /\ UNCHANGED <<source, keyFile, outs, artifact>>
Damage ==
  /\ \/ \E p \in KeyPaths : /\ keyFile[p] # None /\ keyFile' = [keyFile EXCEPT ![p] = Garbled]
                            /\ UNCHANGED <<outs, storeFile>>
     \/ /\ outs # <<>> /\ outs' = [outs EXCEPT ![Len(outs)] = Garbled]
        /\ UNCHANGED <<keyFile, storeFile>>
     \/ /\ storeFile # None /\ storeFile' = Garbled /\ UNCHANGED <<keyFile, outs>>
  /\ Says("ok") /\ UNCHANGED <<source, artifact>>

Init ==
  /\ source \in Worlds /\ keyFile = [p \in KeyPaths |-> None] /\ outs = <<>>
  /\ storeFile = None /\ artifact = None /\ outcome = "ok" /\ calls = 0

Names == {[k \in DOMAIN outs |-> k]} \cup {<<k>> : k \in DOMAIN outs} \cup {<<>>}
Call ==
  \/ \E p \in KeyPaths, named \in Ids \cup {None}, at \in Words, withStore \in BOOLEAN,
        block \in {source.block} \cup (IF artifact = None THEN {} ELSE {artifact.package.block}) :
       IssueFile(p, named, at, withStore, block)
  \/ \E id \in Ids : RevokeVoice(id)
  \/ \E names \in Names : VerifyFiles(names)
  \/ \E names \in Names, links \in BOOLEAN : Usable(names) /\ Build(TRUE, names, links)
  \/ Build(FALSE, <<>>, TRUE)
  \/ \E words \in Worlds : Edit(words)
  \/ \E now \in Words : Repin(now)
  \/ Damage
Next == calls < MaxCalls /\ calls' = calls + 1 /\ Call
Spec == Init /\ [][Next]_vars

----------------------------------------------------------------------------

\* What OUT holds with voices behind it was certified for the very words that
\* were packed: as many different voices as its policy asks for spoke for them,
\* each fresh, admitted and not revoked - whatever call was refused or cut off.
CertifiedStands ==
  artifact # None => (artifact.certified =>
    LET voices == Statements(artifact.package)
        Spoke(id) == \E k \in DOMAIN voices :
                       /\ voices[k].id = id /\ voices[k].words = artifact.words
                       /\ voices[k].issued - artifact.anchor.policy.now <= artifact.anchor.policy.skew
                       /\ artifact.anchor.policy.now - voices[k].issued <= artifact.anchor.policy.max_age
                       /\ SignatureHolds(Voice(artifact.anchor, id).public, Signable(voices[k]),
                                         voices[k].signature)
        admitted == {artifact.anchor.keys[k].id : k \in DOMAIN artifact.anchor.keys}
    IN Quantify(admitted \ artifact.anchor.revoked, Spoke) >= artifact.anchor.policy.quorum)

\* The wrapper answers as the build did: a certified artifact boots, as long as
\* everything said of its block is said of one world.
Activated == Activate(artifact.package.block, artifact.package.cert, artifact.anchor)
OneWorld == \A k \in DOMAIN artifact.package.cert :
              LET words == artifact.package.cert[k].words
              IN words.block = artifact.package.block => SameWorld(words, artifact.words)
OneWorldBoots ==
  artifact # None => (OneWorld => Activated = "ok")

\* "the same check the boot path repeats": a certified artifact boots.
BuiltBoots == artifact # None => Activated = "ok"

\* What is packed is what was certified, and it boots in its own world.
PackageStands == CertifiedStands /\ OneWorldBoots
=============================================================================

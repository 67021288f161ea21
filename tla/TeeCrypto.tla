------------------------------ MODULE TeeCrypto ------------------------------
(***************************************************************************)
(* Operations of the crypto API (lib/user/otz_tee_crypto_api.c) and the    *)
(* programs that use it (apps/crypto_tests.c): the blocks behind an        *)
(* operation, its fields that malloc leaves unset, and what is left when a *)
(* call in the middle fails.  A client may call the API in any order.      *)
(***************************************************************************)
EXTENDS Integers, Sequences, FiniteSets, SequencesExt

CONSTANT MaxLeft  \* bound: blocks lost, and frees too many, before the client stops

\* Algorithms, by what the code tells apart.
Digest   == {"MD5", "SHA1", "SHA256", "SHA512"}
EvpOrder == <<"AES_ECB", "AES_CBC", "AES_CTR", "AES_XTS", "DES_ECB", "DES_CBC", "DES3_ECB", "DES3_CBC">>
Evp      == ToSet(EvpOrder)
Stream   == {"AES_CCM", "AES_GCM"}
RsaCrypt == {"RSA"}
RsaSign  == {"RSA_SHA1"}
Alg == Digest \cup {"HMAC", "CMAC"} \cup Evp \cup {"AES_CTS"} \cup Stream \cup RsaCrypt
       \cup {"OAEP"} \cup RsaSign \cup {"PSS", "DSA", "DH"}

\* TEE_AllocateOperation's operationClass; key derivation gets none.
ClassOf(alg) ==
    CASE alg \in Digest -> "digest"
      [] alg \in {"HMAC", "CMAC"} -> "mac"
      [] alg \in Evp \cup {"AES_CTS", "OAEP"} -> "cipher"
      [] alg \in Stream -> "ae"
      [] alg \in RsaCrypt -> "asym"
      [] alg \in RsaSign \cup {"PSS", "DSA"} -> "sig"
      [] OTHER -> "unset"

\* The user's heap and the operation.  A pointer is "unset" (whatever malloc
\* found in the block), "null", "block" or "freed".
VARIABLES
    c,     \* the operation: [alg, self, ctxt, cipher, key, iv, local, kobj, left, num, wild]
    prog,  \* what a program has left to do, and what it does when that fails
    broken \* allocations that failed half way

cvars == <<c, prog, broken>>

NoHandle(left, num) ==
    [alg |-> "none", self |-> "null", ctxt |-> "null", cipher |-> "null", key |-> "null",
     iv |-> "null", local |-> "null", kobj |-> "null", left |-> left, num |-> num, wild |-> {}]

TeeCryptoInit == c = NoHandle(0, 0) /\ prog = <<>> /\ broken = 0

----------------------------------------------------------------------------
(* sw_malloc and sw_free of a field.  The heap counts its blocks; a free   *)
(* of a pointer it does not know still counts.                             *)

\* sw_malloc into a field: the block the field had is lost.
Lost(o, f) == IF o[f] = "block" THEN [o EXCEPT !.left = @ + 1] ELSE o
Got(o, f)  == [Lost(o, f) EXCEPT ![f] = "block", !.num = @ + 1]
Nothing(o, f) == [Lost(o, f) EXCEPT ![f] = "null"]

sw_free(o, f) ==
    CASE o[f] = "block" -> {[o EXCEPT ![f] = "freed", !.num = @ - 1]}
      [] o[f] = "freed" -> {[o EXCEPT !.num = @ - 1]}
      [] o[f] = "unset" -> LET w == [o EXCEPT !.wild = @ \cup {f}] IN {w, [w EXCEPT !.num = @ - 1]}
      [] OTHER -> {o}

\* A list of fields is freed, one after the other.
RECURSIVE FreeAll(_, _)
FreeAll(os, fs) == IF fs = <<>> THEN os ELSE FreeAll(UNION {sw_free(o, Head(fs)) : o \in os}, Tail(fs))

\* The library follows a field.
Follow(o, f) == IF o[f] = "block" THEN o ELSE [o EXCEPT !.wild = @ \cup {f}]

Ok(o) == [o |-> o, ok |-> TRUE]
Err(o) == [o |-> o, ok |-> FALSE]

----------------------------------------------------------------------------
(* Allocation.                                                             *)

\* Defect: the labels below the one asked for load their cipher too.
LoadCipher_all(alg) == Last(EvpOrder)

\* The switch of handleCipherAlloc falls through from its label to the last
\* one, and load_cipher keeps the first.
LoadCipher(alg) ==
    LET labels == SubSeq(EvpOrder, CHOOSE i \in 1..Len(EvpOrder) : EvpOrder[i] = alg, Len(EvpOrder))
    IN  FoldLeft(LAMBDA loaded, l : IF loaded = "null" THEN l ELSE loaded, "null", labels)

\* A handle as malloc returns it.
Raw(alg) ==
    [Got(NoHandle(c.left, c.num), "self") EXCEPT
        !.alg = alg, !.ctxt = "unset", !.cipher = "unset", !.key = "unset", !.iv = "unset",
        !.local = c.local, !.kobj = c.kobj]

handleDigestAlloc(o) == Got(o, "ctxt")
handleMacAlloc(o) == IF o.alg = "HMAC" THEN Got(o, "ctxt") ELSE o
handleCipherAlloc(o) ==
    CASE o.alg \in Evp -> [Got(o, "ctxt") EXCEPT !.cipher = LoadCipher(o.alg), !.key = "null"]
      [] o.alg = "AES_CTS" -> [o EXCEPT !.ctxt = "null", !.cipher = "null"]
      [] o.alg \in Stream -> [Got(o, "ctxt") EXCEPT !.cipher = "null", !.key = "null"]
      [] o.alg \in RsaCrypt -> [o EXCEPT !.ctxt = "null"]
      [] OTHER -> o

\* Algorithms whose context is a block of its own.
WithContext == Digest \cup {"HMAC"} \cup Evp \cup Stream

\* A context that cannot be allocated leaves the handle behind.
TEE_AllocateOperation(alg) ==
    LET o == Raw(alg)
        made == CASE ClassOf(alg) = "digest" -> handleDigestAlloc(o)
                  [] ClassOf(alg) = "mac" -> handleMacAlloc(o)
                  [] ClassOf(alg) \in {"cipher", "ae", "asym"} -> handleCipherAlloc(o)
                  [] ClassOf(alg) = "sig" -> [o EXCEPT !.ctxt = "null"]
                  [] OTHER -> o
    IN  {Ok(made), Err(c)}
        \cup (IF alg \in WithContext THEN {Err([c EXCEPT !.left = @ + 1, !.num = @ + 1])} ELSE {})

----------------------------------------------------------------------------
(* Release.                                                                *)

\* Defect: the IV of a cipher is released too, which only CTS has.
FreedFields_iv(o) ==
    CASE o.alg \in Evp \cup {"AES_CTS"} \cup Stream -> <<"iv", "key">>
      [] o.alg \in RsaCrypt \cup RsaSign \cup {"DSA"} -> <<"key", "key">>
      [] OTHER -> <<>>

\* handleCipherFree and the branch for signatures; RSA_free and DSA_free give
\* back the key that is then freed again.
FreedFields(o) ==
    CASE o.alg \in Evp -> <<"key">>
      [] o.alg \in {"AES_CTS"} \cup Stream -> <<"iv", "key">>
      [] o.alg \in RsaCrypt \cup RsaSign \cup {"DSA"} -> <<"key", "key">>
      [] OTHER -> <<>>

\* handleDigestFree, handleMacFree: the library clears the context first.
Cleaned(o) == IF o.alg \in Digest \cup {"HMAC"} \cup Evp THEN Follow(o, "ctxt") ELSE o

\* The handle is gone, and with it whatever it still pointed to.
Blank(o) ==
    [NoHandle(o.left + Cardinality({f \in {"self", "ctxt", "key", "iv"} : o[f] = "block"}), o.num) EXCEPT
        !.local = o.local, !.kobj = o.kobj, !.wild = o.wild]

TEE_FreeOperation ==
    {Ok(Blank(o)) : o \in FreeAll({Cleaned(c)}, FreedFields(c) \o <<"ctxt", "self">>)}

----------------------------------------------------------------------------
(* Keys.                                                                   *)

\* Generated, or decoded from the client's object; a key refused is freed
\* and its pointer kept.
fillRSAKeys(o) ==
    {Ok(Got(o, "key")), Err(Nothing(o, "key")), Err([Lost(o, "key") EXCEPT !.key = "freed"])}

\* The block for an AES key; for CTS it is the second, over the first.
SetAesKey(o) == {Ok(Got(o, "key")), Err(Nothing(o, "key"))}

\* A cipher's key must have its length; the cipher of OAEP is unset.
SetCipherKey(o) ==
    LET seen == IF o.cipher = "unset" THEN [o EXCEPT !.wild = @ \cup {"cipher"}] ELSE o
    IN  (IF o.cipher # "null" THEN {Err(seen)} ELSE {}) \cup {Ok(Got(seen, "key")), Err(Nothing(seen, "key"))}

TEE_SetOperationKey ==
    CASE ClassOf(c.alg) = "digest" -> {Err(c)}
      [] c.alg = "AES_CTS" ->
            UNION {IF r.ok THEN SetAesKey(r.o) ELSE {r} : r \in SetCipherKey(c)}
      [] c.alg # "AES_CTS" /\ ClassOf(c.alg) = "cipher" -> SetCipherKey(c)
      [] ClassOf(c.alg) = "ae" -> SetAesKey(c)
      [] c.alg \in RsaCrypt \cup RsaSign -> fillRSAKeys(c)
      [] c.alg = "DSA" -> {Ok(Got(c, "key")), Err(Nothing(c, "key"))}
      [] OTHER -> {Ok(c)}

----------------------------------------------------------------------------
(* Use.  Each call first looks at the class of the operation.              *)

InClass(cl, outcomes) == IF ClassOf(c.alg) = cl THEN outcomes ELSE {Err(c)}

TEE_DigestUpdate == InClass("digest", {Ok(Follow(c, "ctxt"))})
\* A result buffer that is too short ends the call.
TEE_DigestDoFinal == InClass("digest", {Ok(Follow(c, "ctxt")), Err(c)})

\* Without a key the call returns.
TEE_MACInit == InClass("mac", {IF c.alg = "HMAC" THEN Ok(Follow(c, "ctxt")) ELSE Ok(c), Err(c)})
TEE_MACUpdate == InClass("mac", {IF c.alg = "HMAC" THEN Ok(Follow(c, "ctxt")) ELSE Ok(c)})
TEE_MACComputeFinal ==
    InClass("mac", IF c.alg = "HMAC" THEN {Ok(Follow(c, "ctxt")), Err(c), Err(Follow(c, "ctxt"))} ELSE {Ok(c)})
TEE_MACCompareFinal ==
    InClass("mac", IF c.alg = "HMAC" THEN {Ok(Follow(c, "ctxt")), Err(Follow(c, "ctxt"))} ELSE {Ok(c)})

\* A key that is missing is seen only where the field was set to NULL.
TEE_CipherInit ==
    InClass("cipher",
        (IF c.key \in {"null", "unset"} THEN {Err(c)} ELSE {})
        \cup CASE c.key = "null" -> {}
               [] c.key # "null" /\ c.alg = "AES_CTS" -> {Ok(Got(c, "iv")), Err(Nothing(c, "iv"))}
               [] c.key # "null" /\ c.alg \in Evp -> {Ok(Follow(Follow(c, "key"), "ctxt"))}
               [] OTHER -> {Ok(c)})

CipherRun == IF c.alg \in Evp THEN Follow(c, "ctxt")
             ELSE IF c.alg = "AES_CTS" THEN Follow(Follow(c, "key"), "iv") ELSE c
TEE_CipherUpdate == InClass("cipher", {Ok(CipherRun)} \cup (IF c.alg \in Evp THEN {Err(CipherRun)} ELSE {}))
\* Without padding, data that is not a multiple of the block ends in an error.
TEE_CipherDoFinal == InClass("cipher", {Ok(CipherRun)} \cup (IF c.alg \in Evp THEN {Err(CipherRun)} ELSE {}))

TEE_AEInit == InClass("ae", IF c.key = "null" THEN {Err(c)} ELSE {Ok(Follow(Follow(c, "key"), "ctxt")), Err(c)})
TEE_AEUpdateAAD == InClass("ae", {Ok(Follow(c, "ctxt"))})
TEE_AEUpdate == InClass("ae", {Ok(Follow(c, "ctxt")), Err(c)})
TEE_AEEncryptFinal == InClass("ae", {Ok(Follow(c, "ctxt")), Err(c)})
TEE_AEDecryptFinal == InClass("ae", {Ok(Follow(c, "ctxt")), Err(c)})

TEE_AsymmetricEncrypt == InClass("asym", {Ok(Follow(c, "key")), Err(Follow(c, "key"))})
TEE_AsymmetricDecrypt == InClass("asym", {Ok(Follow(c, "key")), Err(Follow(c, "key"))})
TEE_AsymmetricSignDigest ==
    InClass("sig", IF c.alg \in RsaSign \cup {"DSA"} THEN {Ok(Follow(c, "key")), Err(Follow(c, "key"))} ELSE {Ok(c)})
TEE_AsymmetricVerifyDigest ==
    InClass("sig", IF c.alg \in RsaSign \cup {"DSA"} THEN {Ok(Follow(c, "key")), Err(Follow(c, "key"))} ELSE {Ok(c)})

\* The copy of an RSA key is written through the pointer that is returned, so
\* that its block is lost; another key is copied if its field is not NULL.
TEE_GetOperationInfo ==
    IF c.alg \in RsaCrypt
    THEN LET o == Follow(c, "key") IN {Ok([o EXCEPT !.left = @ + 1, !.num = @ + 1]), Ok(c)}
    ELSE {Ok(IF c.key = "unset" THEN [c EXCEPT !.wild = @ \cup {"info"}] ELSE c)}

Calls ==
    [SetOperationKey |-> TEE_SetOperationKey,
     DigestUpdate |-> TEE_DigestUpdate, DigestDoFinal |-> TEE_DigestDoFinal,
     MACInit |-> TEE_MACInit, MACUpdate |-> TEE_MACUpdate,
     MACComputeFinal |-> TEE_MACComputeFinal, MACCompareFinal |-> TEE_MACCompareFinal,
     CipherInit |-> TEE_CipherInit, CipherUpdate |-> TEE_CipherUpdate, CipherDoFinal |-> TEE_CipherDoFinal,
     AEInit |-> TEE_AEInit, AEUpdateAAD |-> TEE_AEUpdateAAD, AEUpdate |-> TEE_AEUpdate,
     AEEncryptFinal |-> TEE_AEEncryptFinal, AEDecryptFinal |-> TEE_AEDecryptFinal,
     AsymmetricEncrypt |-> TEE_AsymmetricEncrypt, AsymmetricDecrypt |-> TEE_AsymmetricDecrypt,
     AsymmetricSignDigest |-> TEE_AsymmetricSignDigest,
     AsymmetricVerifyDigest |-> TEE_AsymmetricVerifyDigest,
     GetOperationInfo |-> TEE_GetOperationInfo, FreeOperation |-> TEE_FreeOperation]

----------------------------------------------------------------------------
(* The programs of crypto_tests.c: calls in order, and after a failure the *)
(* calls of its branch.                                                    *)

Do(f) == [call |-> f, alg |-> "none", try |-> FALSE, else |-> <<>>]
Try(f, branch) == [call |-> f, alg |-> "none", try |-> TRUE, else |-> branch]
Free == <<Do("FreeOperation")>>

test_digest_api ==
    <<Try("Allocate", <<Do("FreeUnset")>>), Do("DigestUpdate"), Try("DigestDoFinal", Free),
      Do("FreeOperation")>>
test_hmac_api ==
    <<Try("Allocate", <<Do("FreeUnset")>>), Do("MACInit"), Do("MACUpdate"), Try("MACComputeFinal", Free),
      Do("FreeOperation")>>
compare_hmac_values ==
    <<Try("Allocate", <<Do("FreeUnset")>>), Do("MACInit"), Do("MACUpdate"), Try("MACCompareFinal", Free),
      Do("FreeOperation")>>

test_cipher_api ==
    LET out == Free \o <<Do("FreeLocal")>>
    IN  <<Try("MallocLocal", <<>>), Try("Allocate", <<Do("FreeUnset"), Do("FreeLocal")>>),
          Try("MallocKey", out), Try("SetOperationKey", Free \o <<Do("FreeKey"), Do("FreeLocal")>>),
          Do("FreeKey"), Do("CipherInit"), Try("CipherUpdate", out), Try("CipherDoFinal", out)>> \o out

\* TEE_FreeOperation of a handle that the failed allocation did not set: NULL, or
\* a place where any class and algorithm may stand.  Each of its pointers that is
\* not NULL is freed; sw_free finds no block there, and counts it all the same.
FreeUnset ==
    LET u == [c EXCEPT !.self = "unset", !.ctxt = "unset", !.key = "unset", !.iv = "unset",
                       !.wild = @ \cup {"handle"}]
        Fields == {FreedFields([u EXCEPT !.alg = alg]) : alg \in Alg}
        freed == UNION {FreeAll({u}, fs \o <<"ctxt", "self">>) : fs \in Fields}
    IN  {Ok([c EXCEPT !.num = o.num, !.wild = o.wild]) : o \in {u} \cup freed}

Step(f) ==
    CASE f = "MallocLocal" -> {Ok(Got(c, "local")), Err(c)}
      [] f = "MallocKey" -> {Ok(Got(c, "kobj")), Err(c)}
      [] f = "FreeLocal" -> {Ok([o EXCEPT !.local = "null"]) : o \in sw_free(c, "local")}
      [] f = "FreeKey" -> {Ok([o EXCEPT !.kobj = "null"]) : o \in sw_free(c, "kobj")}
      [] f = "FreeUnset" -> FreeUnset
      [] OTHER -> Calls[f]

\* Bound: no client after too many lost blocks and frees, or the free of an unset
\* handle.
Quiet == c.left < MaxLeft /\ c.num > c.left - MaxLeft /\ "handle" \notin c.wild

StartProgram ==
    /\ prog = <<>> /\ c.self = "null" /\ Quiet
    /\ \E p \in {[p |-> test_digest_api, on |-> Digest], [p |-> test_hmac_api, on |-> {"HMAC"}],
                 [p |-> compare_hmac_values, on |-> {"HMAC"}], [p |-> test_cipher_api, on |-> Evp]} :
          \E alg \in p.on :
             prog' = [i \in 1..Len(p.p) |-> [p.p[i] EXCEPT !.alg = alg]]
    /\ c' = [c EXCEPT !.wild = {}] /\ UNCHANGED broken

RunProgram ==
    /\ prog # <<>>
    /\ \E r \in IF Head(prog).call = "Allocate" THEN TEE_AllocateOperation(Head(prog).alg)
                ELSE Step(Head(prog).call) :
          /\ c' = r.o
          /\ prog' = IF r.ok \/ ~ Head(prog).try THEN Tail(prog) ELSE Head(prog).else
          /\ broken' = IF Head(prog).call = "Allocate" /\ r.o.left > c.left THEN broken + 1 ELSE broken

\* Any other client of the API.
Allocate ==
    /\ prog = <<>> /\ c.self = "null" /\ Quiet
    /\ \E alg \in Alg : \E r \in TEE_AllocateOperation(alg) :
          /\ c' = [r.o EXCEPT !.wild = {}]
          /\ broken' = IF r.o.left > c.left THEN broken + 1 ELSE broken
    /\ UNCHANGED prog

Call ==
    /\ prog = <<>> /\ c.self # "null" /\ c.left < MaxLeft
    /\ \E f \in DOMAIN Calls : \E r \in Calls[f] : c' = r.o
    /\ UNCHANGED <<prog, broken>>

TeeCryptoNext == StartProgram \/ RunProgram \/ Allocate \/ Call
TeeCryptoSpec == TeeCryptoInit /\ [][TeeCryptoNext]_cvars

----------------------------------------------------------------------------
Sound == Digest \cup {"HMAC"} \cup Evp
Live(o) == Cardinality({f \in {"self", "ctxt", "key", "iv", "local", "kobj"} : o[f] = "block"})

\* A cipher operation runs the cipher it was allocated for.
CipherAsked == c.alg \in Evp => c.cipher = c.alg

\* An operation of a digest, an HMAC or a cipher of the EVP list never frees,
\* or gives to the library, a field that nobody set or a block already freed,
\* in whatever order its client calls the API and whichever calls fail.
NoWildField == c.alg \in Sound => c'.wild \subseteq {"info"}

\* A program of crypto_tests.c loses no block on any of its ways, except the
\* handle of an allocation that failed half way, and returns all it allocated;
\* each of its calls keeps the heap's count of blocks right, except the free of a
\* handle that a failed allocation did not set, which counts up to four blocks
\* (IV or key, key, context, handle) that were never there.
ProgramsReturnAll ==
    prog # <<>> =>
        /\ c'.left - c.left = broken' - broken
        /\ LET counted == c'.num - c.num - (Live(c') - Live(c) + c'.left - c.left)
           IN  IF Head(prog).call = "FreeUnset" THEN -counted \in 0 .. 4 ELSE counted = 0
        /\ prog' = <<>> => Live(c') = 0

\* Both at every step: of any client, and of the programs of the test suite.
FieldsKept == [][NoWildField /\ ProgramsReturnAll]_cvars
=============================================================================

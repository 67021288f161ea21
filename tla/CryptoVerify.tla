---------------------------- MODULE CryptoVerify ----------------------------
(***************************************************************************)
(* The verdicts of otzapp.c on the crypto service: each verify_* function  *)
(* calls perform_crypto for its known answers and compares one buffer and  *)
(* one length, which a command that fails leaves as the last one left      *)
(* them.  A test is [in, out], its data named by their bytes.              *)
(***************************************************************************)
EXTENDS Integers, Sequences

VARIABLES
    suite,    \* the function that runs
    data,     \* output_buf, as the last command left it
    len,      \* output_buf_len
    tests,    \* how many of its tests were made
    carried,  \* the service computed the answer of the last one
    verdict,  \* the last one printed "test passed"
    before    \* and so did the one before it

verifyvars == <<suite, data, len, tests, carried, verdict, before>>

\* The vectors and their lengths.  The AES plain text is that of CBC, ECB and
\* XTS; DES gives one cipher text in CBC (no vector) and in ECB.
Length ==
    [abc |-> 3, message |-> 14, md5 |-> 16, sha1 |-> 20, sha224 |-> 28, sha256 |-> 32,
     hmac_data |-> 50, hmac_md5 |-> 16, hmac_sha1 |-> 20, hmac_sha224 |-> 28,
     aes_plain |-> 16, aes_cbc |-> 16, aes_ecb |-> 16, ctr_plain |-> 32, ctr |-> 32, aes_xts |-> 16,
     des_plain |-> 8, des |-> 8, des3_plain |-> 32, des3_cbc |-> 32, des3_ecb |-> 32]

Known(in, out) == [in |-> in, out |-> out]

verify_digest_crypto_libs ==
    <<Known("message", "md5"), Known("abc", "sha1"), Known("abc", "sha224"), Known("abc", "sha256")>>
verify_hmac_crypto_libs ==
    <<Known("hmac_data", "hmac_md5"), Known("hmac_data", "hmac_sha1"), Known("hmac_data", "hmac_sha224")>>
\* Each cipher encrypts, and then decrypts the known cipher text.
AesTests ==
    <<Known("aes_plain", "aes_cbc"), Known("aes_cbc", "aes_plain"),
      Known("aes_plain", "aes_ecb"), Known("aes_ecb", "aes_plain"),
      Known("ctr_plain", "ctr"), Known("ctr", "ctr_plain"),
      Known("aes_plain", "aes_xts"), Known("aes_xts", "aes_plain")>>
DesTests ==
    <<Known("des_plain", "des"), Known("des", "des_plain"),
      Known("des_plain", "des"), Known("des", "des_plain"),
      Known("des3_plain", "des3_cbc"), Known("des3_cbc", "des3_plain"),
      Known("des3_plain", "des3_ecb"), Known("des3_ecb", "des3_plain")>>
verify_cipher_crypto_libs == AesTests \o DesTests

\* main, after perform_echo.
Suites == <<verify_digest_crypto_libs, verify_hmac_crypto_libs, verify_cipher_crypto_libs>>

\* Each function has a buffer of its own, unset, and a length of zero.
CryptoVerifyInit ==
    /\ suite = 1 /\ data = "unset" /\ len = 0 /\ tests = 0
    /\ carried = TRUE /\ verdict = TRUE /\ before = TRUE

----------------------------------------------------------------------------
\* What one perform_crypto leaves: the answer; the input, when the API of the
\* service failed and it answers all the same; nothing but a length of zero,
\* when the response cannot be decoded; or all as it was, on any error before.
perform_crypto_result(t) ==
    {[data |-> t.out, len |-> Length[t.out], done |-> TRUE],
     [data |-> t.in, len |-> Length[t.in], done |-> FALSE],
     [data |-> data, len |-> 0, done |-> FALSE],
     [data |-> data, len |-> len, done |-> FALSE]}

\* Defect: only the length of the answer is compared.
Passed_length(t, r) == r.len = Length[t.out]

\* Length, then memcmp of that many bytes.
Passed(t, r) == r.len = Length[t.out] /\ r.data = t.out

Verify ==
    /\ tests < Len(Suites[suite])
    /\ LET t == Suites[suite][tests + 1] IN
       \E r \in perform_crypto_result(t) :
          /\ data' = r.data /\ len' = r.len
          /\ carried' = r.done /\ verdict' = Passed(t, r)
    /\ tests' = tests + 1 /\ before' = verdict
    /\ UNCHANGED suite

NextSuite ==
    /\ tests = Len(Suites[suite]) /\ suite < Len(Suites)
    /\ suite' = suite + 1 /\ data' = "unset" /\ len' = 0 /\ tests' = 0
    /\ carried' = TRUE /\ verdict' = TRUE /\ before' = TRUE

CryptoVerifyNext == Verify \/ NextSuite
CryptoVerifySpec == CryptoVerifyInit /\ [][CryptoVerifyNext]_verifyvars

----------------------------------------------------------------------------
\* A command that was not carried out is reported as passed only right after
\* a test reported as failed: the answer left in the buffer by an earlier
\* test is never that of the next one.  So a run that reports no failure has
\* seen the service compute every answer.
VerdictsTrue == verdict /\ ~ carried => ~ before

\* What makes it inductive: a test that passed left its answer in the buffer.
VerifyInv ==
    /\ suite \in DOMAIN Suites /\ tests \in 0 .. Len(Suites[suite])
    /\ verdict \in BOOLEAN /\ carried \in BOOLEAN /\ before \in BOOLEAN
    /\ verdict => data = IF tests = 0 THEN "unset" ELSE Suites[suite][tests].out
    /\ VerdictsTrue
=============================================================================

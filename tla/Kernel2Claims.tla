---------------------------- MODULE Kernel2Claims ----------------------------
(* What the kernel's comments and error paths say of it and its code does not *)
(* do.  Each statement has a run that ends in a counterexample.               *)
EXTENDS Kernel2Refinement

(* "CDA failure on TC -> must decline" (state_machine.rs:304), for a signature *)
(* that does not verify under a recovered ICC key.  The verification unwraps  *)
(* the error of the signature check (lib.rs:1857).                            *)
BadSignatureDeclines ==
    phase = "done" /\ card = "TC" /\ ~inGpo /\ CdaAgreed /\ icc.icc_pk = txn
    /\ "wrong signature" \in ValueOf(tags, TAG_SIGNED_DYNAMIC_APPLICATION_DATA)
        => result = declined

(* "CID (9F27) not in response" (state_machine.rs:406) is an error: the       *)
(* cryptogram type is that of the GENERATE AC answer.  The check looks in the *)
(* tag store, where a 9F27 of an earlier answer satisfies it.                 *)
CidComesFromAnswer == AfterGenerateAc => Holds(acTags, TAG_CRYPTOGRAM_INFO_DATA)

(* "CDA failure on ARQC -> continue (issuer authenticates online)"            *)
(* (state_machine.rs:310): the online request has the cryptogram to           *)
(* authenticate.  In a CDA answer 9F26 is inside the signed data and is       *)
(* stored only when the verification succeeds (lib.rs:1956).                  *)
OnlineRequestHasCryptogram ==
    HasOutcome("OnlineRequest") /\ ~inGpo /\ "cda_failed" \in tvr
        => Holds(tags, TAG_APPLICATION_CRYPTOGRAM)
=============================================================================

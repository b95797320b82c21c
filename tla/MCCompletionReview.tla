-------------------------- MODULE MCCompletionReview --------------------------
(* Sources with two contents; the answers and the bounds are in the .cfg file.   *)
EXTENDS CompletionReview
=============================================================================

----------------------------- MODULE MCAsyncTask -----------------------------
(* Answers of the upstream for TLC: a failure reason comes with a failure,   *)
(* and only with it; workers are interchangeable.                            *)
EXTENDS AsyncTask, TLC

MCAnswers == [status : {"QUEUED", "IN_PROGRESS", "SUCCESS"}, reason : {FALSE}]
                \cup [status : {"FAILURE"}, reason : {TRUE}]

MCSymmetry == Permutations(Workers)
=============================================================================

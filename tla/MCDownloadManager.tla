-------------------------- MODULE MCDownloadManager --------------------------
(* Small instances of DownloadManager.  Jobs, workers and clients are      *)
(* model values; a job whose progress callback pauses it is told apart.    *)
EXTENDS DownloadManager

CONSTANTS j1, j2, j3

MCJobs == {j1, j2, j3}
MCTwoJobs == {j1, j2}
MCProgressPauses == {j1}

=============================================================================

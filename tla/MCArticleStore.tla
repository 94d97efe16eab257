---------------------------- MODULE MCArticleStore ----------------------------
(* The instance is in the configuration: two processes, a window of two       *)
(* commits.                                                                  *)
EXTENDS ArticleStore
=============================================================================

----------------------------- MODULE MCTriePool -----------------------------
(* TriePool with two characters and three strings, so that strings share
   prefixes, extend one another and may be empty.                           *)
EXTENDS TriePool

CONSTANTS a, b
=============================================================================

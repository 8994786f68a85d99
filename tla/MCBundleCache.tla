--------------------------- MODULE MCBundleCache ----------------------------
(* BundleCache for TLC: a good bundle of two files, one of them listed, and *)
(* four that go wrong in one respect each, as small as the fault allows.    *)
EXTENDS BundleCache

CONSTANTS chart, image

BundleFiles == {chart, image}

Good == [files |-> BundleFiles, listed |-> {chart}, corrupt |-> {}, readable |-> TRUE, manifest |-> TRUE]

AllArchives ==
  {Good,
   [Good EXCEPT !.files = {chart}, !.corrupt = {chart}],
   [Good EXCEPT !.files = {}],
   [Good EXCEPT !.files = {chart}, !.readable = FALSE],
   [Good EXCEPT !.files = {}, !.listed = {}, !.manifest = FALSE]}
=============================================================================

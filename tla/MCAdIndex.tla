----------------------------- MODULE MCAdIndex -----------------------------
(* Inputs for checking AdIndex: an environment that names every folder and one that
   names none, the Drive client the routes declare and the one the gateway passes
   them.                                                                         *)
EXTENDS AdIndex, TLC

Environments   == {{"approved", "archived", "final"}, {}}
DeclaredClient == {"upload", "move", "download"}
GatewayClient  == {"uploadFromUrl", "uploadBuffer", "download", "deleteFile", "listFolder",
                   "readText", "createFolder", "updateFile"}

RequestSymmetry == Permutations(Request) \cup Permutations(Production)
============================================================================

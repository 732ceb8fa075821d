--------------------------- MODULE MCFileCommands ---------------------------
(***************************************************************************)
(* Small instances of FileCommands: files of no chunk, of part of a chunk, *)
(* of exactly one, of one and a rest, of exactly two, and one byte over    *)
(* the size limit.                                                         *)
(***************************************************************************)
EXTENDS FileCommands, TLC

CONSTANTS a, b

\* The paths are interchangeable.
NameSymmetry == Permutations(Names)

MCFiles == {<< >>, <<1>>, <<1, 2>>, <<1, 2, 1>>, <<1, 2, 2, 1>>,
            <<1, 1, 1, 1, 1>>}

\* With CHUNK_SIZE 1, a file of two chunks: enough to tell an inner reply
\* from the last.
MCFewFiles == {<<1, 2>>}
=============================================================================

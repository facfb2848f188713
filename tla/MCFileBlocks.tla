---------------------------- MODULE MCFileBlocks ----------------------------
\* Model-checking instance of FileBlocks: blocks of two bytes.
EXTENDS FileBlocks
=============================================================================

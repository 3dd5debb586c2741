---------------------------- MODULE MC_Ext4Maker ----------------------------
(***************************************************************************)
(* Instances of Ext4Maker for TLC: images of a few small groups.            *)
(***************************************************************************)
EXTENDS Ext4Maker

\* An empty and a small file with attributes that do not fit into their
\* inodes, one that needs several groups; links of both kinds; a directory, the size
\* of which on disk is not 0; a socket.  Names of two and of seven words.
MCEntries ==
    { Entry("file", 2, 0, TRUE), Entry("file", 7, 2, TRUE),
      Entry("file", 2, 17, FALSE), Entry("link", 2, 0, FALSE),
      Entry("slowlink", 7, 0, FALSE), Entry("dir", 7, 1, FALSE),
      Entry("special", 2, 0, FALSE) }
=============================================================================

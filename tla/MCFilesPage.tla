---------------------------- MODULE MCFilesPage ----------------------------
EXTENDS FilesPage

CONSTANTS album, pic, clip, top, n1, NoItem

\* A picture beside one folder, which holds a video.
Places == [i \in {album, pic, clip} |-> IF i = clip THEN album ELSE top]

\* Everything is there, or the video is still being downloaded.
Stocked ==
    {[i \in {album, pic, clip} |-> n1],
     [i \in {album, pic, clip} |-> IF i = clip THEN NoItem ELSE n1]}
=============================================================================

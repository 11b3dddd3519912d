------------------------------ MODULE ImageInfo ------------------------------
(***************************************************************************)
(* getImageInfo of the legacy DockerHandler (src/unnamed/part_000) and the *)
(* canonical "registry/name:tag" form isImageInWhiteList builds from it.   *)
(*                                                                         *)
(* An image string is a sequence of characters of Chars. The defaults the *)
(* code writes, "docker.io" and "latest", are one-token sequences whose    *)
(* token is not a character of Chars, so no input spells them.             *)
(***************************************************************************)
EXTENDS Naturals, Sequences, SequencesExt

CONSTANTS
  Chars,     \* the characters an image string is made of
  DockerIO,  \* the token standing for the string "docker.io"
  Latest     \* the token standing for the string "latest"

ASSUME {"/", ":", "@", "."} \subseteq Chars
ASSUME {DockerIO, Latest} \cap Chars = {}

\* strings.Index / strings.LastIndex of a one-character separator, 1-based
\* (0 when absent), within s[from..].
IndexFrom(s, c, from) == SelectInSubSeq(s, from, Len(s), LAMBDA x : x = c)
LastIndex(s, c) == SelectLastInSeq(s, LAMBDA x : x = c)

\* s[from..to] as a Go slice expression s[from-1:to].
Slice(s, from, to) == SubSeq(s, from, to)

\* Mutant: the name keeps the "/" it was split at (image[idx:]).
getImageInfoNameWithSlash(image) ==
  LET idx  == LastIndex(image, "/")
      host == IF idx > 0 THEN Slice(image, 1, idx - 1) ELSE <<DockerIO>>
      name == IF idx > 0 THEN Slice(image, idx, Len(image)) ELSE image
      c1   == IndexFrom(name, ":", 1)
      c2   == IF c1 > 0 THEN IndexFrom(name, ":", c1 + 1) ELSE 0
  IN  [registry |-> host,
       name     |-> IF c1 > 0 THEN Slice(name, 1, c1 - 1) ELSE name,
       tag      |-> IF c1 = 0 THEN <<Latest>>
                    ELSE Slice(name, c1 + 1, IF c2 > 0 THEN c2 - 1 ELSE Len(name))]

\* getImageInfo: the registry is everything before the LAST "/" (or
\* "docker.io" when there is none); the rest is split on ":" and the name
\* is temp[0], the tag temp[1], the text between the first and the second
\* ":" (or "latest" when there is no ":").
getImageInfo(image) ==
  LET idx  == LastIndex(image, "/")
      host == IF idx > 0 THEN Slice(image, 1, idx - 1) ELSE <<DockerIO>>
      name == IF idx > 0 THEN Slice(image, idx + 1, Len(image)) ELSE image
      c1   == IndexFrom(name, ":", 1)
      c2   == IF c1 > 0 THEN IndexFrom(name, ":", c1 + 1) ELSE 0
  IN  [registry |-> host,
       name     |-> IF c1 > 0 THEN Slice(name, 1, c1 - 1) ELSE name,
       tag      |-> IF c1 = 0 THEN <<Latest>>
                    ELSE Slice(name, c1 + 1, IF c2 > 0 THEN c2 - 1 ELSE Len(name))]

\* validFormatImage of isImageInWhiteList: fmt "%s/%s:%s".
validFormatImage(info) == info.registry \o <<"/">> \o info.name \o <<":">> \o info.tag

=============================================================================

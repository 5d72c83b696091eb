---------------------------- MODULE ImageRegistry ----------------------------
(***************************************************************************)
(* The database images the operator knows, and what it derives from them:  *)
(* the image that serves a PostgreSQL version, and the versions that image *)
(* can upgrade it to (src/private/image).                                  *)
(***************************************************************************)
LOCAL INSTANCE Integers

(* The versions each image ships binaries for, in the order of the code.   *)
Images == << {13, 15}, {15, 17} >>

(* Every version the CRD's enum admits.                                    *)
Versions == UNION {Images[i] : i \in DOMAIN Images}

(* No version, no image: the zero values of the code.                      *)
None == 0

(* init() registers the images in order, so the last one that ships a      *)
(* version serves it; an unknown version has no image.                     *)
GetImage(v) ==
    LET ships == {i \in DOMAIN Images : v \in Images[i]}
    IN  IF ships = {} THEN None ELSE CHOOSE i \in ships : \A j \in ships : j <= i

(* The versions pg_upgrade can reach with the binaries of the image that   *)
(* serves v: those of that image that are newer than v.                    *)
UpgradeVersions(v) ==
    IF GetImage(v) = None THEN {} ELSE {w \in Images[GetImage(v)] : w > v}
=============================================================================

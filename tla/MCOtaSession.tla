---------------------------- MODULE MCOtaSession ----------------------------
(* Two devices behind one gateway and two links; and the package format over *)
(* small images.                                                             *)
EXTENDS OtaSession

CONSTANTS d1, d2

MCDevices == {d1, d2}

MCImages == UNION {[1..n -> {0, 9}] : n \in MinImage..MaxImage}

MCVersions ==
  {<<1, 0>>, <<0, Byte, 0>>, <<1, 0, Byte^2>>, <<0, 0, 0>>, <<1, 2, 3>>, <<Byte - 1, Byte - 1, Byte^2 - 1>>}

MCLegal == {v \in MCVersions : IsVersion(v)}

Packages == {BuildPackage(image, <<1, 2, 3>>) : image \in MCImages}

MCFiles == [data : {<<>>} \cup MCImages \cup Packages \cup {Front(p) : p \in Packages}, ota : BOOLEAN]

\* A package keeps what was packed: it passes its self-check, its image is the image
\* and its version the version (pack_ota, validate_package, format_version).
ASSUME PackageIsFaithful ==
  \A image \in MCImages, v \in MCLegal :
    LET p == BuildPackage(image, v) IN
      ValidatesPackage(p) /\ Image(p) = image /\ FormatVersion(Field(p, "app_version")) = v

\* The self-check refuses a package with a damaged word, a truncated one, one with
\* something after the image, and one whose state is not PACKAGE (validate_package).
ASSUME DamageIsRefused ==
  \A p \in Packages :
    /\ \A i \in DOMAIN p : \A w \in (0..9) \ {p[i]} : ~ ValidatesPackage([p EXCEPT ![i] = w])
    /\ \A n \in 0..(Len(p) - 1) : ~ ValidatesPackage(SubSeq(p, 1, n))
    /\ \A w \in 0..9 : ~ ValidatesPackage(Append(p, w))
    /\ \A s \in States \ {0} : ~ ValidatesPackage(PackOta(Image(p), <<1, 2, 3>>, s))

\* The dialog makes sound packages only, whatever the file is called and holds
\* (load_package_summary, _build_current_package).
ASSUME OnlySoundPackages ==
  \A f \in MCFiles, v \in MCVersions :
    CurrentPackage(f, v) # <<>> => ValidatesPackage(CurrentPackage(f, v))
=============================================================================

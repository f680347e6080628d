--------------------------- MODULE MCMediaUpload ---------------------------
(* Small files for TLC.                                                    *)
EXTENDS MediaUpload

\* Bound: a voice upload that lost its turn counts the packets of pictures.
FewSoundPackets == SD_packetNum["sound"] <= MaxPackets + 2
=============================================================================

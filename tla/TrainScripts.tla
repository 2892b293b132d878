--------------------------- MODULE TrainScripts ----------------------------
(***************************************************************************)
(* train2.py: the features of three directories of images are gathered in  *)
(* arrays whose sizes are numbers in the source, batch by batch from a     *)
(* generator that starts again after the last image; a network is fitted   *)
(* to them and three files are saved.  train.py does the same with a       *)
(* network whose results do not have the shape of its array.               *)
(*                                                                         *)
(* Abstractions.  Image k is the k-th the generator gives in a round; its  *)
(* features and its label, which are assigned the same way, are k; 0 is a  *)
(* row nothing was assigned to.                                            *)
(***************************************************************************)
EXTENDS Integers, FiniteSetsExt

CONSTANTS
    TrainCount,     \* 10705: sample_count of the first directory
    Batch,          \* 20: batch_size
    MaxImages       \* bound: images in a directory

ASSUME TrainAssumption == TrainCount \in Nat \ {0} /\ Batch \in Nat \ {0, 1} /\ MaxImages \in Nat

VARIABLES
    tAt,        \* "start", "extract", "fit", "save", "end", "raised", "killed"
    images,     \* how many images each directory has
    directory,  \* the one extract_features is called for
    batch,       \* i
    given,      \* images the generator has given in this round
    rows,       \* the arrays
    saved       \* the files that are saved

trainVars == <<tAt, images, directory, batch, given, rows, saved>>

Directories3 == {"train", "validation", "test"}

Count(d) == IF d = "train" THEN TrainCount ELSE 1

TrainInit ==
    /\ tAt = "start" /\ images = [d \in Directories3 |-> 0]
    /\ directory = "train" /\ batch = 0 /\ given = 0 /\ saved = {}
    /\ rows = [d \in Directories3 |-> [k \in 1 .. Count(d) |-> 0]]

-----------------------------------------------------------------------------

Train2 ==
    /\ tAt = "start"
    /\ tAt' = "extract"
    /\ \E n \in 0 .. MaxImages, v, t \in 0 .. 2 :
         images' = [train |-> n, validation |-> v, test |-> t]
    /\ UNCHANGED <<directory, batch, given, rows, saved>>

(* train.py: with include_top the results have 1000 columns, the array      *)
(* (8, 8, 1536): the first assignment raises, if the directory is not empty *)
(* or even absent, which raises before.                                     *)
Train ==
    /\ tAt = "start"
    /\ tAt' = "raised"
    /\ images' \in {[images EXCEPT !["train"] = n] : n \in 0 .. MaxImages}
    /\ directory' = "none"
    /\ UNCHANGED <<batch, given, rows, saved>>

(* The batch the generator gives, and the slice it is assigned to: what is  *)
(* left of a round, what is left of the array.                              *)
BatchLength == Min({Batch, images[directory] - given})

SliceLength == Max({0, Min({Batch, Count(directory) - batch * Batch})})

(* An assignment to a slice takes as many rows, or one for all of them.     *)
Fits == BatchLength = SliceLength \/ BatchLength = 1

(* The loop is left when the array is full, tested with the next i.         *)
FullVariant == batch * Batch >= Count(directory)

Full == (batch + 1) * Batch >= Count(directory)

Assign ==
    /\ tAt = "extract" /\ Fits
    /\ rows' = [rows EXCEPT ![directory] = [k \in DOMAIN @ |->
                   IF k \in batch * Batch + 1 .. batch * Batch + SliceLength
                   THEN given + (IF BatchLength = 1 THEN 1 ELSE k - batch * Batch)
                   ELSE @[k]]]
    /\ batch' = IF Full THEN 0 ELSE batch + 1
    /\ given' = IF Full \/ given + BatchLength = images[directory] THEN 0 ELSE given + BatchLength
    /\ directory' = IF Full THEN CASE directory = "train" -> "validation"
                                  [] directory = "validation" -> "test"
                                  [] OTHER -> "none"
                    ELSE directory
    /\ tAt' = IF directory' = "none" THEN "fit" ELSE "extract"
    /\ UNCHANGED <<images, saved>>

DoesNotFit ==
    /\ tAt = "extract" /\ ~Fits
    /\ tAt' = "raised"
    /\ UNCHANGED <<images, directory, batch, given, rows, saved>>

(* 150000 epochs.                                                           *)
Fit ==
    /\ tAt = "fit"
    /\ tAt' = "save"
    /\ UNCHANGED <<images, directory, batch, given, rows, saved>>

SaveFile ==
    /\ tAt = "save"
    /\ saved' = saved \cup {CASE saved = {} -> "model.h5"
                              [] saved = {"model.h5"} -> "conv.h5"
                              [] OTHER -> "model.json"}
    /\ tAt' = IF "model.json" \in saved' THEN "end" ELSE "save"
    /\ UNCHANGED <<images, directory, batch, given, rows>>

TrainKilled ==
    /\ tAt \in {"extract", "fit", "save"}
    /\ tAt' = "killed"
    /\ UNCHANGED <<images, directory, batch, given, rows, saved>>

TrainNext ==
    Train2 \/ Train \/ Assign \/ DoesNotFit \/ Fit \/ SaveFile \/ TrainKilled

-----------------------------------------------------------------------------

(* train2.py:41: a network is fitted to rows that are the images, each      *)
(* once, if the directory has as many as the number in the source; with     *)
(* fewer, the assignment raises, except that a last batch of one image is   *)
(* spread over the rest of its slice, or that rounds fill the array when    *)
(* its length is a multiple of the batch's.  With the right numbers nothing *)
(* raises, and files are saved only when the other two directories have one *)
(* image.                                                                   *)
RowsAreImages ==
    /\ tAt \in {"fit", "save", "end"} =>
          /\ images["validation"] = 1 /\ images["test"] = 1
          /\ images["train"] >= TrainCount =>
                rows["train"] = [k \in 1 .. TrainCount |-> k]
          /\ images["train"] < TrainCount =>
                images["train"] % Batch = 1 \/ TrainCount % Batch = 0
    /\ tAt = "raised" /\ directory # "none" => images[directory] # Count(directory)
    /\ saved # {} => tAt \in {"save", "end", "killed"} /\ images["test"] = 1

=============================================================================

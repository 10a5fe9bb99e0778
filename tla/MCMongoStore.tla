---------------------------- MODULE MCMongoStore ----------------------------
(* Two callers, with every method of Model[T] but the paginated finds. *)
EXTENDS MongoStore, TLC

CONSTANTS c1, c2

AllKinds == {"FindByID", "FindOne", "CreateOne", "CreateMany", "FindByIDAndUpdate", "FindOneAndUpdate",
             "FindAndUpdateMany", "DeleteByID", "DeleteOne", "DeleteMany"} \cup Transactions

(* The first caller may repeat its call. *)
MCMaxCalls == (c1 :> 2 @@ c2 :> 1)
=============================================================================
